--------------------------- MODULE DurabilityProofs ---------------------------
(***************************************************************************)
(* Proofs about Durability for any keys and clients, any fsync policy, any  *)
(* torn records and any number of SETs.                                    *)
(*                                                                         *)
(* Nothing is ever taken out of the AOF but what was not synced: what was  *)
(* logged is in the file and what is durable in the part of it that is on  *)
(* disk.  Of a key that is neither spoilt nor overtaken the replay         *)
(* executes every whole record and the last one is the newest.  And while  *)
(* the server is up and no write has failed, memory holds what a restart   *)
(* would recover of such a key, or a SET of it that is yet to be logged.   *)
(***************************************************************************)
EXTENDS Durability, SequenceProofs

Record == [key : Keys, id : Nat, part : {Whole} \union AllTornKinds]
Call == [phase : {"append", "sync"}, id : Nat, key : Keys]

Values == Nat \union {Garbage}

TypeOK ==
  /\ server \in {"up", "down", "refused"}
  /\ mem \in [Keys -> Values]
  /\ last \in Nat
  /\ set \in [Clients -> Call \union {Idle}]
  /\ file \in Seq(Record)
  /\ synced \in 0..Len(file)
  /\ failed \in BOOLEAN
  /\ rdb \in [Keys -> Values]
  /\ logged \in [Keys -> Nat]
  /\ durable \in [Keys -> Nat]

\* SETs are numbered in the order they are applied in: what a client has yet
\* to log is not newer than the store.
Numbered ==
  /\ \A i \in 1..Len(file) : file[i].id <= last
  /\ \A c \in Clients : set[c].phase = "append" =>
       set[c].id <= last /\ set[c].id <= mem[set[c].key]

\* The SETs of store are whole in the first n records.
Kept(store, n) ==
  \A k \in Keys : store[k] = 0 \/
    \E i \in 1..n : file[i].key = k /\ file[i].id = store[k] /\ file[i].part = Whole

\* A SET that is about to be synced is in the file.
Syncing ==
  \A c \in Clients : set[c].phase = "sync" =>
    \E i \in 1..Len(file) :
      file[i].key = set[c].key /\ file[i].id = set[c].id /\ file[i].part = Whole

Pending(c, k) == set[c].phase = "append" /\ set[c].key = k

\* The newest SET of a key is yet to be logged; or the store is what a
\* restart would recover, and if an older SET of the key is yet to be logged,
\* the record of the newest is there for it to come after.
Current(k) ==
  \/ \E c \in Clients : Pending(c, k) /\ set[c].id = mem[k]
  \/ /\ Recovered(rdb, file)[k] = mem[k]
     /\ (\E c \in Clients : Pending(c, k)) =>
          \E i \in 1..Len(file) : file[i].key = k /\ file[i].id = mem[k]

IInv ==
  /\ TypeOK
  /\ Numbered
  /\ Kept(logged, Len(file))
  /\ Kept(durable, synced)
  /\ Syncing
  /\ server # "up" => \A c \in Clients : set[c] = Idle
  /\ server = "up" /\ ~failed /\ ~LoadFails(file) => \A k \in Sound(file) : Current(k)
-----------------------------------------------------------------------------
(* The replay *)

SetsOf(f, k) == {i \in 1..Len(f) : f[i].key = k /\ f[i].part = Whole}

\* The replay executes the whole records of a key that is not spoilt, and no
\* others of it.
LEMMA UnspoiltSets ==
  ASSUME NEW f \in Seq(Record), NEW k \in Keys, k \notin Spoilt(f)
  PROVE  /\ SetsOf(f, k) = {i \in 1..Len(f) : f[i].key = k /\ Executes(f, i)}
         /\ \A i \in SetsOf(f, k) : valueOf(f[i]) = f[i].id
<1>1. ASSUME NEW i \in 1..Len(f), f[i].key = k
      PROVE  ~Taken(f, i) /\ ~(f[i].part = "value" /\ i < Len(f))
  BY <1>1 DEF Spoilt
<1>2. \A i \in 1..Len(f) : f[i].key = k => (Executes(f, i) <=> f[i].part = Whole)
  BY <1>1 DEF Executes
<1> QED BY <1>2 DEF SetsOf, valueOf

\* It leaves the last of them, the snapshot's value if there is none.
LEMMA RecoveredIs ==
  ASSUME NEW f \in Seq(Record), NEW base, NEW k \in Keys, k \notin Spoilt(f)
  PROVE  /\ SetsOf(f, k) = {} => Recovered(base, f)[k] = base[k]
         /\ SetsOf(f, k) # {} =>
              \E i \in SetsOf(f, k) : /\ \A j \in SetsOf(f, k) : j <= i
                                      /\ Recovered(base, f)[k] = f[i].id
<1>1. Recovered(base, f)[k] = IF SetsOf(f, k) = {} THEN base[k] ELSE f[Max(SetsOf(f, k))].id
  <2> DEFINE sets == {i \in 1..Len(f) : f[i].key = k /\ Executes(f, i)}
  <2>1. Recovered(base, f)[k] = IF sets = {} THEN base[k] ELSE valueOf(f[Max(sets)])
    BY DEF Recovered
  <2>2. SetsOf(f, k) = sets /\ \A i \in sets : valueOf(f[i]) = f[i].id
    BY UnspoiltSets
  <2> HIDE DEF sets
  <2>3. Len(f) \in Nat /\ SetsOf(f, k) \subseteq 1..Len(f)
    BY DEF SetsOf
  <2>4. sets # {} => Max(sets) \in sets
    BY <2>2, <2>3, LastPosition
  <2> QED BY <2>1, <2>2, <2>4
<1>2. Len(f) \in Nat /\ SetsOf(f, k) \subseteq 1..Len(f)
  BY DEF SetsOf
<1>3. ASSUME SetsOf(f, k) # {}
      PROVE  Max(SetsOf(f, k)) \in SetsOf(f, k) /\ \A j \in SetsOf(f, k) : j <= Max(SetsOf(f, k))
  BY <1>2, <1>3, LastPosition
<1> QED BY <1>1, <1>3

\* What one more record at the end takes away: a key that is sound with it
\* was sound before, and a file that cannot be read stays so.
LEMMA SoundAppend ==
  ASSUME NEW f \in Seq(Record), NEW r \in Record
  PROVE  /\ Sound(Append(f, r)) \subseteq Sound(f)
         /\ LoadFails(f) => LoadFails(Append(f, r))
<1> DEFINE g == Append(f, r)
<1>1. /\ Len(g) = Len(f) + 1 /\ Len(f) \in Nat
      /\ \A i \in 1..Len(f) : g[i] = f[i]
  OBVIOUS
<1> HIDE DEF g
<1>2. \A i \in 1..Len(f) : i \in 1..Len(g) /\ i < Len(g)
  BY <1>1
<1>3. \A i \in 1..Len(f) : Taken(f, i) => Taken(g, i)
  <2> SUFFICES ASSUME NEW i \in 1..Len(f), i > 1, f[i - 1].part \in {"key", "value"}
               PROVE  g[i - 1].part \in {"key", "value"}
    BY DEF Taken
  <2>1. i - 1 \in 1..Len(f)
    BY <1>1
  <2> QED BY <1>1, <2>1
<1>4. Spoilt(f) \subseteq Spoilt(g)
  <2> SUFFICES ASSUME NEW i \in 1..Len(f), Taken(f, i) \/ (f[i].part = "value" /\ i < Len(f))
               PROVE  f[i].key \in Spoilt(g)
    BY DEF Spoilt
  <2>1. i \in 1..Len(g) /\ g[i] = f[i] /\ (Taken(g, i) \/ (g[i].part = "value" /\ i < Len(g)))
    BY <1>1, <1>2, <1>3
  <2> QED BY <2>1 DEF Spoilt
<1>5. Overtaken(f) \subseteq Overtaken(g)
  <2> SUFFICES ASSUME NEW j \in 1..Len(f), NEW i \in 1..j - 1, f[i].key = f[j].key, f[i].id > f[j].id
               PROVE  f[j].key \in Overtaken(g)
    BY DEF Overtaken
  <2>1. i \in 1..Len(f)
    BY <1>1
  <2>2. j \in 1..Len(g) /\ g[j] = f[j] /\ g[i] = f[i]
    BY <1>1, <1>2, <2>1
  <2>3. g[i].key = g[j].key /\ g[i].id > g[j].id
    BY <2>2
  <2> QED BY <2>2, <2>3 DEF Overtaken
<1>6. ASSUME LoadFails(f) PROVE LoadFails(g)
  <2>1. PICK i \in 1..Len(f) : f[i].part = "payload" \/ (f[i].part = "middle" /\ i < Len(f))
    BY <1>6 DEF LoadFails
  <2> QED BY <1>1, <1>2, <2>1 DEF LoadFails
<1> QED BY <1>4, <1>5, <1>6 DEF Sound, g

\* What it does to the replay.
LEMMA RecoveredAppend ==
  ASSUME NEW f \in Seq(Record), NEW base, NEW r \in Record, NEW k \in Sound(Append(f, r))
  PROVE  Recovered(base, Append(f, r))[k] =
           IF r.key = k /\ r.part = Whole THEN r.id ELSE Recovered(base, f)[k]
<1> DEFINE g == Append(f, r)
<1>1. /\ g \in Seq(Record) /\ Len(g) = Len(f) + 1 /\ Len(f) \in Nat
      /\ \A i \in 1..Len(f) : g[i] = f[i]
      /\ g[Len(f) + 1] = r
  OBVIOUS
<1>u. k \in Keys /\ k \notin Spoilt(f) /\ k \notin Spoilt(g)
  BY SoundAppend DEF Sound
<1> HIDE DEF g
<1>2. CASE r.key = k /\ r.part = Whole
  <2>1. Len(f) + 1 \in SetsOf(g, k)
    BY <1>1, <1>2 DEF SetsOf
  <2>2. PICK i \in SetsOf(g, k) : (\A j \in SetsOf(g, k) : j <= i) /\ Recovered(base, g)[k] = g[i].id
    BY <1>1, <1>u, <2>1, RecoveredIs
  <2>3. i = Len(f) + 1
    BY <1>1, <2>1, <2>2 DEF SetsOf
  <2> QED BY <1>1, <1>2, <2>2, <2>3 DEF g
<1>3. CASE ~(r.key = k /\ r.part = Whole)
  <2>1. SetsOf(g, k) = SetsOf(f, k)
    BY <1>1, <1>3 DEF SetsOf
  <2>2. CASE SetsOf(f, k) = {}
    <3>1. Recovered(base, f)[k] = base[k] /\ Recovered(base, g)[k] = base[k]
      BY <1>1, <1>u, <2>1, <2>2, RecoveredIs
    <3> QED BY <1>3, <3>1 DEF g
  <2>3. CASE SetsOf(f, k) # {}
    <3>1. PICK i \in SetsOf(f, k) : (\A j \in SetsOf(f, k) : j <= i) /\ Recovered(base, f)[k] = f[i].id
      BY <1>u, <2>3, RecoveredIs
    <3>2. PICK l \in SetsOf(f, k) : (\A j \in SetsOf(f, k) : j <= l) /\ Recovered(base, g)[k] = g[l].id
      BY <1>1, <1>u, <2>1, <2>3, RecoveredIs
    <3>3. i = l /\ g[l] = f[l]
      BY <1>1, <3>1, <3>2 DEF SetsOf
    <3> QED BY <1>3, <3>1, <3>2, <3>3 DEF g
  <2> QED BY <2>2, <2>3
<1> QED BY <1>2, <1>3

\* What is replayed is a number or garbage.
LEMMA RecoveredValues ==
  ASSUME NEW f \in Seq(Record), NEW base \in [Keys -> Values]
  PROVE  Recovered(base, f) \in [Keys -> Values]
<1>1. ASSUME NEW k \in Keys
      PROVE  Recovered(base, f)[k] \in Values
  <2> DEFINE sets == {i \in 1..Len(f) : f[i].key = k /\ Executes(f, i)}
  <2>1. Recovered(base, f)[k] = IF sets = {} THEN base[k] ELSE valueOf(f[Max(sets)])
    BY DEF Recovered
  <2>2. Len(f) \in Nat /\ sets \subseteq 1..Len(f)
    OBVIOUS
  <2> HIDE DEF sets
  <2>3. CASE sets = {}
    BY <2>1, <2>3
  <2>4. CASE sets # {}
    <3>1. Max(sets) \in 1..Len(f)
      BY <2>2, <2>4, LastPosition
    <3>2. f[Max(sets)] \in Record
      BY <3>1
    <3> QED BY <2>1, <2>4, <3>2 DEF Record, valueOf, Values
  <2> QED BY <2>3, <2>4
<1>2. Recovered(base, f) = [k \in Keys |-> Recovered(base, f)[k]]
  BY DEF Recovered
<1> QED BY <1>1, <1>2
-----------------------------------------------------------------------------
(* Steps *)

LEMMA IdleFacts == Idle.phase = "idle" /\ Idle \notin Call
BY DEF Idle, Call

\* A client is answered.
LEMMA AnswerFacts ==
  ASSUME TypeOK, NEW c \in Clients, set[c].phase # "idle", NEW ok \in BOOLEAN,
         Answer(c, ok)
  PROVE  /\ set[c] \in Call /\ set[c].key \in Keys /\ set[c].id \in Nat
         /\ set' \in [Clients -> Call \union {Idle}]
         /\ set'[c] = Idle /\ \A d \in Clients : d # c => set'[d] = set[d]
         /\ logged' \in [Keys -> Nat]
         /\ \A k \in Keys :
              logged'[k] = logged[k] \/ (ok /\ k = set[c].key /\ logged'[k] = set[c].id)
<1>1. set[c] \in Call
  BY IdleFacts DEF TypeOK
<1>2. set[c].key \in Keys /\ set[c].id \in Nat
  BY <1>1 DEF Call
<1>3. set' = [set EXCEPT ![c] = Idle]
  BY DEF Answer
<1>4. /\ set' \in [Clients -> Call \union {Idle}]
      /\ set'[c] = Idle /\ \A d \in Clients : d # c => set'[d] = set[d]
  BY <1>3 DEF TypeOK
<1> DEFINE v == newer(logged[set[c].key], set[c].id)
<1>5. v \in Nat /\ (v = logged[set[c].key] \/ v = set[c].id)
  BY <1>2 DEF newer, TypeOK
<1>6. logged' = IF ok THEN [logged EXCEPT ![set[c].key] = v] ELSE logged
  BY DEF Answer
<1> HIDE DEF v
<1>7. /\ logged' \in [Keys -> Nat]
      /\ \A k \in Keys :
              logged'[k] = logged[k] \/ (ok /\ k = set[c].key /\ logged'[k] = set[c].id)
  BY <1>2, <1>5, <1>6 DEF TypeOK
<1> QED BY <1>1, <1>2, <1>4, <1>7

LEMMA InitIInv ==
  ASSUME Init
  PROVE  IInv
<1>1. file = <<>> /\ Len(file) = 0 /\ file \in Seq(Record) /\ synced = 0
  BY DEF Init
<1>2. TypeOK
  <2>1. server \in {"up", "down", "refused"} /\ failed \in BOOLEAN /\ last \in Nat
    BY DEF Init
  <2>2. set \in [Clients -> Call \union {Idle}]
    BY DEF Init
  <2>3. mem \in [Keys -> Values] /\ rdb \in [Keys -> Values] /\ logged \in [Keys -> Nat]
        /\ durable \in [Keys -> Nat]
    BY DEF Init, Values
  <2> QED BY <1>1, <2>1, <2>2, <2>3 DEF TypeOK
<1>3. Numbered /\ Syncing
  BY <1>1, IdleFacts DEF Init, Numbered, Syncing
<1>4. Kept(logged, Len(file)) /\ Kept(durable, synced)
  BY DEF Init, Kept
<1>5. \A k \in Keys : Current(k)
  <2>1. ASSUME NEW k \in Keys
        PROVE  Recovered(rdb, file)[k] = 0
    <3>1. SetsOf(file, k) = {} /\ k \notin Spoilt(file)
      BY <1>1 DEF SetsOf, Spoilt
    <3> QED BY <1>1, <3>1, RecoveredIs DEF Init
  <2> QED BY <2>1, IdleFacts DEF Init, Current, Pending
<1> QED BY <1>2, <1>3, <1>4, <1>5 DEF IInv, Init, Sound

LEMMA SetApplyStep ==
  ASSUME IInv, NEW c \in Clients, NEW k \in Keys, SetApply(c, k)
  PROVE  IInv'
<1> DEFINE call == [phase |-> "append", id |-> last + 1, key |-> k]
<1>1. /\ server = "up" /\ last' = last + 1 /\ mem' = [mem EXCEPT ![k] = last + 1]
      /\ set' = [set EXCEPT ![c] = call] /\ set[c] = Idle
      /\ UNCHANGED <<policy, server, file, synced, rdb, failed, logged, durable>>
  BY DEF SetApply, diskVars
<1>2. last \in Nat /\ call \in Call /\ call.phase = "append" /\ call.id = last + 1 /\ call.key = k
  BY DEF IInv, TypeOK, Call
<1> HIDE DEF call
<1>3. TypeOK'
  BY <1>1, <1>2 DEF IInv, TypeOK, Values
<1>4. set'[c] = call /\ \A d \in Clients : d # c => set'[d] = set[d]
  BY <1>1 DEF IInv, TypeOK
<1>5. mem'[k] = last + 1 /\ \A j \in Keys : j # k => mem'[j] = mem[j]
  BY <1>1 DEF IInv, TypeOK
<1>6. Numbered'
  <2>1. \A i \in 1..Len(file) : file[i].id <= last + 1
    <3>1. \A i \in 1..Len(file) : file[i] \in Record
      BY DEF IInv, TypeOK
    <3> QED BY <1>2, <3>1 DEF IInv, Numbered, Record
  <2>2. ASSUME NEW d \in Clients, set'[d].phase = "append"
        PROVE  set'[d].id <= last + 1 /\ set'[d].id <= mem'[set'[d].key]
    <3>1. CASE d = c
      BY <1>2, <1>4, <1>5, <3>1
    <3>2. CASE d # c
      <4>1. set'[d] = set[d] /\ set[d] \in Call
        BY <1>4, <2>2, <3>2, IdleFacts DEF IInv, TypeOK
      <4>2. set[d].id <= last /\ set[d].id <= mem[set[d].key] /\ set[d].id \in Nat /\ set[d].key \in Keys
        BY <2>2, <4>1 DEF IInv, Numbered, Call
      <4> QED BY <1>2, <1>5, <4>1, <4>2
    <3> QED BY <3>1, <3>2
  <2> QED BY <1>1, <2>1, <2>2 DEF Numbered
<1>7. Syncing'
  BY <1>1, <1>2, <1>4 DEF Syncing, IInv, TypeOK
<1>8. Kept(logged, Len(file))' /\ Kept(durable, synced)'
  BY <1>1 DEF IInv, Kept
<1>9. ASSUME server = "up", ~failed, ~LoadFails(file), NEW j \in Sound(file)
      PROVE  Current(j)'
  <2>1. CASE j = k
    BY <1>2, <1>4, <1>5, <2>1 DEF Current, Pending
  <2>2. CASE j # k
    <3>1. mem'[j] = mem[j] /\ j \in Keys
      BY <1>5, <2>2 DEF Sound
    <3>2. \A d \in Clients : Pending(d, j)' <=> Pending(d, j)
      BY <1>1, <1>2, <1>4, <2>2, IdleFacts DEF Pending
    <3>3. \A d \in Clients : Pending(d, j) => set'[d] = set[d]
      BY <1>1, <1>4, IdleFacts DEF Pending
    <3> QED BY <1>1, <1>9, <3>1, <3>2, <3>3 DEF IInv, Current
  <2> QED BY <2>1, <2>2
<1> QED BY <1>1, <1>3, <1>6, <1>7, <1>8, <1>9 DEF IInv

\* One more record.
LEMMA AppendFacts ==
  ASSUME IInv, NEW c \in Clients, set[c].phase = "append", NEW p \in {Whole} \union AllTornKinds,
         file' = Append(file, record(c, p))
  PROVE  /\ record(c, p) \in Record
         /\ record(c, p).key = set[c].key /\ record(c, p).id = set[c].id /\ record(c, p).part = p
         /\ file' \in Seq(Record) /\ Len(file') = Len(file) + 1 /\ Len(file) \in Nat
         /\ \A i \in 1..Len(file) : file'[i] = file[i]
         /\ file'[Len(file) + 1] = record(c, p)
         /\ \A i \in 1..Len(file') : file'[i].id <= last
<1>1. set[c] \in Call
  BY IdleFacts DEF IInv, TypeOK
<1>2. set[c].key \in Keys /\ set[c].id \in Nat /\ set[c].id <= last
  BY <1>1 DEF Call, IInv, Numbered
<1> DEFINE r == record(c, p)
<1>3. r \in Record /\ r.key = set[c].key /\ r.id = set[c].id /\ r.part = p
  BY <1>2 DEF record, Record
<1> HIDE DEF r
<1>4. file \in Seq(Record) /\ file' = Append(file, r)
  BY DEF IInv, TypeOK, r
<1>5. /\ file' \in Seq(Record) /\ Len(file') = Len(file) + 1 /\ Len(file) \in Nat
      /\ \A i \in 1..Len(file) : file'[i] = file[i]
      /\ file'[Len(file) + 1] = r
  BY <1>3, <1>4
<1>6. ASSUME NEW i \in 1..Len(file')
      PROVE  file'[i].id <= last
  <2>1. CASE i = Len(file) + 1
    BY <1>2, <1>3, <1>5, <2>1
  <2>2. CASE i \in 1..Len(file)
    BY <1>5, <2>2 DEF IInv, Numbered
  <2> QED BY <1>5, <2>1, <2>2
<1> QED BY <1>3, <1>5, <1>6 DEF r

LEMMA AofAppendStep ==
  ASSUME IInv, NEW c \in Clients, AofAppend(c)
  PROVE  IInv'
<1> DEFINE r == record(c, Whole)
<1>1. /\ set[c].phase = "append" /\ ~failed /\ file' = Append(file, r)
      /\ UNCHANGED <<server, mem, last, synced, failed, rdb, durable>>
  BY DEF AofAppend
<1>2. /\ r \in Record
      /\ r.key = set[c].key /\ r.id = set[c].id /\ r.part = Whole
      /\ file' \in Seq(Record) /\ Len(file') = Len(file) + 1 /\ Len(file) \in Nat
      /\ \A i \in 1..Len(file) : file'[i] = file[i]
      /\ file'[Len(file) + 1] = r
      /\ \A i \in 1..Len(file') : file'[i].id <= last
  BY <1>1, AppendFacts
<1> HIDE DEF r
<1>3. set[c] \in Call /\ set[c].key \in Keys /\ set[c].id \in Nat
  BY <1>1, IdleFacts DEF IInv, TypeOK, Call
<1>4. /\ set' \in [Clients -> Call \union {Idle}]
      /\ set'[c].phase # "append" /\ \A d \in Clients : d # c => set'[d] = set[d]
      /\ set'[c].phase = "sync" => set'[c].key = set[c].key /\ set'[c].id = set[c].id
      /\ logged' \in [Keys -> Nat]
      /\ \A k \in Keys : logged'[k] = logged[k] \/ (k = set[c].key /\ logged'[k] = set[c].id)
  <2>1. CASE policy = "always"
    <3> DEFINE u == [set[c] EXCEPT !.phase = "sync"]
    <3>1. u \in Call /\ u.phase = "sync" /\ u.key = set[c].key /\ u.id = set[c].id
      BY <1>3 DEF Call
    <3>2. set' = [set EXCEPT ![c] = u] /\ logged' = logged
      BY <2>1 DEF AofAppend
    <3> HIDE DEF u
    <3>3. /\ set' \in [Clients -> Call \union {Idle}]
          /\ set'[c] = u /\ \A d \in Clients : d # c => set'[d] = set[d]
      BY <3>1, <3>2 DEF IInv, TypeOK
    <3> QED BY <3>1, <3>2, <3>3 DEF IInv, TypeOK
  <2>2. CASE policy # "always"
    <3>1. Answer(c, TRUE)
      BY <2>2 DEF AofAppend
    <3>2. /\ set' \in [Clients -> Call \union {Idle}]
          /\ set'[c] = Idle /\ \A d \in Clients : d # c => set'[d] = set[d]
          /\ logged' \in [Keys -> Nat]
          /\ \A k \in Keys : logged'[k] = logged[k] \/ (k = set[c].key /\ logged'[k] = set[c].id)
      BY <1>1, <3>1, AnswerFacts DEF IInv
    <3> QED BY <3>2, IdleFacts
  <2> QED BY <2>1, <2>2
<1>5. TypeOK'
  BY <1>1, <1>2, <1>4 DEF IInv, TypeOK
<1>6. Numbered'
  BY <1>1, <1>2, <1>4 DEF IInv, Numbered
<1>7. Len(file) + 1 \in 1..Len(file')
  BY <1>2
<1>8. Kept(logged, Len(file))'
  <2>1. \A k \in Keys : logged'[k] = logged[k] \/
          \E i \in 1..Len(file') :
            file'[i].key = k /\ file'[i].id = logged'[k] /\ file'[i].part = Whole
    BY <1>2, <1>4, <1>7
  <2>2. Kept(logged, Len(file)) /\ Len(file') \in Nat /\ Len(file) <= Len(file')
    BY <1>2 DEF IInv
  <2>3. ASSUME NEW k \in Keys, logged'[k] # 0
        PROVE  \E i \in 1..Len(file') :
                 file'[i].key = k /\ file'[i].id = logged'[k] /\ file'[i].part = Whole
    <3>1. CASE logged'[k] = logged[k]
      <4>1. PICK i \in 1..Len(file) :
              file[i].key = k /\ file[i].id = logged[k] /\ file[i].part = Whole
        BY <2>2, <2>3, <3>1 DEF Kept
      <4>2. i \in 1..Len(file') /\ file'[i] = file[i]
        BY <1>2
      <4> QED BY <3>1, <4>1, <4>2
    <3> QED BY <2>1, <2>3, <3>1
  <2> QED BY <2>3 DEF Kept
<1>9. Kept(durable, synced)'
  <2>1. synced \in Nat /\ synced <= Len(file) /\ Kept(durable, synced)
    BY DEF IInv, TypeOK
  <2>2. \A i \in 1..synced : file'[i] = file[i]
    BY <1>2, <2>1
  <2> QED BY <1>1, <2>1, <2>2 DEF Kept
<1>10. Syncing'
  <2> SUFFICES ASSUME NEW d \in Clients, set'[d].phase = "sync"
               PROVE  \E i \in 1..Len(file') : file'[i].key = set'[d].key /\ file'[i].id = set'[d].id
                                              /\ file'[i].part = Whole
    BY DEF Syncing
  <2>1. CASE d = c
    BY <1>2, <1>4, <1>7, <2>1
  <2>2. CASE d # c
    <3>1. set'[d] = set[d]
      BY <1>4, <2>2
    <3>2. PICK i \in 1..Len(file) :
            file[i].key = set[d].key /\ file[i].id = set[d].id /\ file[i].part = Whole
      BY <3>1 DEF IInv, Syncing
    <3>3. i \in 1..Len(file') /\ file'[i] = file[i]
      BY <1>2
    <3> QED BY <3>1, <3>2, <3>3
  <2> QED BY <2>1, <2>2
<1>11. server' # "up" => \A d \in Clients : set'[d] = Idle
  BY <1>1, IdleFacts DEF IInv
<1>12. ASSUME server = "up", ~LoadFails(file'), NEW k \in Sound(file')
       PROVE  Current(k)'
  <2>1. file \in Seq(Record) /\ file' = Append(file, r)
    BY <1>1 DEF IInv, TypeOK, r
  <2>2. ~LoadFails(file) /\ k \in Sound(file) /\ k \in Keys
    BY <1>2, <1>12, <2>1, SoundAppend DEF Sound
  <2>3. Current(k)
    BY <1>1, <1>12, <2>2 DEF IInv
  <2>4. Recovered(rdb, file')[k] = IF r.key = k THEN r.id ELSE Recovered(rdb, file)[k]
    BY <1>2, <1>12, <2>1, RecoveredAppend
  <2>5. ASSUME NEW d \in Clients, d # c
        PROVE  (Pending(d, k)' <=> Pending(d, k)) /\ set'[d] = set[d]
    BY <1>4, <2>5 DEF Pending
  <2>6. \A i \in 1..Len(file) : i \in 1..Len(file') /\ file'[i] = file[i]
    BY <1>2
  <2>7. ~Pending(c, k)'
    BY <1>4 DEF Pending
  <2>8. CASE r.key # k
    <3>1. ~Pending(c, k)
      BY <1>2, <2>8 DEF Pending
    <3> QED BY <1>1, <2>3, <2>4, <2>5, <2>6, <2>7, <2>8, <3>1 DEF Current
  <2>9. CASE r.key = k /\ r.id = mem[k]
    <3>1. Recovered(rdb, file')[k] = mem[k]
      BY <2>4, <2>9
    <3>2. file'[Len(file) + 1].key = k /\ file'[Len(file) + 1].id = mem[k]
      BY <1>2, <2>9
    <3> QED BY <1>1, <1>7, <3>1, <3>2 DEF Current
  <2>10. CASE r.key = k /\ r.id # mem[k]
    <3>1. Pending(c, k) /\ set[c].id # mem[k]
      BY <1>1, <1>2, <2>10 DEF Pending
    <3>2. CASE \E d \in Clients : Pending(d, k) /\ set[d].id = mem[k]
      BY <1>1, <2>5, <3>1, <3>2 DEF Current
    <3>3. ASSUME NEW i \in 1..Len(file), file[i].key = k, file[i].id = mem[k]
          PROVE  FALSE
      <4>1. set[c].id <= mem[k] /\ file[i] \in Record
        BY <3>1, <2>1 DEF IInv, Numbered, Pending
      <4>2. file'[i].key = k /\ file'[i].id > r.id
        BY <1>2, <1>3, <2>10, <3>1, <3>3, <4>1 DEF Record
      <4>3. i \in 1..(Len(file) + 1) - 1 /\ Len(file) + 1 \in 1..Len(file')
        BY <1>2, <1>7
      <4>4. file'[Len(file) + 1].key \in Overtaken(file')
        BY <1>2, <2>10, <4>2, <4>3 DEF Overtaken
      <4> QED BY <1>2, <1>12, <2>10, <4>4 DEF Sound
    <3> QED BY <2>3, <3>1, <3>2, <3>3 DEF Current
  <2> QED BY <2>8, <2>9, <2>10
<1> QED BY <1>1, <1>5, <1>6, <1>8, <1>9, <1>10, <1>11, <1>12 DEF IInv

\* A client that was not about to log anything is answered: what memory and
\* disk hold of each key is as before.
LEMMA CurrentKept ==
  ASSUME NEW c \in Clients, set[c].phase # "append", set'[c].phase # "append",
         \A d \in Clients : d # c => set'[d] = set[d],
         UNCHANGED <<mem, file, rdb>>
  PROVE  \A k \in Keys : Current(k) => Current(k)'
<1> SUFFICES ASSUME NEW k \in Keys, Current(k)
             PROVE  Current(k)'
  OBVIOUS
<1>1. \A d \in Clients : (Pending(d, k)' <=> Pending(d, k)) /\ (Pending(d, k) => set'[d] = set[d])
  BY DEF Pending
<1> QED BY <1>1 DEF Current

LEMMA AofSyncStep ==
  ASSUME IInv, NEW c \in Clients, AofSync(c)
  PROVE  IInv'
<1>1. /\ set[c].phase = "sync" /\ synced' = Len(file) /\ Answer(c, TRUE) /\ durable' = logged'
      /\ UNCHANGED <<server, mem, last, file, failed, rdb>>
  BY DEF AofSync
<1>2. /\ set' \in [Clients -> Call \union {Idle}]
      /\ set'[c] = Idle /\ \A d \in Clients : d # c => set'[d] = set[d]
      /\ logged' \in [Keys -> Nat]
      /\ \A k \in Keys : logged'[k] = logged[k] \/ (k = set[c].key /\ logged'[k] = set[c].id)
  BY <1>1, AnswerFacts DEF IInv
<1>3. Len(file) \in Nat
  BY DEF IInv, TypeOK
<1>4. TypeOK'
  BY <1>1, <1>2, <1>3 DEF IInv, TypeOK
<1>5. Numbered' /\ Syncing'
  BY <1>1, <1>2, IdleFacts DEF IInv, Numbered, Syncing
<1>6. PICK w \in 1..Len(file) :
        file[w].key = set[c].key /\ file[w].id = set[c].id /\ file[w].part = Whole
  BY <1>1 DEF IInv, Syncing
<1>7. Kept(logged, Len(file))'
  <2>1. Kept(logged, Len(file))
    BY DEF IInv
  <2> QED BY <1>1, <1>2, <1>6, <2>1 DEF Kept
<1>8. Kept(durable, synced)'
  BY <1>1, <1>7 DEF Kept
<1>9. ASSUME server = "up", ~failed, ~LoadFails(file), NEW k \in Sound(file)
      PROVE  Current(k)'
  <2>1. Current(k) /\ k \in Keys
    BY <1>9 DEF IInv, Sound
  <2> QED BY <1>1, <1>2, <2>1, IdleFacts, CurrentKept
<1> QED BY <1>1, <1>2, <1>4, <1>5, <1>7, <1>8, <1>9 DEF IInv

\* file.Sync fails.
LEMMA AofSyncFailsStep ==
  ASSUME IInv, NEW c \in Clients, AofSyncFails(c)
  PROVE  IInv'
<1>1. /\ set[c].phase = "sync" /\ Answer(c, FALSE)
      /\ UNCHANGED <<server, mem, last, file, synced, failed, rdb, durable>>
  BY DEF AofSyncFails, diskVars
<1>2. /\ set' \in [Clients -> Call \union {Idle}]
      /\ set'[c] = Idle /\ \A d \in Clients : d # c => set'[d] = set[d]
      /\ logged' = logged
  BY <1>1, AnswerFacts DEF IInv, Answer
<1>3. TypeOK'
  BY <1>1, <1>2 DEF IInv, TypeOK
<1>4. Numbered' /\ Syncing'
  BY <1>1, <1>2, IdleFacts DEF IInv, Numbered, Syncing
<1>5. Kept(logged, Len(file))' /\ Kept(durable, synced)'
  BY <1>1, <1>2 DEF IInv, Kept
<1>6. ASSUME server = "up", ~failed, ~LoadFails(file), NEW k \in Sound(file)
      PROVE  Current(k)'
  <2>1. Current(k) /\ k \in Keys
    BY <1>6 DEF IInv, Sound
  <2> QED BY <1>1, <1>2, <2>1, IdleFacts, CurrentKept
<1> QED BY <1>1, <1>2, <1>3, <1>4, <1>5, <1>6 DEF IInv

\* A flush fails, now or earlier: nothing is claimed of the store until the
\* next start.
LEMMA AofFailsStep ==
  ASSUME IInv, NEW c \in Clients, AofWriteFails(c) \/ AofWriteSkipped(c)
  PROVE  IInv'
<1>1. /\ set[c].phase = "append" /\ Answer(c, FALSE) /\ failed' = TRUE
      /\ UNCHANGED <<server, mem, last, synced, rdb, durable>>
      /\ file' = file \/ \E t \in TornKinds : file' = Append(file, record(c, t))
  <2>1. CASE AofWriteFails(c)
    BY <2>1 DEF AofWriteFails
  <2>2. CASE AofWriteSkipped(c)
    BY <2>2 DEF AofWriteSkipped, diskVars, IInv, TypeOK
  <2> QED BY <2>1, <2>2
<1>2. /\ set' \in [Clients -> Call \union {Idle}]
      /\ set'[c] = Idle /\ \A d \in Clients : d # c => set'[d] = set[d]
      /\ logged' = logged
  BY <1>1, AnswerFacts DEF IInv, Answer
<1>3. Len(file) \in Nat /\ synced \in Nat /\ synced <= Len(file) /\ file \in Seq(Record)
  BY DEF IInv, TypeOK
<1>4. /\ file' \in Seq(Record) /\ Len(file') \in Nat /\ Len(file) <= Len(file')
      /\ \A i \in 1..Len(file) : file'[i] = file[i]
      /\ \A i \in 1..Len(file') : file'[i].id <= last
  <2>1. CASE file' = file
    BY <1>3, <2>1 DEF IInv, Numbered
  <2>2. ASSUME NEW t \in TornKinds, file' = Append(file, record(c, t))
        PROVE  /\ file' \in Seq(Record) /\ Len(file') = Len(file) + 1
               /\ \A i \in 1..Len(file) : file'[i] = file[i]
               /\ \A i \in 1..Len(file') : file'[i].id <= last
    <3>1. t \in {Whole} \union AllTornKinds
      BY DurabilityAssumption
    <3> QED BY <1>1, <2>2, <3>1, AppendFacts
  <2> QED BY <1>1, <1>3, <2>1, <2>2
<1>5. TypeOK'
  BY <1>1, <1>2, <1>3, <1>4 DEF IInv, TypeOK
<1>6. Numbered' /\ Syncing'
  BY <1>1, <1>2, <1>4, IdleFacts DEF IInv, Numbered, Syncing
<1>7. Kept(logged, Len(file))'
  <2>1. ASSUME NEW k \in Keys, logged[k] # 0
        PROVE  \E i \in 1..Len(file') :
                 file'[i].key = k /\ file'[i].id = logged[k] /\ file'[i].part = Whole
    <3>1. PICK i \in 1..Len(file) :
            file[i].key = k /\ file[i].id = logged[k] /\ file[i].part = Whole
      BY <2>1 DEF IInv, Kept
    <3>2. i \in 1..Len(file') /\ file'[i] = file[i]
      BY <1>3, <1>4
    <3> QED BY <3>1, <3>2
  <2> QED BY <1>2, <2>1 DEF Kept
<1>8. Kept(durable, synced)'
  <2>1. \A i \in 1..synced : file'[i] = file[i]
    BY <1>3, <1>4
  <2> QED BY <1>1, <2>1 DEF IInv, Kept
<1> QED BY <1>1, <1>2, <1>5, <1>6, <1>7, <1>8 DEF IInv

LEMMA BackgroundSyncStep ==
  ASSUME IInv, backgroundSync
  PROVE  IInv'
<1>1. /\ synced' = Len(file) /\ durable' = logged
      /\ UNCHANGED <<server, mem, last, set, file, failed, rdb, logged>>
  BY DEF backgroundSync
<1>2. TypeOK'
  BY <1>1 DEF IInv, TypeOK
<1>3. Numbered' /\ Syncing'
  BY <1>1 DEF IInv, Numbered, Syncing
<1>4. Kept(logged, Len(file))' /\ Kept(durable, synced)'
  BY <1>1 DEF IInv, Kept
<1> QED BY <1>1, <1>2, <1>3, <1>4 DEF IInv, Current, Pending

LEMMA SaveStep ==
  ASSUME IInv, Save
  PROVE  IInv'
<1>1. rdb' = mem /\ UNCHANGED <<server, mem, last, set, file, synced, failed, logged, durable>>
  BY DEF Save
<1>2. TypeOK'
  BY <1>1 DEF IInv, TypeOK
<1>3. Numbered' /\ Syncing'
  BY <1>1 DEF IInv, Numbered, Syncing
<1>4. Kept(logged, Len(file))' /\ Kept(durable, synced)'
  BY <1>1 DEF IInv, Kept
<1>5. ASSUME server = "up", ~failed, ~LoadFails(file), NEW k \in Sound(file)
      PROVE  Current(k)'
  <2>1. Current(k) /\ k \in Keys
    BY <1>5 DEF IInv, Sound
  <2>2. Recovered(mem, file)[k] = Recovered(rdb, file)[k] \/ Recovered(mem, file)[k] = mem[k]
    BY <2>1 DEF Recovered
  <2> QED BY <1>1, <2>1, <2>2 DEF Current, Pending
<1> QED BY <1>1, <1>2, <1>3, <1>4, <1>5 DEF IInv

LEMMA KillStep ==
  ASSUME IInv, Kill
  PROVE  IInv'
<1>1. /\ server' = "down" /\ set' = [c \in Clients |-> Idle]
      /\ UNCHANGED <<mem, last, file, synced, failed, rdb, logged, durable>>
  BY DEF Kill, diskVars
<1>2. TypeOK'
  BY <1>1 DEF IInv, TypeOK
<1>3. Numbered' /\ Syncing'
  BY <1>1, IdleFacts DEF IInv, Numbered, Syncing
<1>4. Kept(logged, Len(file))' /\ Kept(durable, synced)'
  BY <1>1 DEF IInv, Kept
<1> QED BY <1>1, <1>2, <1>3, <1>4 DEF IInv

\* What is left of the file after a power failure: a prefix that contains
\* the synced records, and perhaps a part of the next one.
LEMMA PowerLossFacts ==
  ASSUME IInv, PowerLoss
  PROVE  /\ file' \in Seq(Record) /\ Len(file') \in Nat
         /\ synced <= Len(file') /\ Len(file') <= Len(file)
         /\ \A i \in 1..synced : file'[i] = file[i]
         /\ \A i \in 1..Len(file') : file'[i].id = file[i].id
<1>1. PICK n \in synced..Len(file) :
        \/ file' = SubSeq(file, 1, n)
        \/ \E t \in TornKinds : /\ n < Len(file)
                               /\ file' = Append(SubSeq(file, 1, n), [file[n + 1] EXCEPT !.part = t])
  BY DEF PowerLoss
<1>2. file \in Seq(Record) /\ Len(file) \in Nat /\ synced \in Nat /\ n \in Nat
      /\ synced <= n /\ n <= Len(file)
  BY DEF IInv, TypeOK
<1> DEFINE kept == SubSeq(file, 1, n)
<1>3. kept \in Seq(Record) /\ Len(kept) = n /\ \A i \in 1..n : kept[i] = file[i]
  BY <1>2
<1> HIDE DEF kept
<1>4. CASE file' = kept
  BY <1>2, <1>3, <1>4
<1>5. ASSUME NEW t \in TornKinds, n < Len(file), file' = Append(kept, [file[n + 1] EXCEPT !.part = t])
      PROVE  /\ file' \in Seq(Record) /\ Len(file') = n + 1
             /\ \A i \in 1..n : file'[i] = file[i]
             /\ file'[n + 1].id = file[n + 1].id
  <2> DEFINE r == [file[n + 1] EXCEPT !.part = t]
  <2>1. n + 1 \in 1..Len(file)
    BY <1>2, <1>5
  <2>2. file[n + 1] \in Record /\ t \in AllTornKinds
    BY <1>2, <2>1, DurabilityAssumption
  <2>3. r \in Record /\ r.id = file[n + 1].id
    BY <2>2 DEF Record
  <2> HIDE DEF r
  <2>4. file' = Append(kept, r)
    BY <1>5 DEF r
  <2> QED BY <1>2, <1>3, <2>3, <2>4
<1>6. CASE \E t \in TornKinds : n < Len(file) /\ file' = Append(kept, [file[n + 1] EXCEPT !.part = t])
  <2>1. /\ file' \in Seq(Record) /\ Len(file') = n + 1 /\ n < Len(file)
        /\ \A i \in 1..n : file'[i] = file[i]
        /\ file'[n + 1].id = file[n + 1].id
    BY <1>5, <1>6
  <2>2. ASSUME NEW i \in 1..Len(file')
        PROVE  file'[i].id = file[i].id
    <3>1. i = n + 1 \/ i \in 1..n
      BY <1>2, <2>1
    <3> QED BY <2>1, <3>1
  <2> QED BY <1>2, <2>1, <2>2
<1> QED BY <1>1, <1>4, <1>6 DEF kept

LEMMA PowerLossStep ==
  ASSUME IInv, PowerLoss
  PROVE  IInv'
<1>1. /\ server' = "down" /\ set' = [c \in Clients |-> Idle] /\ synced' = Len(file')
      /\ logged' = durable
      /\ UNCHANGED <<mem, last, failed, rdb, durable>>
  BY DEF PowerLoss
<1>2. /\ file' \in Seq(Record) /\ Len(file') \in Nat
      /\ synced <= Len(file') /\ Len(file') <= Len(file)
      /\ \A i \in 1..synced : file'[i] = file[i]
      /\ \A i \in 1..Len(file') : file'[i].id = file[i].id
  BY PowerLossFacts
<1>3. Len(file) \in Nat /\ synced \in Nat /\ last \in Nat
  BY DEF IInv, TypeOK
<1>4. TypeOK'
  BY <1>1, <1>2 DEF IInv, TypeOK
<1>5. \A c \in Clients : set'[c].phase = "idle"
  BY <1>1, IdleFacts
<1>6. Numbered'
  <2>1. \A i \in 1..Len(file') : i \in 1..Len(file)
    BY <1>2, <1>3
  <2> QED BY <1>1, <1>2, <1>5, <2>1 DEF IInv, Numbered
<1>7. Syncing'
  BY <1>5 DEF Syncing
<1>8. \A k \in Keys : durable[k] = 0 \/
        \E i \in 1..Len(file') :
          file'[i].key = k /\ file'[i].id = durable[k] /\ file'[i].part = Whole
  <2>1. ASSUME NEW k \in Keys, durable[k] # 0
        PROVE  \E i \in 1..Len(file') :
                 file'[i].key = k /\ file'[i].id = durable[k] /\ file'[i].part = Whole
    <3>1. PICK i \in 1..synced :
            file[i].key = k /\ file[i].id = durable[k] /\ file[i].part = Whole
      BY <2>1 DEF IInv, Kept
    <3>2. i \in 1..Len(file') /\ file'[i] = file[i]
      BY <1>2, <1>3
    <3> QED BY <3>1, <3>2
  <2> QED BY <2>1
<1>9. Kept(logged, Len(file))' /\ Kept(durable, synced)'
  BY <1>1, <1>8 DEF Kept
<1> QED BY <1>1, <1>4, <1>6, <1>7, <1>9 DEF IInv

LEMMA StartStep ==
  ASSUME IInv, Start
  PROVE  IInv'
<1>1. /\ server # "up" /\ failed' = FALSE
      /\ \/ LoadFails(file) /\ server' = "refused" /\ mem' = mem
         \/ ~LoadFails(file) /\ server' = "up" /\ mem' = Recovered(rdb, file)
      /\ UNCHANGED <<last, set, file, synced, rdb, logged, durable>>
  BY DEF Start, diskVars
<1>2. \A c \in Clients : set[c] = Idle /\ set[c].phase = "idle"
  BY <1>1, IdleFacts DEF IInv
<1>3. mem' \in [Keys -> Values]
  BY <1>1, RecoveredValues DEF IInv, TypeOK
<1>4. TypeOK'
  BY <1>1, <1>3 DEF IInv, TypeOK
<1>5. Numbered' /\ Syncing'
  BY <1>1, <1>2 DEF IInv, Numbered, Syncing
<1>6. Kept(logged, Len(file))' /\ Kept(durable, synced)'
  BY <1>1 DEF IInv, Kept
<1>7. server' = "up" => \A k \in Keys : Current(k)'
  BY <1>1, <1>2 DEF Current, Pending
<1> QED BY <1>1, <1>2, <1>4, <1>5, <1>6, <1>7 DEF IInv, Sound
-----------------------------------------------------------------------------
(* The theorems *)

LEMMA Inductive ==
  ASSUME IInv, [Next]_vars
  PROVE  IInv'
<1>1. ASSUME NEW c \in Clients, NEW k \in Keys, SetApply(c, k) PROVE IInv'
  BY <1>1, SetApplyStep
<1>2. ASSUME NEW c \in Clients, AofAppend(c) PROVE IInv'
  BY <1>2, AofAppendStep
<1>3. ASSUME NEW c \in Clients, AofSync(c) PROVE IInv'
  BY <1>3, AofSyncStep
<1>4. ASSUME NEW c \in Clients, AofSyncFails(c) PROVE IInv'
  BY <1>4, AofSyncFailsStep
<1>5. ASSUME NEW c \in Clients, AofWriteFails(c) \/ AofWriteSkipped(c) PROVE IInv'
  BY <1>5, AofFailsStep
<1>6. CASE backgroundSync
  BY <1>6, BackgroundSyncStep
<1>7. CASE Save
  BY <1>7, SaveStep
<1>8. CASE Kill
  BY <1>8, KillStep
<1>9. CASE PowerLoss
  BY <1>9, PowerLossStep
<1>10. CASE Start
  BY <1>10, StartStep
<1>11. CASE UNCHANGED vars
  <2>1. UNCHANGED <<server, mem, last, set, file, synced, failed, rdb, logged, durable>>
    BY <1>11 DEF vars
  <2>2. TypeOK' /\ Numbered' /\ Syncing'
    BY <2>1 DEF IInv, TypeOK, Numbered, Syncing
  <2>3. Kept(logged, Len(file))' /\ Kept(durable, synced)'
    BY <2>1 DEF IInv, Kept
  <2>4. ASSUME server = "up", ~failed, ~LoadFails(file), NEW k \in Sound(file)
        PROVE  Current(k)'
    <3>1. Current(k)
      BY <2>4 DEF IInv
    <3> QED BY <2>1, <3>1 DEF Current, Pending
  <2> QED BY <2>1, <2>2, <2>3, <2>4 DEF IInv
<1> QED BY <1>1, <1>2, <1>3, <1>4, <1>5, <1>6, <1>7, <1>8, <1>9, <1>10, <1>11 DEF Next

\* Every state satisfies the inductive invariant.
THEOREM Invariance == Spec => []IInv
<1>1. Init => IInv
  BY InitIInv
<1>2. IInv /\ [Next]_vars => IInv'
  BY Inductive
<1> QED BY <1>1, <1>2, PTL DEF Spec

\* No start that succeeds loses a SET that was logged (after a power failure:
\* and synced), whatever the policy, however many clients there are and
\* however many deaths, torn records and failed writes came before, but for
\* the keys of which a torn record has taken a later one or two SETs were
\* logged in the other order.
THEOREM LoggedIsRecovered == Spec => []RecoversLogged
<1>1. ASSUME IInv PROVE RecoversLogged
  <2> SUFFICES ASSUME NEW k \in Sound(file), logged[k] # 0
               PROVE  Recovered(rdb, file)[k] >= logged[k]
    BY DEF RecoversLogged, Sound
  <2>1. k \in Keys /\ k \notin Spoilt(file) /\ k \notin Overtaken(file)
    BY DEF Sound
  <2>2. file \in Seq(Record) /\ logged[k] \in Nat
    BY <1>1, <2>1 DEF IInv, TypeOK
  <2>3. PICK i \in SetsOf(file, k) : file[i].id = logged[k]
    BY <1>1, <2>1 DEF IInv, Kept, SetsOf
  <2>4. PICK j \in SetsOf(file, k) : i <= j /\ Recovered(rdb, file)[k] = file[j].id
    BY <2>1, <2>2, <2>3, RecoveredIs
  <2>5. i \in 1..Len(file) /\ j \in 1..Len(file) /\ file[i].key = k /\ file[j].key = k
    BY DEF SetsOf
  <2>6. file[i].id \in Nat /\ file[j].id \in Nat
    <3>1. file[i] \in Record /\ file[j] \in Record
      BY <2>2, <2>5
    <3> QED BY <3>1 DEF Record
  <2>7. ASSUME i < j, file[i].id > file[j].id
        PROVE  FALSE
    <3>1. i \in 1..j - 1
      BY <2>5, <2>7
    <3> QED BY <2>1, <2>5, <2>7, <3>1 DEF Overtaken
  <2> QED BY <2>3, <2>4, <2>5, <2>6, <2>7
<1> QED BY <1>1, Invariance, PTL

\* At rest a restart brings back exactly the state in memory, snapshot and
\* AOF together, but for the same keys.
THEOREM RestartIsExact == Spec => []ReplayRestoresState
<1>1. ASSUME IInv PROVE ReplayRestoresState
  <2> SUFFICES ASSUME Quiet, ~LoadFails(file), NEW k \in Sound(file)
               PROVE  Recovered(rdb, file)[k] = mem[k]
    BY DEF ReplayRestoresState, Sound
  <2>1. \A c \in Clients : ~Pending(c, k)
    BY IdleFacts DEF Quiet, Pending
  <2> QED BY <1>1, <2>1 DEF IInv, Current, Quiet
<1> QED BY <1>1, Invariance, PTL
================================================================================
