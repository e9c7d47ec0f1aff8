---------------------------- MODULE SnapshotProofs ----------------------------
(***************************************************************************)
(* Proofs about Snapshot for any number of clients, any number of saves    *)
(* and versions, with and without failures and crashes.                    *)
(*                                                                         *)
(* Two arguments are made side by side.  A saver that is alone owns the    *)
(* temporary file from os.Create to os.Rename, and the file is never the   *)
(* snapshot (Alone).  When savers overlap, a file that has a name and is   *)
(* not complete has a writer that will complete it (Heals).                *)
(***************************************************************************)
EXTENDS Snapshot, FiniteSetTheorems, TLAPS

File == [head : BOOLEAN, body : Nat]
Pcs == {"idle", "spawned", "create", "head", "body", "sync", "rename", "returned"}
Call == [pc : Pcs, entries : Nat, fd : Inodes \union {None}]

TypeOK ==
  /\ server \in {"up", "down", "refused"}
  /\ version \in Nat \ {0}
  /\ saver \in [Savers -> Call]
  /\ running \in BOOLEAN
  /\ tmp \in Inodes \union {None}
  /\ rdb \in Inodes \union {None}
  /\ content \in [Inodes -> File]
  /\ onDisk \in [Inodes -> File]
  /\ saved \in Nat
  /\ past \in SUBSET {"overlap", "failure"}

\* A saver has a file open from os.Create to f.Close, its entries are not
\* empty, and bgSave.running says whether the background saver is at work.
Calls ==
  /\ \A s \in Savers : /\ saver[s].fd # None <=> saver[s].pc \in {"head", "body", "sync"}
                       /\ Saving(s) => saver[s].entries > 0
                       /\ server # "up" => ~Busy(s)
  /\ running <=> Busy(Bg)

\* The file holds the snapshot of version v.
Holds(file, v) == file.head /\ file.body = v

\* How far saver s has got with the temporary file, which is its own.
Owns(s) ==
  /\ Saving(s) => saved <= saver[s].entries /\ saver[s].entries <= version
  /\ saver[s].fd # None => saver[s].fd = tmp
  /\ saver[s].pc = "body" => content[tmp].head
  /\ saver[s].pc = "sync" => Holds(content[tmp], saver[s].entries)
  /\ saver[s].pc = "rename" => /\ tmp # None
                               /\ Holds(content[tmp], saver[s].entries)
                               /\ Holds(onDisk[tmp], saver[s].entries)

\* A file from which nothing that was saved is missing.
Keeps(file) == Complete(file) /\ file.body >= saved

Alone ==
  /\ \A s, t \in Savers : Saving(s) /\ Saving(t) => s = t
  /\ \A s \in Savers : Owns(s)
  /\ tmp # None => tmp # rdb
  /\ version >= saved
  /\ rdb # None => Keeps(content[rdb]) /\ Keeps(onDisk[rdb])
  /\ saved > 0 => rdb # None

\* Saver s will make the file of inode i complete.
WillComplete(s, i) ==
  /\ saver[s].fd = i
  /\ saver[s].pc = "head" \/ (saver[s].pc = "body" /\ content[i].head)

Heals ==
  \A i \in {tmp, rdb} \ {None} : Complete(content[i]) \/ \E s \in Savers : WillComplete(s, i)

IInv ==
  /\ TypeOK
  /\ Calls
  /\ "overlap" \notin past => Alone
  /\ "failure" \notin past => Heals
-----------------------------------------------------------------------------
(* The file system *)

\* An inode that has a name or an open file keeps its content.
LEMMA ReclaimKeeps ==
  ASSUME NEW files \in [Inodes -> File]
  PROVE  /\ Reclaim(files) \in [Inodes -> File]
         /\ \A i \in Inodes : i = tmp' \/ i = rdb' => Reclaim(files)[i] = files[i]
BY DEF Reclaim, Empty, File

\* There is an inode for os.Create to take.
LEMMA UnusedExists ==
  ASSUME TypeOK, Calls, NEW s \in Savers, saver[s].pc = "create", tmp = None
  PROVE  Unused # {}
<1> SUFFICES ASSUME Unused = {} PROVE FALSE
  OBVIOUS
<1>1. saver[s].fd = None
  BY DEF Calls
<1>2. \A i \in Inodes : i # rdb => \E t \in Savers : saver[t].fd = i
  BY SnapshotAssumption DEF Unused
<1> DEFINE f == [i \in Inodes |-> IF i = rdb THEN s ELSE CHOOSE t \in Savers : saver[t].fd = i]
<1>3. \A i \in Inodes : f[i] \in Savers /\ (i # rdb => saver[f[i]].fd = i)
  BY <1>2
<1>4. f \in [Inodes -> Savers]
  BY <1>3
<1>5. rdb \in Inodes => f[rdb] = s
  OBVIOUS
<1> HIDE DEF f
<1>6. PICK x \in Inodes, y \in Inodes : x # y /\ f[x] = f[y]
  <2>1. /\ IsFiniteSet(Inodes) /\ IsFiniteSet(Savers) /\ Cardinality(Savers) < Cardinality(Inodes)
    <3>1. IsFiniteSet(Inodes) /\ IsFiniteSet(Savers) /\ Cardinality(Inodes) > Cardinality(Savers)
      BY SnapshotAssumption
    <3> QED BY <3>1, FS_CardinalityType
  <2> QED BY <1>4, <2>1, FS_PigeonHole
<1> QED BY <1>1, <1>3, <1>5, <1>6, SnapshotAssumption

\* os.Create opens the file tmp names or a new one, never the snapshot.
LEMMA TmpInode ==
  ASSUME TypeOK, Calls, NEW s \in Savers, saver[s].pc = "create"
  PROVE  /\ tmpInode \in Inodes
         /\ (tmp # None => tmp # rdb) => tmpInode # rdb
         /\ tmp # None => tmpInode = tmp
<1>1. CASE tmp # None
  BY <1>1 DEF tmpInode, TypeOK
<1>2. CASE tmp = None
  BY <1>2, UnusedExists DEF tmpInode, Unused
<1> QED BY <1>1, <1>2

\* How a step of one saver changes the calls.
LEMMA OneSaver ==
  ASSUME TypeOK, NEW s \in Savers, NEW r \in Call, saver' = [saver EXCEPT ![s] = r]
  PROVE  /\ saver' \in [Savers -> Call]
         /\ saver'[s] = r
         /\ \A t \in Savers : t # s => saver'[t] = saver[t]
BY DEF TypeOK

LEMMA IdleIsCall == Idle \in Call /\ [Idle EXCEPT !.pc = "returned"] \in Call
BY DEF Idle, Call, Pcs

\* What SaveSnapshot leaves behind when it returns.
LEMMA Returns ==
  ASSUME TypeOK, NEW s \in Savers, Return(s)
  PROVE  /\ saver' \in [Savers -> Call]
         /\ saver'[s].fd = None
         /\ saver'[s].pc \in {"idle", "returned"}
         /\ s = Bg => saver'[s].pc = "returned"
         /\ \A t \in Savers : t # s => saver'[t] = saver[t]
<1> DEFINE r == IF s = Bg THEN [Idle EXCEPT !.pc = "returned"] ELSE Idle
<1>1. r \in Call /\ r.fd = None /\ r.pc \in {"idle", "returned"} /\ (s = Bg => r.pc = "returned")
  BY IdleIsCall DEF Idle
<1>2. saver' = [saver EXCEPT ![s] = r]
  BY DEF Return
<1> HIDE DEF r
<1> QED BY <1>1, <1>2, OneSaver
-----------------------------------------------------------------------------
(* One lemma per operation *)

LEMMA InitIInv ==
  ASSUME Init
  PROVE  IInv
<1>1. TypeOK
  <2>1. Empty \in File
    BY DEF Empty, File
  <2>2. /\ saver \in [Savers -> Call]
        /\ content \in [Inodes -> File]
        /\ onDisk \in [Inodes -> File]
    BY <2>1, IdleIsCall DEF Init
  <2>3. /\ server = "up" /\ version = 1 /\ running \in BOOLEAN
        /\ tmp = None /\ rdb = None /\ saved = 0 /\ past = {}
    BY DEF Init
  <2> QED BY <2>2, <2>3 DEF TypeOK
<1>2. \A s \in Savers : saver[s].pc = "idle" /\ saver[s].fd = None
  BY DEF Init, Idle
<1>3. Bg \in Savers
  BY DEF Savers
<1>4. Calls
  BY <1>2, <1>3 DEF Init, Calls, Saving, Busy
<1>5. Alone
  BY <1>2 DEF Init, Alone, Owns, Saving
<1>6. Heals
  BY DEF Init, Heals
<1> QED BY <1>1, <1>4, <1>5, <1>6 DEF IInv

LEMMA WriteStep ==
  ASSUME IInv, Write
  PROVE  IInv'
<1>1. version' = version + 1 /\ UNCHANGED <<server, saver, running, tmp, rdb, content, onDisk, saved, past>>
  BY DEF Write, fsVars
<1>2. TypeOK'
  BY <1>1 DEF IInv, TypeOK
<1>3. Calls'
  BY <1>1 DEF IInv, Calls, Saving, Busy
<1>4. Alone => Alone'
  BY <1>1 DEF IInv, TypeOK, Call, Alone, Owns, Saving, Keeps, Complete, Holds
<1>5. Heals => Heals'
  BY <1>1 DEF Heals, WillComplete, Complete
<1> QED BY <1>1, <1>2, <1>3, <1>4, <1>5 DEF IInv

LEMMA TakeEntriesStep ==
  ASSUME IInv, NEW s \in Savers, takeEntries(s), saver[s].pc \in {"idle", "spawned"},
         server = "up", s = Bg => Busy(Bg),
         UNCHANGED <<server, version, running, fsVars, saved>>
  PROVE  IInv'
<1> DEFINE r == [pc |-> "create", entries |-> version, fd |-> None]
<1>1. UNCHANGED <<server, version, running, tmp, rdb, content, onDisk, saved>>
  BY DEF fsVars
<1>2. saver' = [saver EXCEPT ![s] = r]
  BY DEF takeEntries
<1>3. r \in Call /\ r.pc = "create" /\ r.entries = version /\ r.fd = None
  BY DEF IInv, TypeOK, Call, Pcs
<1> HIDE DEF r
<1>4. /\ saver' \in [Savers -> Call]
      /\ saver'[s] = r
      /\ \A t \in Savers : t # s => saver'[t] = saver[t]
  BY <1>2, <1>3, OneSaver DEF IInv
<1>5. past' = IF \E t \in Savers : Saving(t) THEN past \union {"overlap"} ELSE past
  BY DEF takeEntries
<1>6. TypeOK'
  BY <1>1, <1>4, <1>5 DEF IInv, TypeOK
<1>7. Calls'
  <2>1. Bg \in Savers
    BY DEF Savers
  <2> QED BY <1>1, <1>3, <1>4, <2>1 DEF IInv, TypeOK, Calls, Saving, Busy
<1>8. ASSUME "overlap" \notin past'
      PROVE  Alone'
  <2>1. Alone /\ \A t \in Savers : ~Saving(t)
    BY <1>5, <1>8 DEF IInv
  <2>2. \A t \in Savers : t # s => ~Saving(t)'
    BY <1>4, <2>1 DEF Saving
  <2>3. Owns(s)'
    BY <1>1, <1>3, <1>4, <2>1 DEF IInv, TypeOK, Alone, Owns, Saving
  <2>4. \A t \in Savers : t # s => Owns(t)'
    BY <1>1, <1>4, <2>1 DEF Alone, Owns, Saving, Holds
  <2> QED BY <1>1, <2>1, <2>2, <2>3, <2>4 DEF Alone, Keeps, Complete
<1>9. ASSUME Heals
      PROVE  Heals'
  <2>1. ASSUME NEW i \in {tmp, rdb} \ {None}, NEW t \in Savers, WillComplete(t, i)
        PROVE  WillComplete(t, i)'
    BY <1>1, <1>4, <2>1 DEF WillComplete
  <2> QED BY <1>1, <1>9, <2>1 DEF Heals, Complete
<1> QED BY <1>5, <1>6, <1>7, <1>8, <1>9 DEF IInv

LEMMA SaveSnapshotStep ==
  ASSUME IInv, NEW c \in Clients, saveSnapshot(c)
  PROVE  IInv'
<1>1. c \in Savers /\ c # Bg
  BY SnapshotAssumption DEF Savers
<1> QED BY <1>1, TakeEntriesStep DEF saveSnapshot, Busy

LEMMA BgSaveRunsStep ==
  ASSUME IInv, bgSaveRuns
  PROVE  IInv'
<1>1. Bg \in Savers
  BY DEF Savers
<1>2. Busy(Bg) /\ server = "up"
  BY <1>1 DEF IInv, Calls, bgSaveRuns, Busy
<1> QED BY <1>1, <1>2, TakeEntriesStep DEF bgSaveRuns

\* A saver that is and stays outside SaveSnapshot.
LEMMA OutsideStep ==
  ASSUME IInv, NEW s \in Savers, NEW r \in Call, saver' = [saver EXCEPT ![s] = r],
         r.fd = None, r.pc \in {"idle", "spawned", "returned"},
         saver[s].pc \in {"idle", "spawned", "returned"},
         server = "up", running' \in BOOLEAN, running' <=> Busy(Bg)',
         UNCHANGED <<server, version, fsVars, saved, past>>
  PROVE  IInv'
<1>1. UNCHANGED <<server, version, tmp, rdb, content, onDisk, saved, past>>
  BY DEF fsVars
<1>2. /\ saver' \in [Savers -> Call]
      /\ saver'[s] = r
      /\ \A t \in Savers : t # s => saver'[t] = saver[t]
  BY OneSaver DEF IInv
<1>3. TypeOK'
  BY <1>1, <1>2 DEF IInv, TypeOK
<1>4. Calls'
  BY <1>1, <1>2 DEF IInv, Calls, Saving, Busy
<1>5. ASSUME Alone
      PROVE  Alone'
  <2>1. ~Saving(s) /\ ~Saving(s)'
    BY <1>2 DEF Saving
  <2>2. \A t \in Savers : t # s => (Saving(t)' <=> Saving(t))
    BY <1>2 DEF Saving
  <2>3. Owns(s)'
    BY <1>1, <1>2, <2>1 DEF Owns
  <2>4. \A t \in Savers : t # s => Owns(t)'
    BY <1>1, <1>2, <1>5, <2>2 DEF Alone, Owns, Holds
  <2> QED BY <1>1, <1>5, <2>1, <2>2, <2>3, <2>4 DEF Alone, Keeps, Complete
<1>6. ASSUME Heals
      PROVE  Heals'
  <2>1. ASSUME NEW i \in {tmp, rdb} \ {None}, NEW t \in Savers, WillComplete(t, i)
        PROVE  WillComplete(t, i)'
    BY <1>1, <1>2, <2>1 DEF WillComplete
  <2> QED BY <1>1, <1>6, <2>1 DEF Heals, Complete
<1> QED BY <1>1, <1>3, <1>4, <1>5, <1>6 DEF IInv

LEMMA StartBGSAVEStep ==
  ASSUME IInv, startBGSAVE
  PROVE  IInv'
<1>1. Bg \in Savers
  BY DEF Savers
<1> DEFINE r == [saver[Bg] EXCEPT !.pc = "spawned"]
<1>2. saver[Bg].pc = "idle" /\ saver[Bg].fd = None /\ saver[Bg] \in Call
  BY <1>1 DEF IInv, TypeOK, Calls, startBGSAVE, Busy
<1>3. r \in Call /\ r.fd = None /\ r.pc = "spawned"
  BY <1>2 DEF Call, Pcs
<1>4. saver' = [saver EXCEPT ![Bg] = r]
  BY DEF startBGSAVE
<1> HIDE DEF r
<1>5. Busy(Bg)'
  BY <1>1, <1>3, <1>4, OneSaver DEF IInv, Busy
<1> QED BY <1>1, <1>2, <1>3, <1>4, <1>5, OutsideStep DEF startBGSAVE

LEMMA BgSaveDoneStep ==
  ASSUME IInv, bgSaveDone
  PROVE  IInv'
<1>1. Bg \in Savers
  BY DEF Savers
<1>2. saver' = [saver EXCEPT ![Bg] = Idle] /\ Idle.fd = None /\ Idle.pc = "idle"
  BY DEF bgSaveDone, Idle
<1>3. ~Busy(Bg)'
  BY <1>1, <1>2, IdleIsCall, OneSaver DEF IInv, Busy
<1>4. server = "up"
  BY <1>1 DEF IInv, Calls, bgSaveDone, Busy
<1> QED BY <1>1, <1>2, <1>3, <1>4, IdleIsCall, OutsideStep DEF bgSaveDone
-----------------------------------------------------------------------------
(* The steps of SaveSnapshot *)

\* A saver that is not at work has no claim on the temporary file.
LEMMA IdleOwns ==
  ASSUME NEW t \in Savers, ~Saving(t)', saver'[t].fd = None
  PROVE  Owns(t)'
BY DEF Owns, Saving

\* While s is at work alone, nobody else is, before and after its step.
LEMMA OthersIdle ==
  ASSUME Calls, Alone, NEW s \in Savers, Saving(s),
         \A t \in Savers : t # s => saver'[t] = saver[t]
  PROVE  \A t \in Savers : t # s => ~Saving(t)' /\ Owns(t)'
<1>1. ASSUME NEW t \in Savers, t # s
      PROVE  ~Saving(t)' /\ Owns(t)'
  <2>1. ~Saving(t)
    BY <1>1 DEF Alone
  <2>2. ~Saving(t)' /\ saver'[t].fd = None
    BY <1>1, <2>1 DEF Calls, Saving
  <2> QED BY <2>2, IdleOwns
<1> QED BY <1>1

\* A step of a saver that is not about to complete a file, and that leaves
\* the files with a name alone.
LEMMA HealsKept ==
  ASSUME Heals, NEW s \in Savers, saver[s].pc \notin {"head", "body"},
         \A t \in Savers : t # s => saver'[t] = saver[t],
         \A i \in {tmp', rdb'} \ {None} : i \in {tmp, rdb} /\ content'[i] = content[i]
  PROVE  Heals'
<1>1. ASSUME NEW i \in {tmp', rdb'} \ {None}
      PROVE  Complete(content'[i]) \/ \E t \in Savers : WillComplete(t, i)'
  <2>1. CASE Complete(content[i])
    BY <2>1
  <2>2. ASSUME NEW t \in Savers, WillComplete(t, i)
        PROVE  WillComplete(t, i)'
    BY <2>2 DEF WillComplete
  <2> QED BY <2>1, <2>2 DEF Heals
<1> QED BY <1>1 DEF Heals, Complete

\* The calls after SaveSnapshot has returned.
LEMMA ReturnCalls ==
  ASSUME TypeOK, Calls, NEW s \in Savers, Saving(s), Return(s), UNCHANGED <<server, running>>
  PROVE  Calls'
<1>1. /\ saver'[s].fd = None
      /\ saver'[s].pc \in {"idle", "returned"}
      /\ s = Bg => saver'[s].pc = "returned"
      /\ \A t \in Savers : t # s => saver'[t] = saver[t]
  BY Returns
<1>2. server = "up" /\ (s = Bg => running)
  BY DEF Calls, Saving, Busy
<1>3. running' <=> Busy(Bg)'
  <2>1. CASE s = Bg
    BY <1>1, <1>2, <2>1 DEF Busy
  <2>2. CASE s # Bg
    BY <1>1, <2>2 DEF Calls, Busy, Savers
  <2> QED BY <2>1, <2>2
<1>4. ASSUME NEW t \in Savers
      PROVE  /\ saver'[t].fd # None <=> saver'[t].pc \in {"head", "body", "sync"}
             /\ Saving(t)' => saver'[t].entries > 0
             /\ server' # "up" => ~Busy(t)'
  <2>1. CASE t = s
    BY <1>1, <1>2, <2>1 DEF Saving
  <2>2. CASE t # s
    BY <1>1, <1>2, <2>2 DEF Calls, Saving
  <2> QED BY <2>1, <2>2
<1> QED BY <1>3, <1>4 DEF Calls

LEMMA CreateTmpStep ==
  ASSUME IInv, NEW s \in Savers, CreateTmp(s)
  PROVE  IInv'
<1> DEFINE r == [saver[s] EXCEPT !.pc = "head", !.fd = tmpInode]
           j == tmpInode
<1>1. /\ saver[s].pc = "create" /\ saver[s] \in Call /\ saver[s].entries > 0
      /\ tmp' = j
      /\ content' = [content EXCEPT ![j] = Empty]
      /\ saver' = [saver EXCEPT ![s] = r]
      /\ UNCHANGED <<server, version, running, rdb, onDisk, saved, past>>
  BY DEF IInv, TypeOK, Calls, CreateTmp, Saving
<1>2. /\ j \in Inodes /\ j # None
      /\ (tmp # None => tmp # rdb) => j # rdb
      /\ tmp # None => j = tmp
  BY <1>1, TmpInode, SnapshotAssumption DEF IInv
<1>3. r \in Call /\ r.pc = "head" /\ r.fd = j /\ r.entries = saver[s].entries
  BY <1>1, <1>2 DEF Call, Pcs
<1> HIDE DEF r, j
<1>4. /\ saver' \in [Savers -> Call]
      /\ saver'[s] = r
      /\ \A t \in Savers : t # s => saver'[t] = saver[t]
  BY <1>1, <1>3, OneSaver DEF IInv
<1>5. Empty \in File
  BY DEF Empty, File
<1>6. TypeOK'
  BY <1>1, <1>2, <1>4, <1>5 DEF IInv, TypeOK
<1>7. Calls'
  BY <1>1, <1>2, <1>3, <1>4 DEF IInv, Calls, Saving, Busy
<1>8. ASSUME Alone
      PROVE  Alone'
  <2>1. \A t \in Savers : t # s => ~Saving(t)' /\ Owns(t)'
    BY <1>1, <1>4, <1>8, OthersIdle DEF IInv, Saving
  <2>2. Owns(s)'
    BY <1>1, <1>3, <1>4, <1>8 DEF Alone, Owns, Saving
  <2>3. j # rdb
    BY <1>2, <1>8 DEF Alone
  <2>4. rdb # None => content'[rdb] = content[rdb]
    BY <1>1, <2>3 DEF IInv, TypeOK
  <2> QED BY <1>1, <1>8, <2>1, <2>2, <2>3, <2>4 DEF Alone, Keeps, Complete
<1>9. ASSUME Heals
      PROVE  Heals'
  <2>1. ASSUME NEW i \in {tmp', rdb'} \ {None}
        PROVE  Complete(content'[i]) \/ \E t \in Savers : WillComplete(t, i)'
    <3>1. CASE i = j
      BY <1>3, <1>4, <3>1 DEF WillComplete
    <3>2. CASE i # j
      <4>1. i \in {tmp, rdb} \ {None} /\ content'[i] = content[i]
        BY <1>1, <2>1, <3>2 DEF IInv, TypeOK
      <4>2. ASSUME NEW t \in Savers, WillComplete(t, i)
            PROVE  WillComplete(t, i)'
        BY <1>1, <1>4, <4>1, <4>2 DEF WillComplete
      <4> QED BY <1>9, <4>1, <4>2 DEF Heals
    <3> QED BY <3>1, <3>2
  <2> QED BY <2>1 DEF Heals, Complete
<1> QED BY <1>1, <1>6, <1>7, <1>8, <1>9 DEF IInv

LEMMA EncodeHeadStep ==
  ASSUME IInv, NEW s \in Savers, EncodeHead(s)
  PROVE  IInv'
<1> DEFINE j == saver[s].fd
           r == [saver[s] EXCEPT !.pc = "body"]
           g == [content[j] EXCEPT !.head = TRUE]
<1>1. /\ saver[s].pc = "head" /\ saver[s] \in Call /\ Saving(s) /\ saver[s].entries > 0
      /\ j \in Inodes /\ content[j] \in File
  BY DEF IInv, TypeOK, Calls, Call, Saving, EncodeHead
<1>2. /\ content' = [content EXCEPT ![j] = g]
      /\ saver' = [saver EXCEPT ![s] = r]
      /\ UNCHANGED <<server, version, running, tmp, rdb, onDisk, saved, past>>
  BY DEF EncodeHead
<1>3. r \in Call /\ r.pc = "body" /\ r.fd = j /\ r.entries = saver[s].entries
  BY <1>1 DEF Call, Pcs
<1>4. g \in File /\ g.head /\ g.body = content[j].body
  BY <1>1 DEF File, Call
<1> HIDE DEF r, g
<1>5. /\ saver' \in [Savers -> Call]
      /\ saver'[s] = r
      /\ \A t \in Savers : t # s => saver'[t] = saver[t]
  BY <1>2, <1>3, OneSaver DEF IInv
<1>6. TypeOK'
  BY <1>1, <1>2, <1>4, <1>5 DEF IInv, TypeOK
<1>7. Calls'
  BY <1>1, <1>2, <1>3, <1>5, SnapshotAssumption DEF IInv, Calls, Saving, Busy
<1>8. content'[j] = g /\ \A i \in Inodes : i # j => content'[i] = content[i]
  BY <1>1, <1>2 DEF IInv, TypeOK
<1>9. ASSUME Alone
      PROVE  Alone'
  <2>1. \A t \in Savers : t # s => ~Saving(t)' /\ Owns(t)'
    BY <1>1, <1>5, <1>9, OthersIdle DEF IInv
  <2>2. j = tmp /\ j # rdb /\ Owns(s)
    BY <1>1, <1>9, SnapshotAssumption DEF Alone, Owns
  <2>3. Owns(s)'
    BY <1>1, <1>2, <1>3, <1>4, <1>5, <1>8, <2>2 DEF Owns, Saving, Holds
  <2>4. rdb # None => content'[rdb] = content[rdb]
    BY <1>8, <2>2 DEF IInv, TypeOK
  <2> QED BY <1>2, <1>9, <2>1, <2>2, <2>3, <2>4 DEF Alone, Keeps, Complete
<1>10. ASSUME Heals
       PROVE  Heals'
  <2>1. ASSUME NEW i \in {tmp, rdb} \ {None}
        PROVE  Complete(content'[i]) \/ \E t \in Savers : WillComplete(t, i)'
    <3>0. i \in Inodes
      BY DEF IInv, TypeOK
    <3>1. CASE Complete(content[i])
      BY <1>1, <1>4, <1>8, <3>0, <3>1 DEF Complete
    <3>2. ASSUME NEW t \in Savers, t # s, WillComplete(t, i)
          PROVE  WillComplete(t, i)'
      BY <1>4, <1>5, <1>8, <3>0, <3>2 DEF WillComplete
    <3>3. CASE WillComplete(s, i)
      BY <1>1, <1>3, <1>4, <1>5, <1>8, <3>3 DEF WillComplete, Complete
    <3> QED BY <1>10, <3>1, <3>2, <3>3 DEF Heals
  <2> QED BY <1>2, <2>1 DEF Heals, Complete
<1> QED BY <1>2, <1>6, <1>7, <1>9, <1>10 DEF IInv

LEMMA EncodeBodyStep ==
  ASSUME IInv, NEW s \in Savers, EncodeBody(s)
  PROVE  IInv'
<1> DEFINE j == saver[s].fd
           r == [saver[s] EXCEPT !.pc = "sync"]
           g == [content[j] EXCEPT !.body = saver[s].entries]
<1>1. /\ saver[s].pc = "body" /\ saver[s] \in Call /\ Saving(s) /\ saver[s].entries > 0
      /\ j \in Inodes /\ content[j] \in File
  BY DEF IInv, TypeOK, Calls, Call, Saving, EncodeBody
<1>2. /\ content' = [content EXCEPT ![j] = g]
      /\ saver' = [saver EXCEPT ![s] = r]
      /\ UNCHANGED <<server, version, running, tmp, rdb, onDisk, saved, past>>
  BY DEF EncodeBody
<1>3. r \in Call /\ r.pc = "sync" /\ r.fd = j /\ r.entries = saver[s].entries
  BY <1>1 DEF Call, Pcs
<1>4. g \in File /\ g.body = saver[s].entries /\ (g.head <=> content[j].head)
  BY <1>1 DEF File, Call
<1> HIDE DEF r, g
<1>5. /\ saver' \in [Savers -> Call]
      /\ saver'[s] = r
      /\ \A t \in Savers : t # s => saver'[t] = saver[t]
  BY <1>2, <1>3, OneSaver DEF IInv
<1>6. TypeOK'
  BY <1>1, <1>2, <1>4, <1>5 DEF IInv, TypeOK
<1>7. Calls'
  BY <1>1, <1>2, <1>3, <1>5, SnapshotAssumption DEF IInv, Calls, Saving, Busy
<1>8. content'[j] = g /\ \A i \in Inodes : i # j => content'[i] = content[i]
  BY <1>1, <1>2 DEF IInv, TypeOK
<1>9. ASSUME Alone
      PROVE  Alone'
  <2>1. \A t \in Savers : t # s => ~Saving(t)' /\ Owns(t)'
    BY <1>1, <1>5, <1>9, OthersIdle DEF IInv
  <2>2. j = tmp /\ j # rdb /\ Owns(s)
    BY <1>1, <1>9, SnapshotAssumption DEF Alone, Owns
  <2>3. Owns(s)'
    BY <1>1, <1>2, <1>3, <1>4, <1>5, <1>8, <2>2 DEF Owns, Saving, Holds
  <2>4. rdb # None => content'[rdb] = content[rdb]
    BY <1>8, <2>2 DEF IInv, TypeOK
  <2> QED BY <1>2, <1>9, <2>1, <2>2, <2>3, <2>4 DEF Alone, Keeps, Complete
<1>10. ASSUME Heals
       PROVE  Heals'
  <2>1. ASSUME NEW i \in {tmp, rdb} \ {None}
        PROVE  Complete(content'[i]) \/ \E t \in Savers : WillComplete(t, i)'
    <3>0. i \in Inodes
      BY DEF IInv, TypeOK
    <3>1. CASE Complete(content[i])
      BY <1>1, <1>4, <1>8, <3>0, <3>1 DEF Complete
    <3>2. ASSUME NEW t \in Savers, t # s, WillComplete(t, i)
          PROVE  WillComplete(t, i)'
      BY <1>4, <1>5, <1>8, <3>0, <3>2 DEF WillComplete
    <3>3. CASE WillComplete(s, i)
      BY <1>1, <1>3, <1>4, <1>5, <1>8, <3>3 DEF WillComplete, Complete
    <3> QED BY <1>10, <3>1, <3>2, <3>3 DEF Heals
  <2> QED BY <1>2, <2>1 DEF Heals, Complete
<1> QED BY <1>2, <1>6, <1>7, <1>9, <1>10 DEF IInv

LEMMA SyncStep ==
  ASSUME IInv, NEW s \in Savers, Sync(s)
  PROVE  IInv'
<1> DEFINE j == saver[s].fd
           r == [saver[s] EXCEPT !.pc = "rename", !.fd = None]
           files == [onDisk EXCEPT ![j] = content[j]]
<1>1. /\ saver[s].pc = "sync" /\ saver[s] \in Call /\ Saving(s) /\ saver[s].entries > 0
      /\ j \in Inodes /\ content[j] \in File
  BY DEF IInv, TypeOK, Calls, Call, Saving, Sync
<1>2. /\ content' = Reclaim(content)
      /\ onDisk' = Reclaim(files)
      /\ saver' = [saver EXCEPT ![s] = r]
      /\ UNCHANGED <<server, version, running, tmp, rdb, saved, past>>
  BY DEF Sync
<1>3. r \in Call /\ r.pc = "rename" /\ r.fd = None /\ r.entries = saver[s].entries
  BY <1>1 DEF Call, Pcs
<1>4. /\ files \in [Inodes -> File] /\ files[j] = content[j]
      /\ \A i \in Inodes : i # j => files[i] = onDisk[i]
  BY <1>1 DEF IInv, TypeOK
<1> HIDE DEF r, files
<1>5. /\ saver' \in [Savers -> Call]
      /\ saver'[s] = r
      /\ \A t \in Savers : t # s => saver'[t] = saver[t]
  BY <1>2, <1>3, OneSaver DEF IInv
<1>6. /\ content' \in [Inodes -> File] /\ onDisk' \in [Inodes -> File]
      /\ \A i \in Inodes : i = tmp \/ i = rdb => content'[i] = content[i] /\ onDisk'[i] = files[i]
  <2>1. content \in [Inodes -> File]
    BY DEF IInv, TypeOK
  <2> QED BY <1>2, <1>4, <2>1, ReclaimKeeps
<1>7. TypeOK'
  BY <1>2, <1>5, <1>6 DEF IInv, TypeOK
<1>8. Calls'
  BY <1>1, <1>2, <1>3, <1>5 DEF IInv, Calls, Saving, Busy
<1>9. ASSUME Alone
      PROVE  Alone'
  <2>1. \A t \in Savers : t # s => ~Saving(t)' /\ Owns(t)'
    BY <1>1, <1>5, <1>9, OthersIdle DEF IInv
  <2>2. j = tmp /\ j # rdb /\ Owns(s) /\ tmp # None
    BY <1>1, <1>9, SnapshotAssumption DEF Alone, Owns
  <2>3. content'[tmp] = content[tmp] /\ onDisk'[tmp] = content[tmp]
    BY <1>1, <1>4, <1>6, <2>2
  <2>4. Owns(s)'
    BY <1>1, <1>2, <1>3, <1>5, <2>2, <2>3 DEF Owns, Saving, Holds
  <2>5. rdb # None => content'[rdb] = content[rdb] /\ onDisk'[rdb] = onDisk[rdb]
    BY <1>4, <1>6, <2>2 DEF IInv, TypeOK
  <2> QED BY <1>2, <1>9, <2>1, <2>2, <2>4, <2>5 DEF Alone, Keeps, Complete
<1>10. ASSUME Heals
       PROVE  Heals'
  <2>1. \A i \in {tmp', rdb'} \ {None} : i \in {tmp, rdb} /\ content'[i] = content[i]
    BY <1>2, <1>6 DEF IInv, TypeOK
  <2> QED BY <1>1, <1>5, <1>10, <2>1, HealsKept
<1> QED BY <1>2, <1>7, <1>8, <1>9, <1>10 DEF IInv

LEMMA RenameStep ==
  ASSUME IInv, NEW s \in Savers, Rename(s)
  PROVE  IInv'
<1>1. /\ saver[s].pc = "rename" /\ saver[s] \in Call /\ Saving(s) /\ saver[s].entries > 0
      /\ tmp # None /\ tmp \in Inodes /\ saver[s].entries \in Nat
  BY DEF IInv, TypeOK, Calls, Call, Saving, Rename
<1>2. /\ rdb' = tmp /\ tmp' = None
      /\ saved' = IF saver[s].entries > saved THEN saver[s].entries ELSE saved
      /\ content' = Reclaim(content) /\ onDisk' = Reclaim(onDisk)
      /\ UNCHANGED <<server, version, running, past>>
  BY DEF Rename
<1>3. /\ saver' \in [Savers -> Call]
      /\ saver'[s].fd = None
      /\ saver'[s].pc \in {"idle", "returned"}
      /\ s = Bg => saver'[s].pc = "returned"
      /\ \A t \in Savers : t # s => saver'[t] = saver[t]
  BY Returns DEF IInv, Rename
<1>4. /\ content' \in [Inodes -> File] /\ onDisk' \in [Inodes -> File]
      /\ content'[tmp] = content[tmp] /\ onDisk'[tmp] = onDisk[tmp]
  <2>1. content \in [Inodes -> File] /\ onDisk \in [Inodes -> File]
    BY DEF IInv, TypeOK
  <2> QED BY <1>1, <1>2, <2>1, ReclaimKeeps
<1>5. TypeOK'
  BY <1>1, <1>2, <1>3, <1>4 DEF IInv, TypeOK
<1>6. Calls'
  BY <1>1, <1>2, ReturnCalls DEF IInv, Rename
<1>7. ASSUME Alone
      PROVE  Alone'
  <2>1. \A t \in Savers : t # s => ~Saving(t)' /\ Owns(t)'
    BY <1>1, <1>3, <1>7, OthersIdle DEF IInv
  <2>2. ~Saving(s)' /\ Owns(s)'
    BY <1>3, IdleOwns DEF Saving
  <2>3. Owns(s) /\ version >= saved
    BY <1>7 DEF Alone
  <2>4. /\ Holds(content[tmp], saver[s].entries) /\ Holds(onDisk[tmp], saver[s].entries)
        /\ saved <= saver[s].entries /\ saver[s].entries <= version
    BY <1>1, <2>3 DEF Owns
  <2>5. saved' = saver[s].entries
    BY <1>1, <1>2, <2>4 DEF IInv, TypeOK
  <2>6. version' >= saved'
    BY <1>2, <2>4, <2>5 DEF IInv, TypeOK
  <2>7. Keeps(content[rdb])' /\ Keeps(onDisk[rdb])'
    BY <1>1, <1>2, <1>4, <2>4, <2>5 DEF Keeps, Complete, Holds
  <2> QED BY <1>1, <1>2, <2>1, <2>2, <2>6, <2>7 DEF Alone
<1>8. ASSUME Heals
      PROVE  Heals'
  <2>1. \A i \in {tmp', rdb'} \ {None} : i \in {tmp, rdb} /\ content'[i] = content[i]
    BY <1>2, <1>4
  <2> QED BY <1>1, <1>3, <1>8, <2>1, HealsKept
<1> QED BY <1>2, <1>5, <1>6, <1>7, <1>8 DEF IInv

\* SaveSnapshot returns without a change of the snapshot file, with the
\* temporary file left or removed.
LEMMA GivesUpStep ==
  ASSUME IInv, NEW s \in Savers, Saving(s), Return(s), tmp' \in {tmp, None},
         past' \in {past, past \union {"failure"}},
         UNCHANGED <<server, version, running, rdb, saved>>,
         \/ UNCHANGED <<content, onDisk>>
         \/ content' = Reclaim(content) /\ onDisk' = Reclaim(onDisk),
         "failure" \in past' \/ saver[s].pc = "rename"
  PROVE  IInv'
<1>1. /\ saver' \in [Savers -> Call]
      /\ saver'[s].fd = None
      /\ saver'[s].pc \in {"idle", "returned"}
      /\ \A t \in Savers : t # s => saver'[t] = saver[t]
  BY Returns DEF IInv
<1>2. /\ content' \in [Inodes -> File] /\ onDisk' \in [Inodes -> File]
      /\ \A i \in Inodes : i = tmp' \/ i = rdb => content'[i] = content[i] /\ onDisk'[i] = onDisk[i]
  <2>1. content \in [Inodes -> File] /\ onDisk \in [Inodes -> File]
    BY DEF IInv, TypeOK
  <2> QED BY <2>1, ReclaimKeeps
<1>3. TypeOK'
  BY <1>1, <1>2 DEF IInv, TypeOK
<1>4. Calls'
  BY ReturnCalls DEF IInv
<1>5. ASSUME Alone
      PROVE  Alone'
  <2>1. \A t \in Savers : t # s => ~Saving(t)' /\ Owns(t)'
    BY <1>1, <1>5, OthersIdle DEF IInv
  <2>2. ~Saving(s)' /\ Owns(s)'
    BY <1>1, IdleOwns DEF Saving
  <2>3. rdb # None => content'[rdb] = content[rdb] /\ onDisk'[rdb] = onDisk[rdb]
    BY <1>2 DEF IInv, TypeOK
  <2> QED BY <1>5, <2>1, <2>2, <2>3 DEF Alone, Keeps, Complete
<1>6. ASSUME Heals, saver[s].pc = "rename"
      PROVE  Heals'
  <2>1. \A i \in {tmp', rdb'} \ {None} : i \in {tmp, rdb} /\ content'[i] = content[i]
    BY <1>2 DEF IInv, TypeOK
  <2> QED BY <1>1, <1>6, <2>1, HealsKept
<1> QED BY <1>3, <1>4, <1>5, <1>6 DEF IInv

LEMMA SaverStep ==
  ASSUME IInv, NEW s \in Savers, SaveStep(s)
  PROVE  IInv'
<1>1. CASE RenameMissing(s)
  BY <1>1, GivesUpStep DEF RenameMissing, Saving, fsVars
<1>2. CASE FileFails(s)
  BY <1>2, GivesUpStep DEF FileFails, Saving, fsVars
<1>3. CASE EncodeFails(s)
  BY <1>3, GivesUpStep DEF EncodeFails, Saving
<1> QED BY <1>1, <1>2, <1>3, CreateTmpStep, EncodeHeadStep, EncodeBodyStep, SyncStep, RenameStep
        DEF SaveStep
-----------------------------------------------------------------------------
(* Crash and start *)

LEMMA CrashStep ==
  ASSUME IInv, Crash
  PROVE  IInv'
<1>1. PICK lost \in SUBSET {tmp, rdb} :
        content' = Reclaim([i \in Inodes |-> IF i \in lost THEN onDisk[i] ELSE content[i]])
  BY DEF Crash
<1> DEFINE files == [i \in Inodes |-> IF i \in lost THEN onDisk[i] ELSE content[i]]
<1>2. /\ saver' = [s \in Savers |-> Idle] /\ running' = FALSE /\ server' = "down"
      /\ past' = past \union {"failure"}
      /\ UNCHANGED <<version, tmp, rdb, saved>>
      /\ onDisk' = Reclaim(onDisk)
  BY DEF Crash
<1>3. files \in [Inodes -> File] /\ onDisk \in [Inodes -> File]
  BY DEF IInv, TypeOK
<1>4. \A i \in Inodes : files[i] \in {content[i], onDisk[i]}
  OBVIOUS
<1> HIDE DEF files
<1>5. content' = Reclaim(files)
  BY <1>1 DEF files
<1>6. /\ content' \in [Inodes -> File] /\ onDisk' \in [Inodes -> File]
      /\ rdb # None => content'[rdb] \in {content[rdb], onDisk[rdb]} /\ onDisk'[rdb] = onDisk[rdb]
  <2>1. rdb # None => rdb \in Inodes
    BY DEF IInv, TypeOK
  <2> QED BY <1>2, <1>3, <1>4, <1>5, <2>1, ReclaimKeeps
<1>7. TypeOK'
  BY <1>2, <1>6, IdleIsCall DEF IInv, TypeOK
<1>8. \A s \in Savers : saver'[s].pc = "idle" /\ saver'[s].fd = None
  BY <1>2 DEF Idle
<1>9. Calls'
  <2>1. Bg \in Savers
    BY DEF Savers
  <2> QED BY <1>2, <1>8, <2>1 DEF Calls, Saving, Busy
<1>10. ASSUME Alone
       PROVE  Alone'
  <2>1. \A s \in Savers : ~Saving(s)' /\ Owns(s)'
    BY <1>8, IdleOwns DEF Saving
  <2> QED BY <1>2, <1>6, <1>10, <2>1 DEF Alone, Keeps, Complete
<1> QED BY <1>2, <1>7, <1>9, <1>10 DEF IInv

LEMMA StartStep ==
  ASSUME IInv, Start
  PROVE  IInv'
<1>1. /\ server # "up"
      /\ UNCHANGED <<saver, running, tmp, rdb, content, onDisk, saved, past>>
  BY DEF Start, fsVars
<1>2. \A s \in Savers : ~Busy(s)
  BY <1>1 DEF IInv, Calls
<1>3. rdb # None => content[rdb] \in File
  BY DEF IInv, TypeOK
<1>4. server' \in {"up", "refused"} /\ version' \in Nat \ {0}
  BY <1>3 DEF IInv, TypeOK, Start, Complete, File
<1>5. TypeOK'
  BY <1>1, <1>4 DEF IInv, TypeOK
<1>6. Calls'
  BY <1>1, <1>2 DEF IInv, Calls, Saving, Busy
<1>7. ASSUME Alone
      PROVE  Alone'
  <2>1. \A s \in Savers : ~Saving(s)' /\ saver'[s].fd = None
    BY <1>1, <1>2 DEF IInv, Calls, Saving, Busy
  <2>2. \A s \in Savers : Owns(s)'
    BY <2>1, IdleOwns
  <2>3. version' >= saved
    BY <1>3, <1>7 DEF IInv, TypeOK, Start, Alone, Keeps
  <2> QED BY <1>1, <1>7, <2>1, <2>2, <2>3 DEF Alone, Keeps, Complete
<1>8. Heals => Heals'
  BY <1>1 DEF Heals, WillComplete, Complete
<1> QED BY <1>1, <1>5, <1>6, <1>7, <1>8 DEF IInv
-----------------------------------------------------------------------------
\* In every reachable state both arguments hold.
THEOREM Invariance == Spec => []IInv
<1>1. Init => IInv
  BY InitIInv
<1>2. IInv /\ [Next]_vars => IInv'
  <2> SUFFICES ASSUME IInv, [Next]_vars PROVE IInv'
    OBVIOUS
  <2>1. CASE UNCHANGED vars
    <3>1. UNCHANGED <<server, version, saver, running, tmp, rdb, content, onDisk, saved, past>>
      BY <2>1 DEF vars
    <3>2. TypeOK'
      BY <3>1 DEF IInv, TypeOK
    <3>3. Calls'
      BY <3>1 DEF IInv, Calls, Saving, Busy
    <3>4. Alone => Alone'
      BY <3>1 DEF Alone, Owns, Saving, Keeps, Complete, Holds
    <3>5. Heals => Heals'
      BY <3>1 DEF Heals, WillComplete, Complete
    <3> QED BY <3>1, <3>2, <3>3, <3>4, <3>5 DEF IInv
  <2> QED BY <2>1, WriteStep, SaveSnapshotStep, StartBGSAVEStep, BgSaveRunsStep, BgSaveDoneStep,
             SaverStep, CrashStep, StartStep DEF Next
<1> QED BY <1>1, <1>2, PTL DEF Spec

\* Without overlapping saves SaveSnapshot is atomic: whatever step fails and
\* whenever the process or the machine stops, LoadSnapshot can read the
\* file, and a version that was saved without an error is not lost.
THEOREM SaveIsAtomic == Spec => []AloneIsAtomic
<1>1. IInv => AloneIsAtomic
  BY DEF IInv, Alone, AloneIsAtomic, RdbLoads, Keeps
<1> QED BY <1>1, Invariance, PTL

\* Any number of overlapping SAVEs and BGSAVEs, without failures, leave a
\* file LoadSnapshot can read once all of them have returned.
THEOREM OverlapsHeal == Spec => []OverlapHeals
<1>1. ASSUME IInv PROVE OverlapHeals
  <2> SUFFICES ASSUME "failure" \notin past, \A s \in Savers : ~Busy(s), rdb # None
               PROVE  Complete(content[rdb])
    BY DEF OverlapHeals
  <2>1. ~ \E s \in Savers : WillComplete(s, rdb)
    BY DEF WillComplete, Busy
  <2> QED BY <1>1, <2>1 DEF IInv, Heals
<1> QED BY <1>1, Invariance, PTL
===============================================================================
