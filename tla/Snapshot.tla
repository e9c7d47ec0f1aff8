------------------------------- MODULE Snapshot -------------------------------
(***************************************************************************)
(* The snapshot file and its writers: SAVE runs saveSnapshot in the        *)
(* connection's goroutine, BGSAVE in one background goroutine at a time    *)
(* (pkg/server/server.go), and both call persistence.SaveSnapshot          *)
(* (pkg/persistence/snapshot.go), which writes ONE temporary path and      *)
(* renames it.                                                             *)
(*                                                                         *)
(* The file system is modelled at the level SaveSnapshot uses it: two      *)
(* directory entries that name inodes, and open files that keep writing    *)
(* to their inode whatever its name has become.  The state of the store is *)
(* a version number that SETs increase.                                    *)
(***************************************************************************)
EXTENDS Naturals, FiniteSets

CONSTANTS
  Clients,
  Inodes,
  Setups,       \* [commands: which of "SAVE" and "BGSAVE" the clients send,
                \* errors: whether file operations may fail, crashes: whether
                \* the process may die and the machine lose power,
                \* versions: bound on the number of SETs]
  Bg,           \* the goroutine of startBGSAVE
  None

Savers == Clients \union {Bg}

ASSUME SnapshotAssumption ==
  /\ Bg \notin Clients
  /\ None \notin Inodes
  \* one inode per open file and one for the snapshot
  /\ IsFiniteSet(Savers) /\ IsFiniteSet(Inodes) /\ Cardinality(Inodes) > Cardinality(Savers)

VARIABLES
  setup,     \* one of Setups
  server,    \* "up", "down", or "refused": Start returned an error
  version,   \* of the store
  saver,     \* the call of saveSnapshot each saver is in
  running,   \* bgSave.running
  tmp, rdb,  \* the inodes the two paths name
  content,   \* what each inode holds
  onDisk,    \* what of it a sync has put on disk
  saved,     \* newest version whose SaveSnapshot returned no error
  past       \* history: whether two saves have overlapped, and anything failed

vars == <<setup, server, version, saver, running, tmp, rdb, content, onDisk, saved, past>>
fsVars == <<tmp, rdb, content, onDisk>>

(* gob.Encode writes the type descriptors, the same in every snapshot, and *)
(* then the entries, at the offset after them.                             *)
Empty == [head |-> FALSE, body |-> 0]
Complete(file) == file.head /\ file.body > 0
Idle == [pc |-> "idle", entries |-> 0, fd |-> None]
Busy(s) == saver[s].pc # "idle"
Saving(s) == saver[s].pc \in {"create", "head", "body", "sync", "rename"}
-----------------------------------------------------------------------------
Init ==
  /\ setup \in Setups
  /\ server = "up"
  /\ version = 1
  /\ saver = [s \in Savers |-> Idle]
  /\ running = FALSE
  /\ tmp = None
  /\ rdb = None
  /\ content = [i \in Inodes |-> Empty]
  /\ onDisk = [i \in Inodes |-> Empty]
  /\ saved = 0
  /\ past = {}

\* A SET.
Write ==
  /\ server = "up"
  /\ version < setup.versions
  /\ version' = version + 1
  /\ UNCHANGED <<setup, server, saver, running, fsVars, saved, past>>

\* saveSnapshot takes the entries under the store's lock.
takeEntries(s) ==
  /\ saver' = [saver EXCEPT ![s] = [pc |-> "create", entries |-> version, fd |-> None]]
  /\ past' = IF \E t \in Savers : Saving(t) THEN past \union {"overlap"} ELSE past

\* SAVE.
saveSnapshot(c) ==
  /\ server = "up"
  /\ "SAVE" \in setup.commands
  /\ ~Busy(c)
  /\ takeEntries(c)
  /\ UNCHANGED <<setup, server, version, running, fsVars, saved>>

\* BGSAVE; while one is running the client is refused and nothing changes.
startBGSAVE ==
  /\ server = "up"
  /\ "BGSAVE" \in setup.commands
  /\ ~running
  /\ running' = TRUE
  /\ saver' = [saver EXCEPT ![Bg].pc = "spawned"]
  /\ UNCHANGED <<setup, server, version, fsVars, saved, past>>

bgSaveRuns ==
  /\ saver[Bg].pc = "spawned"
  /\ takeEntries(Bg)
  /\ UNCHANGED <<setup, server, version, running, fsVars, saved>>

\* SaveSnapshot returns; the background goroutine still has to run its
\* deferred reset of bgSave.running.
Return(s) == saver' = [saver EXCEPT ![s] = IF s = Bg THEN [Idle EXCEPT !.pc = "returned"] ELSE Idle]

\* Mutant: bgSave.running is not reset.
bgSaveDoneNoReset ==
  /\ saver[Bg].pc = "returned"
  /\ saver' = [saver EXCEPT ![Bg] = Idle]
  /\ UNCHANGED <<setup, server, version, running, fsVars, saved, past>>

bgSaveDone ==
  /\ saver[Bg].pc = "returned"
  /\ running' = FALSE
  /\ saver' = [saver EXCEPT ![Bg] = Idle]
  /\ UNCHANGED <<setup, server, version, fsVars, saved, past>>

Unused == {i \in Inodes \ {tmp, rdb} : \A s \in Savers : saver[s].fd # i}

\* The file system frees an inode that has neither a name nor an open file.
Reclaim(files) ==
  [i \in Inodes |-> IF i \in {tmp', rdb'} \/ \E s \in Savers : saver'[s].fd = i
                    THEN files[i] ELSE Empty]

tmpInode == IF tmp # None THEN tmp ELSE CHOOSE i \in Unused : TRUE

\* os.Create(tmp): an existing file is truncated, also under another saver.
CreateTmp(s) ==
  /\ saver[s].pc = "create"
  /\ tmp' = tmpInode
  /\ content' = [content EXCEPT ![tmpInode] = Empty]
  /\ saver' = [saver EXCEPT ![s].pc = "head", ![s].fd = tmpInode]
  /\ UNCHANGED <<setup, server, version, running, rdb, onDisk, saved, past>>

EncodeHead(s) ==
  /\ saver[s].pc = "head"
  /\ content' = [content EXCEPT ![saver[s].fd].head = TRUE]
  /\ saver' = [saver EXCEPT ![s].pc = "body"]
  /\ UNCHANGED <<setup, server, version, running, tmp, rdb, onDisk, saved, past>>

\* Mutant: a saver that finds its temporary file renamed gives up.
EncodeBodyGivesUp(s) ==
  /\ saver[s].pc = "body"
  /\ IF tmp = saver[s].fd
     THEN /\ content' = [content EXCEPT ![saver[s].fd].body = saver[s].entries]
          /\ saver' = [saver EXCEPT ![s].pc = "sync"]
     ELSE Return(s) /\ UNCHANGED content
  /\ UNCHANGED <<setup, server, version, running, tmp, rdb, onDisk, saved, past>>

EncodeBody(s) ==
  /\ saver[s].pc = "body"
  /\ content' = [content EXCEPT ![saver[s].fd].body = saver[s].entries]
  /\ saver' = [saver EXCEPT ![s].pc = "sync"]
  /\ UNCHANGED <<setup, server, version, running, tmp, rdb, onDisk, saved, past>>

\* Mutant: the file is renamed without a sync.
SyncSkipped(s) ==
  /\ saver[s].pc = "sync"
  /\ saver' = [saver EXCEPT ![s].pc = "rename", ![s].fd = None]
  /\ UNCHANGED <<setup, server, version, running, tmp, rdb, saved, past>>
  /\ content' = Reclaim(content)
  /\ onDisk' = Reclaim(onDisk)

\* f.Sync and f.Close.
Sync(s) ==
  /\ saver[s].pc = "sync"
  /\ saver' = [saver EXCEPT ![s].pc = "rename", ![s].fd = None]
  /\ UNCHANGED <<setup, server, version, running, tmp, rdb, saved, past>>
  /\ content' = Reclaim(content)
  /\ onDisk' = Reclaim([onDisk EXCEPT ![saver[s].fd] = content[saver[s].fd]])

\* os.Rename moves whatever the temporary path names by now.
Rename(s) ==
  /\ saver[s].pc = "rename"
  /\ tmp # None
  /\ rdb' = tmp
  /\ tmp' = None
  /\ saved' = IF saver[s].entries > saved THEN saver[s].entries ELSE saved
  /\ Return(s)
  /\ content' = Reclaim(content)
  /\ onDisk' = Reclaim(onDisk)
  /\ UNCHANGED <<setup, server, version, running, past>>

\* Another saver has renamed or removed the temporary file.
RenameMissing(s) ==
  /\ saver[s].pc = "rename"
  /\ tmp = None
  /\ Return(s)
  /\ UNCHANGED <<setup, server, version, running, fsVars, saved, past>>

\* Create or Rename fails, or Close does: the temporary file stays.
FileFails(s) ==
  /\ setup.errors
  /\ saver[s].pc \in {"create", "rename"}
  /\ Return(s)
  /\ past' = past \union {"failure"}
  /\ UNCHANGED <<setup, server, version, running, fsVars, saved>>

\* Encode or Sync fails: the temporary path is removed.
EncodeFails(s) ==
  /\ setup.errors
  /\ saver[s].pc \in {"head", "body", "sync"}
  /\ tmp' = None
  /\ Return(s)
  /\ past' = past \union {"failure"}
  /\ UNCHANGED <<setup, server, version, running, rdb, saved>>
  /\ content' = Reclaim(content)
  /\ onDisk' = Reclaim(onDisk)

SaveStep(s) ==
  \/ CreateTmp(s)
  \/ EncodeHead(s)
  \/ EncodeBody(s)
  \/ Sync(s)
  \/ Rename(s)
  \/ RenameMissing(s)
  \/ FileFails(s)
  \/ EncodeFails(s)

\* The process dies, or with it the machine: writes that were not synced may
\* be lost.
Crash ==
  /\ setup.crashes
  /\ server = "up"
  /\ server' = "down"
  /\ saver' = [s \in Savers |-> Idle]
  /\ running' = FALSE
  /\ past' = past \union {"failure"}
  /\ UNCHANGED <<setup, version, tmp, rdb, saved>>
  /\ \E lost \in SUBSET {tmp, rdb} :
       content' = Reclaim([i \in Inodes |-> IF i \in lost THEN onDisk[i] ELSE content[i]])
  /\ onDisk' = Reclaim(onDisk)

\* restoreData: LoadSnapshot if the file exists.
Start ==
  /\ server # "up"
  /\ IF rdb = None THEN server' = "up" /\ version' = 1
     ELSE IF Complete(content[rdb])
          THEN server' = "up" /\ version' = content[rdb].body
          ELSE server' = "refused" /\ version' = version
  /\ UNCHANGED <<setup, saver, running, fsVars, saved, past>>

Next ==
  \/ Write
  \/ \E c \in Clients : saveSnapshot(c)
  \/ startBGSAVE
  \/ bgSaveRuns
  \/ bgSaveDone
  \/ \E s \in Savers : SaveStep(s)
  \/ Crash
  \/ Start

Spec == Init /\ [][Next]_vars

\* A goroutine that can run is scheduled: none of these steps waits.
Fairness == /\ \A s \in Savers : WF_vars(SaveStep(s))
            /\ WF_vars(bgSaveRuns)
            /\ WF_vars(bgSaveDone)

FairSpec == Spec /\ Fairness
-----------------------------------------------------------------------------
\* LoadSnapshot can read the file, whenever the process or the machine stops.
RdbLoads ==
  rdb # None => Complete(content[rdb]) /\ Complete(onDisk[rdb])

\* As long as no two saves have overlapped: whatever step failed or was cut
\* off by a crash, the snapshot file can be read, and one that was saved
\* without an error is neither lost nor replaced by an older one.
AloneIsAtomic ==
  "overlap" \notin past =>
    RdbLoads /\ (saved > 0 => rdb # None /\ content[rdb].body >= saved)

\* Saves that overlap may leave the snapshot file broken while they run but,
\* without failures, not once they have all returned: whoever truncated the
\* file last writes it whole, even if its own rename then fails.
OverlapHeals ==
  "failure" \notin past /\ (\A s \in Savers : ~Busy(s)) /\ rdb # None =>
    Complete(content[rdb])

\* BGSAVE is not refused for ever: a background save ends whatever fails.
BgSaveEnds == running ~> ~running
=============================================================================
