------------------------------ MODULE Cluster ------------------------------
(***************************************************************************)
(* The world the maintenance procedures of yproxy work on: the object      *)
(* store, the two indexes the yezzey extension keeps in the database, the  *)
(* wal-g backups, and the database sessions that change them while a       *)
(* procedure runs.  The store operations are those of pkg/storage; the     *)
(* database, the extension and wal-g are external.                         *)
(***************************************************************************)
EXTENDS Integers

CONSTANTS
  File,         \* the chunks the extension offloads; each is written once
  Backend,      \* storage_type: "s3" or "fs"
  Gran,         \* granularity of LastMod, in ticks (S3 reports seconds)
  WriteTime,    \* longest time from the start of an upload to its commit
  InitBackups,  \* LSNs of the backups that exist when the model starts
  MaxTime,      \* bound on the clock
  MaxLsn        \* bound on the WAL position

ASSUME ClusterAssumption ==
  /\ Backend \in {"s3", "fs"}
  /\ Gran \in Nat \ {0}
  /\ WriteTime \in Nat
  /\ MaxTime \in Nat
  /\ MaxLsn \in Nat \ {0}
  /\ InitBackups \subseteq {0}

VARIABLES
  now,      \* the clock
  wal,      \* the current WAL position
  store,    \* LastMod of every object of the store, by area and file
  vi,       \* yezzey_virtual_index: the files live tables consist of
  hint,     \* yezzey_expire_hint: the LSN at which a file went out of use
  backups,  \* start LSNs of the backups that have a sentinel
  phase,    \* how far the session writing a file has got
  began     \* when that session started the upload

clusterVars == <<now, wal, store, vi, hint, backups, phase, began>>

NoObj == -1
NoLsn == -1

\* The regular tree of a segment and its mirror under trash/.
Area == {"reg", "trash"}
Phase == {"new", "uploading", "uploaded", "done"}

Exists(a, f) == store[a][f] # NoObj

\* A file that some restore may need although no table uses it any more: it
\* went out of use at or after the start of a backup that still exists.
NeededForPitr(f) == hint[f] # NoLsn /\ \E b \in backups : b <= hint[f]

ClusterTypeOK ==
  /\ now \in 0..MaxTime
  /\ wal \in 0..MaxLsn
  /\ store \in [Area -> [File -> Int]]
  /\ vi \subseteq File
  /\ hint \in [File -> Int]
  /\ backups \subseteq 0..MaxLsn
  /\ phase \in [File -> Phase]
  /\ began \in [File -> 0..MaxTime]

ClusterInit ==
  /\ now = 0
  /\ wal = 1
  /\ store = [a \in Area |-> [f \in File |-> NoObj]]
  /\ vi = {}
  /\ hint = [f \in File |-> NoLsn]
  /\ backups = InitBackups
  /\ phase = [f \in File |-> "new"]
  /\ began = [f \in File |-> 0]

-----------------------------------------------------------------------------
(* Operations of the object store (pkg/storage).                           *)

\* What LastMod shows of an instant.
Stamp(t) == t - (t % Gran)

\* S3: server-side copy, first half of MoveObject.  The copy is a new object
\* with a LastMod of its own.
SScopyObject(a, b, f) ==
  /\ Exists(a, f)
  /\ store' = [store EXCEPT ![b][f] = Stamp(now)]

\* S3 deletes are idempotent; os.Remove fails when there is no such file.
DeleteObject(a, f) ==
  /\ Backend = "fs" => Exists(a, f)
  /\ store' = [store EXCEPT ![a][f] = NoObj]

\* Faulty variant: the file is removed although it could not be put in place.
RenameLosing(a, b, f) ==
  /\ Exists(a, f)
  /\ store' = [store EXCEPT ![a][f] = NoObj]

\* File system: MoveObject is one rename, which keeps the modification time.
Rename(a, b, f) ==
  /\ Exists(a, f)
  /\ store' = [store EXCEPT ![b][f] = store[a][f], ![a][f] = NoObj]

-----------------------------------------------------------------------------
(* Database sessions, wal-g and the clock.                                 *)

Tick ==
  /\ now < MaxTime
  /\ now' = now + 1
  /\ UNCHANGED <<wal, store, vi, hint, backups, phase, began>>

\* PutFileToDest starts.  os.Create makes the file visible at once; S3 shows
\* nothing before the upload is complete.
BeginPut(f) ==
  /\ phase[f] = "new"
  /\ phase' = [phase EXCEPT ![f] = "uploading"]
  /\ began' = [began EXCEPT ![f] = now]
  /\ store' = IF Backend = "fs"
              THEN [store EXCEPT !["reg"][f] = Stamp(now)] ELSE store
  /\ UNCHANGED <<now, wal, vi, hint, backups>>

\* PutFileToDest ends.  A multipart object carries the time of its
\* initiation, a plain one that of its completion, a file that of its last
\* write; writing to a file that was moved does not bring it back.
PutFileToDest(f) ==
  /\ phase[f] = "uploading"
  /\ \E t \in began[f]..now :
       store' = IF Backend = "fs" /\ ~ Exists("reg", f) THEN store
                ELSE [store EXCEPT !["reg"][f] = Stamp(t)]
  /\ phase' = [phase EXCEPT ![f] = "uploaded"]
  /\ UNCHANGED <<now, wal, vi, hint, backups, began>>

\* The writing transaction commits: the file enters the virtual index.
CommitRow(f) ==
  /\ phase[f] = "uploaded"
  /\ now <= began[f] + WriteTime
  /\ vi' = vi \cup {f}
  /\ phase' = [phase EXCEPT ![f] = "done"]
  /\ began' = [began EXCEPT ![f] = 0]
  /\ UNCHANGED <<now, wal, store, hint, backups>>

\* The upload fails or the writing transaction aborts: what has been stored
\* stays behind as garbage.
AbortRow(f) ==
  /\ phase[f] \in {"uploading", "uploaded"}
  /\ phase' = [phase EXCEPT ![f] = "done"]
  /\ began' = [began EXCEPT ![f] = 0]
  /\ UNCHANGED <<now, wal, store, vi, hint, backups>>

\* DROP, TRUNCATE or VACUUM commits: the file leaves the virtual index and
\* the same transaction records the LSN at which it did.
DropRow(f) ==
  /\ f \in vi
  /\ wal < MaxLsn
  /\ vi' = vi \ {f}
  /\ hint' = [hint EXCEPT ![f] = wal]
  /\ wal' = wal + 1
  /\ UNCHANGED <<now, store, backups, phase, began>>

TakeBackup ==
  /\ wal < MaxLsn
  /\ backups' = backups \cup {wal}
  /\ wal' = wal + 1
  /\ UNCHANGED <<now, store, vi, hint, phase, began>>

\* Backup retention drops a backup, never the newest one.
RetireBackup ==
  /\ \E b, c \in backups : b < c /\ backups' = backups \ {b}
  /\ UNCHANGED <<now, wal, store, vi, hint, phase, began>>

=============================================================================
