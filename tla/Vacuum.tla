------------------------------- MODULE Vacuum -------------------------------
(***************************************************************************)
(* yezzey_vacuum_garbage: ProcessDeleteExtended with msg.Garbage, which    *)
(* runs HandleDeleteGarbage of pkg/proc/delete_handler.go, in one bucket.  *)
(* Every call to the store, to the database or to the backup storage is a  *)
(* step of its own, interleaved with the sessions of Cluster; the          *)
(* decision in between is taken on what those calls returned.              *)
(***************************************************************************)
EXTENDS Cluster, FiniteSets

CONSTANTS
  CheckBackup,       \* vacuum.check_backup
  ProtectionWindow,  \* vacuum.protection_window, in ticks; may be negative
  HasHint,           \* the extension is at least 1.8.4 (checkVersion)
  Workers,           \* vacuum.trash_move_workers / trash_delete_workers
  MaxRetry,          \* passes over the files that failed (10 in the code)
  Disturb            \* what may happen around a run, see Disturbance

\* rows:     a result set of the database ends early; rows.Err() is not read
\* sentinel: a backup sentinel cannot be read; GetFirstLSN skips it
\* retire:   backup retention runs between listing and reading sentinels
\* drop:     a DROP commits between the queries of the two indexes
Disturbance == {"rows", "sentinel", "retire", "drop"}

ASSUME VacuumAssumption ==
  /\ CheckBackup \in BOOLEAN
  /\ ProtectionWindow \in Int
  /\ HasHint \in BOOLEAN
  /\ Workers \in Nat \ {0}
  /\ MaxRetry \in Nat \ {0}
  /\ Disturb \subseteq Disturbance

VARIABLES
  vpc,        \* the call the handler is about to make
  mode,       \* what msg.Confirm and msg.CrazyDrop ask for
  procStart,  \* procStartTime
  sentinels,  \* the backups GetFirstLSN has listed
  firstLSN,   \* firstBackupLSN
  listed,     \* LastMod of the listed objects
  ei,         \* the rows of the expire hint that were read
  chosen,     \* filesToDelete, as ListGarbageFiles returned it
  fileList,   \* files of the current pass that no worker has taken
  copied,     \* files a worker has copied to trash and not yet deleted
  failed,     \* files of the current pass whose operation failed
  retryCount

vacVars == <<vpc, mode, procStart, sentinels, firstLSN, listed, ei, chosen,
             fileList, copied, failed, retryCount>>
reqVars == <<mode, procStart>>
readVars == <<sentinels, firstLSN, listed, ei>>
vars == <<clusterVars, vacVars>>

\* ^uint64(0), above every LSN.
NoBackupLSN == MaxLsn + 1

Pc == {"idle", "backups", "sentinels", "list", "hint", "index", "uploads",
       "pass", "abort", "ok", "error"}
Mode == {"dry", "trash", "crazy"}
Reading == {"backups", "list", "hint", "index", "uploads", "abort"}

NoFiles == [f \in File |-> NoObj]
NoHints == [f \in File |-> NoLsn]

\* The files the run may still remove from the regular tree.
Doomed == fileList \cup copied \cup failed

TypeOK ==
  /\ ClusterTypeOK
  /\ vpc \in Pc
  /\ mode \in Mode
  /\ procStart \in 0..MaxTime
  /\ sentinels \subseteq 0..MaxLsn
  /\ firstLSN \in 0..NoBackupLSN
  /\ listed \in [File -> Int]
  /\ ei \in [File -> Int]
  /\ chosen \subseteq File
  /\ fileList \subseteq File
  /\ copied \subseteq File
  /\ failed \subseteq File
  /\ retryCount \in 0..MaxRetry

Init ==
  /\ ClusterInit
  /\ vpc = "idle"
  /\ mode = "dry"
  /\ procStart = 0
  /\ sentinels = {}
  /\ firstLSN = NoBackupLSN
  /\ listed = NoFiles
  /\ ei = NoHints
  /\ chosen = {}
  /\ fileList = {}
  /\ copied = {}
  /\ failed = {}
  /\ retryCount = 0

-----------------------------------------------------------------------------
(* ListGarbageFiles.                                                       *)

\* A request arrives; without check_backup no backup is looked at.
DeleteGarbage ==
  /\ vpc = "idle"
  /\ mode' \in Mode
  /\ procStart' = now
  /\ vpc' = IF CheckBackup THEN "backups" ELSE "list"
  /\ UNCHANGED <<clusterVars, readVars, chosen, fileList, copied, failed,
                 retryCount>>

\* GetFirstLSN lists the sentinels ...
ListBackups ==
  /\ vpc = "backups"
  /\ sentinels' = backups
  /\ vpc' = "sentinels"
  /\ UNCHANGED <<clusterVars, reqVars, firstLSN, listed, ei, chosen, fileList,
                 copied, failed, retryCount>>

\* Faulty variant: the newest backup counts instead of the oldest.
GetNewestLSN ==
  /\ vpc = "sentinels"
  /\ LET read == sentinels \cap backups IN
       \/ read = {} /\ firstLSN' = NoBackupLSN
       \/ firstLSN' \in read /\ \A m \in read : m <= firstLSN'
  /\ sentinels' = {}
  /\ vpc' = "list"
  /\ UNCHANGED <<clusterVars, reqVars, listed, ei, chosen, fileList, copied,
                 failed, retryCount>>

\* ... and takes the least LSN of those it can read, skipping the others.
GetFirstLSN ==
  /\ vpc = "sentinels"
  /\ \E read \in SUBSET (sentinels \cap backups) :
       /\ "sentinel" \notin Disturb => read = sentinels \cap backups
       /\ \/ read = {} /\ firstLSN' = NoBackupLSN
          \/ firstLSN' \in read /\ \A m \in read : firstLSN' <= m
  /\ sentinels' = {}
  /\ vpc' = "list"
  /\ UNCHANGED <<clusterVars, reqVars, listed, ei, chosen, fileList, copied,
                 failed, retryCount>>

ListBucketPath ==
  /\ vpc = "list"
  /\ listed' = store["reg"]
  /\ vpc' = "hint"
  /\ UNCHANGED <<clusterVars, reqVars, sentinels, firstLSN, ei, chosen,
                 fileList, copied, failed, retryCount>>

\* GetVirtualExpireIndex, first query; skipped for an old extension.
ReadExpireHint ==
  /\ vpc = "hint"
  /\ \E cut \in SUBSET File :
       /\ "rows" \notin Disturb => cut = {}
       /\ ei' = IF HasHint
                THEN [f \in File |-> IF f \in cut THEN NoLsn ELSE hint[f]]
                ELSE NoHints
  /\ vpc' = "index"
  /\ UNCHANGED <<clusterVars, reqVars, sentinels, firstLSN, listed, chosen,
                 fileList, copied, failed, retryCount>>

\* Faulty variant: no file is too young.
NoWindow == 0

\* The window the code compares with: a negative setting counts as zero.
Window == IF ProtectionWindow < 0 THEN 0 ELSE ProtectionWindow

\* Faulty variant: only files of the expire hint are garbage.
ExpiredFilesOnly(rows) ==
  {f \in File :
     /\ listed[f] # NoObj
     /\ f \notin rows
     /\ ~ (listed[f] > procStart - Window)
     /\ ei[f] # NoLsn /\ ei[f] < firstLSN}

\* The loop over the listing: what is garbage, given the rows of the virtual
\* index that were read.
FilesToDelete(rows) ==
  {f \in File :
     /\ listed[f] # NoObj
     /\ f \notin rows
     /\ ~ (listed[f] > procStart - Window)
     /\ ei[f] = NoLsn \/ ei[f] < firstLSN}

\* GetVirtualExpireIndex, second query, and the decision.
ReadVirtualIndex ==
  /\ vpc = "index"
  /\ \E rows \in SUBSET vi :
       /\ "rows" \notin Disturb => rows = vi
       /\ chosen' = FilesToDelete(rows)
  /\ ei' = NoHints /\ firstLSN' = NoBackupLSN
  /\ vpc' = "uploads"
  /\ UNCHANGED <<clusterVars, reqVars, sentinels, listed, fileList, copied,
                 failed, retryCount>>

-----------------------------------------------------------------------------
(* DeleteGarbageInBucket.                                                  *)

\* ListFailedMultipartUploads has answered; without msg.Confirm it ends here.
StartRemoval ==
  /\ vpc = "uploads"
  /\ vpc' = IF mode = "dry" THEN "ok" ELSE "pass"
  /\ fileList' = IF mode = "dry" THEN {} ELSE chosen
  /\ retryCount' = 0
  /\ UNCHANGED <<clusterVars, reqVars, readVars, chosen, copied, failed>>

\* A call to the store, the database or the backups returns an error.
CallFails ==
  /\ vpc \in Reading
  /\ vpc' = "error"
  /\ UNCHANGED <<clusterVars, reqVars, readVars, chosen, fileList, copied,
                 failed, retryCount>>

\* Worker takes a file; the operation on it ends in the same step.
Finish(f, ok) ==
  /\ fileList' = fileList \ {f}
  /\ failed' = IF ok THEN failed ELSE failed \cup {f}
  /\ UNCHANGED copied

\* operate with msg.CrazyDrop.  A reply may be lost after the delete.
CrazyDelete(f) ==
  /\ vpc = "pass" /\ mode = "crazy" /\ f \in fileList
  /\ \/ DeleteObject("reg", f) /\ \E ok \in BOOLEAN : Finish(f, ok)
     \/ UNCHANGED store /\ Finish(f, FALSE)
  /\ UNCHANGED <<now, wal, vi, hint, backups, phase, began, vpc, reqVars,
                 readVars, chosen, retryCount>>

\* operate without msg.CrazyDrop, file system: one rename.
MoveByRename(f) ==
  /\ vpc = "pass" /\ mode = "trash" /\ f \in fileList
  /\ \/ Rename("reg", "trash", f) /\ Finish(f, TRUE)
     \/ UNCHANGED store /\ Finish(f, FALSE)
  /\ UNCHANGED <<now, wal, vi, hint, backups, phase, began, vpc, reqVars,
                 readVars, chosen, retryCount>>

\* Faulty variant: the error of the copy is not looked at.
MoveCopyUnchecked(f) ==
  /\ vpc = "pass" /\ mode = "trash" /\ f \in fileList
  /\ Cardinality(copied) < Workers
  /\ SScopyObject("reg", "trash", f) \/ UNCHANGED store
  /\ fileList' = fileList \ {f} /\ copied' = copied \cup {f}
  /\ UNCHANGED <<now, wal, vi, hint, backups, phase, began, vpc, reqVars,
                 readVars, chosen, failed, retryCount>>

\* operate without msg.CrazyDrop, S3: MoveObject copies first.
MoveCopy(f) ==
  /\ vpc = "pass" /\ mode = "trash" /\ f \in fileList
  /\ Cardinality(copied) < Workers
  /\ \/ /\ SScopyObject("reg", "trash", f)
        /\ fileList' = fileList \ {f}
        /\ \/ copied' = copied \cup {f} /\ UNCHANGED failed
           \/ failed' = failed \cup {f} /\ UNCHANGED copied
     \/ UNCHANGED store /\ Finish(f, FALSE)
  /\ UNCHANGED <<now, wal, vi, hint, backups, phase, began, vpc, reqVars,
                 readVars, chosen, retryCount>>

\* MoveObject begins as the back end does it.
MoveObject(f) ==
  IF Backend = "fs" THEN MoveByRename(f) ELSE MoveCopy(f)

\* On S3 it then deletes the original.
MoveDelete(f) ==
  /\ vpc = "pass" /\ f \in copied
  /\ copied' = copied \ {f}
  /\ \/ DeleteObject("reg", f) /\ failed' \in {failed, failed \cup {f}}
     \/ UNCHANGED store /\ failed' = failed \cup {f}
  /\ UNCHANGED <<now, wal, vi, hint, backups, phase, began, vpc, reqVars,
                 readVars, chosen, fileList, retryCount>>

\* Faulty variant: one pass too many.
RetryOnceMore == retryCount < MaxRetry

Retry == retryCount + 1 < MaxRetry

\* Faulty variants: the failed files are forgotten; the passes not counted.
EndPassForgets ==
  /\ vpc = "pass" /\ fileList = {} /\ copied = {}
  /\ vpc' = "abort" /\ failed' = {} /\ retryCount' = retryCount + 1
  /\ UNCHANGED <<clusterVars, reqVars, readVars, chosen, fileList, copied>>
EndPassUncounted ==
  /\ vpc = "pass" /\ fileList = {} /\ copied = {}
  /\ vpc' = IF failed = {} THEN "abort" ELSE "pass"
  /\ fileList' = failed /\ failed' = {}
  /\ UNCHANGED <<clusterVars, reqVars, readVars, chosen, copied, retryCount>>

\* garbageFilesParallel returns the files that failed; another pass follows
\* while there are any, up to MaxRetry passes.
EndPass ==
  /\ vpc = "pass" /\ fileList = {} /\ copied = {}
  /\ \/ failed = {} /\ vpc' = "abort" /\ fileList' = {}
     \/ failed # {} /\ Retry /\ vpc' = "pass" /\ fileList' = failed
     \/ failed # {} /\ ~ Retry /\ vpc' = "error" /\ fileList' = {}
  /\ failed' = {}
  /\ retryCount' = retryCount + 1
  /\ UNCHANGED <<clusterVars, reqVars, readVars, chosen, copied>>

\* AbortMultipartUpload for the uploads that were listed.
AbortUploads ==
  /\ vpc = "abort"
  /\ vpc' = "ok"
  /\ UNCHANGED <<clusterVars, reqVars, readVars, chosen, fileList, copied,
                 failed, retryCount>>

\* The local variables of the handler are gone.
Forget ==
  /\ mode' = "dry" /\ procStart' = 0
  /\ sentinels' = {} /\ firstLSN' = NoBackupLSN
  /\ listed' = NoFiles /\ ei' = NoHints
  /\ chosen' = {} /\ retryCount' = 0

\* ReadyForQuery or an error goes to the client and the request is over.
Reply ==
  /\ vpc \in {"ok", "error"}
  /\ vpc' = "idle"
  /\ Forget
  /\ UNCHANGED <<clusterVars, fileList, copied, failed>>

\* The yproxy process dies; what the handler knew is gone, its effects stay.
Crash ==
  /\ vpc # "idle"
  /\ vpc' = "idle"
  /\ Forget
  /\ fileList' = {} /\ copied' = {} /\ failed' = {}
  /\ UNCHANGED clusterVars

-----------------------------------------------------------------------------

Work(f) ==
  \/ CrazyDelete(f)
  \/ MoveObject(f)
  \/ MoveDelete(f)

Handler ==
  \/ ListBackups
  \/ GetFirstLSN
  \/ ListBucketPath
  \/ ReadExpireHint
  \/ ReadVirtualIndex
  \/ StartRemoval
  \/ CallFails
  \/ \E f \in File : Work(f)
  \/ EndPass
  \/ AbortUploads
  \/ Reply

Sessions ==
  \/ Tick
  \/ \E f \in File :
       \/ BeginPut(f)
       \/ PutFileToDest(f)
       \/ CommitRow(f)
       \/ AbortRow(f)
       \/ DropRow(f) /\ ("drop" \in Disturb \/ vpc # "index")
  \/ TakeBackup
  \/ RetireBackup /\ ("retire" \in Disturb \/ vpc # "sentinels")

Next ==
  \/ DeleteGarbage
  \/ Handler
  \/ Crash
  \/ Sessions /\ UNCHANGED vacVars

Spec == Init /\ [][Next]_vars

\* The handler goroutine is scheduled as long as it has something to do.
FairSpec == Spec /\ WF_vars(Handler)

-----------------------------------------------------------------------------

Stored(f) == \E a \in Area : Exists(a, f)

(* A file of the virtual index is in the regular tree, whatever the        *)
(* interleaving of writers with a vacuum: the protection window of         *)
(* ListGarbageFiles covers every writer that had not committed when the    *)
(* virtual index was read.                                                 *)
LiveFilesKept == \A f \in vi : Exists("reg", f)

(* A file that a restore from an existing backup may need is in the        *)
(* regular tree: ListGarbageFiles spares expired files whose LSN is not    *)
(* below that of the oldest backup.                                        *)
PitrFilesKept ==
  CheckBackup /\ HasHint =>
    \A f \in File : NeededForPitr(f) => Exists("reg", f)

(* A step makes the last copy of a file disappear only in a run with       *)
(* crazy drop: MoveObject copies before it deletes, whatever fails or      *)
(* crashes in between and however often the file is retried.               *)
NothingLost == [][\A f \in File : Stored(f) => Stored(f)' \/ mode = "crazy"]_vars

(* When a confirmed vacuum reports success, no file it chose is left in    *)
(* the regular tree: failed operations are carried from pass to pass.      *)
HonestReply ==
  vpc = "ok" /\ mode # "dry" => \A f \in chosen : ~ Exists("reg", f)

(* When a confirmed vacuum reports success, every listed object that was   *)
(* older than the window and whose writer had aborted is gone.             *)
GarbageCollected ==
  vpc = "ok" /\ mode # "dry" =>
    \A f \in File :
      /\ listed[f] # NoObj
      /\ listed[f] <= procStart - Window
      /\ phase[f] = "done" /\ f \notin vi /\ hint[f] = NoLsn
      => ~ Exists("reg", f)

(* Every request is answered (or dies with the process): the retry loop of *)
(* DeleteGarbageInBucket ends although every operation may keep failing.   *)
EveryRequestEnds == vpc # "idle" ~> vpc = "idle"

=============================================================================
