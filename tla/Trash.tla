------------------------------- MODULE Trash -------------------------------
(***************************************************************************)
(* The two procedures of pkg/proc/delete_handler.go that work on trash/:   *)
(* HandleUntrashifyFile, which moves objects back to the regular tree, and *)
(* HandleDelete2Prefix, which deletes what has been in trash for longer    *)
(* than vacuum.trash_retention_days.  One bucket, one call per step.       *)
(***************************************************************************)
EXTENDS Cluster

CONSTANTS
  Retention,    \* vacuum.trash_retention_days, in ticks
  TrashMaxRetry \* passes over the files that failed (10 in the code)

\* Days are a whole number of seconds.
ASSUME TrashAssumption ==
  /\ Retention \in Nat /\ Retention % Gran = 0
  /\ TrashMaxRetry \in Nat \ {0}

VARIABLES
  upc,      \* where HandleUntrashifyFile is
  ugoal,    \* the objects it has listed
  ulist,    \* those it has not begun to move
  ucopied,  \* the one it has copied and not yet deleted
  tpc,      \* where DeletePrefixInBucket is
  tarea,    \* what msg.Prefix names
  tlisted,  \* LastMod of the objects it has listed
  tlist,    \* files of the current pass that no worker has taken
  tfailed,  \* files of the current pass whose delete failed
  tretry    \* retryCount

uVars == <<upc, ugoal, ulist, ucopied>>
tVars == <<tpc, tarea, tlisted, tlist, tfailed, tretry>>
trashVars == <<uVars, tVars>>

NotListed == [f \in File |-> NoObj]

TrashTypeOK ==
  /\ upc \in {"idle", "move", "ok", "error"}
  /\ ugoal \subseteq File
  /\ ulist \subseteq ugoal
  /\ ucopied \subseteq ugoal
  /\ tpc \in {"idle", "uploads", "pass", "abort", "ok", "error"}
  /\ tarea \in Area
  /\ tlisted \in [File -> Int]
  /\ tlist \subseteq File
  /\ tfailed \subseteq File
  /\ tretry \in 0..TrashMaxRetry

TrashInit ==
  /\ upc = "idle" /\ ugoal = {} /\ ulist = {} /\ ucopied = {}
  /\ tpc = "idle" /\ tarea = "trash" /\ tlisted = NotListed
  /\ tlist = {} /\ tfailed = {} /\ tretry = 0

-----------------------------------------------------------------------------
(* HandleUntrashifyFile.                                                   *)

\* ListPath of the trash.  Without msg.Confirm that is all.
HandleUntrashifyFile ==
  /\ upc = "idle"
  /\ \/ /\ ugoal' = {f \in File : Exists("trash", f)}
        /\ ulist' = ugoal'
        /\ upc' = "move"
     \/ UNCHANGED <<ugoal, ulist>> /\ upc' \in {"ok", "error"}
  /\ UNCHANGED <<clusterVars, ucopied, tVars>>

\* An error of MoveObject ends the request.
UntrashifyFails ==
  /\ upc' = "error" /\ ulist' = {} /\ ucopied' = {}
  /\ UNCHANGED ugoal

\* File system: MoveObject is one rename.
RestoreByRename(f) ==
  /\ upc = "move" /\ Backend = "fs" /\ f \in ulist
  /\ \/ /\ Rename("trash", "reg", f)
        /\ ulist' = ulist \ {f}
        /\ UNCHANGED <<upc, ugoal, ucopied>>
     \/ UNCHANGED store /\ UntrashifyFails
  /\ UNCHANGED <<now, wal, vi, hint, backups, phase, began, tVars>>

\* Faulty variant: the error of the copy is not looked at.
RestoreCopyUnchecked(f) ==
  /\ upc = "move" /\ Backend = "s3" /\ f \in ulist /\ ucopied = {}
  /\ SScopyObject("trash", "reg", f) \/ UNCHANGED store
  /\ ulist' = ulist \ {f} /\ ucopied' = {f}
  /\ UNCHANGED <<now, wal, vi, hint, backups, phase, began, upc, ugoal, tVars>>

\* S3: MoveObject copies ...
RestoreCopy(f) ==
  /\ upc = "move" /\ Backend = "s3" /\ f \in ulist /\ ucopied = {}
  /\ \/ /\ SScopyObject("trash", "reg", f)
        /\ \/ /\ ulist' = ulist \ {f} /\ ucopied' = {f}
              /\ UNCHANGED <<upc, ugoal>>
           \/ UntrashifyFails
     \/ UNCHANGED store /\ UntrashifyFails
  /\ UNCHANGED <<now, wal, vi, hint, backups, phase, began, tVars>>

\* ... and then deletes the object in trash.
RestoreDelete(f) ==
  /\ upc = "move" /\ f \in ucopied
  /\ \/ /\ DeleteObject("trash", f)
        /\ \/ ucopied' = {} /\ UNCHANGED <<upc, ugoal, ulist>>
           \/ UntrashifyFails
     \/ UNCHANGED store /\ UntrashifyFails
  /\ UNCHANGED <<now, wal, vi, hint, backups, phase, began, tVars>>

UntrashifyDone ==
  /\ upc = "move" /\ ulist = {} /\ ucopied = {}
  /\ upc' = "ok"
  /\ UNCHANGED <<clusterVars, ugoal, ulist, ucopied, tVars>>

\* The client has its answer, or the process has died.
UntrashifyEnds ==
  /\ upc # "idle"
  /\ upc' = "idle" /\ ugoal' = {} /\ ulist' = {} /\ ucopied' = {}
  /\ UNCHANGED <<clusterVars, tVars>>

-----------------------------------------------------------------------------
(* HandleDelete2Prefix.                                                    *)

\* ListDelete2Files lists what msg.Prefix names.
ListDelete2Files ==
  /\ tpc = "idle"
  /\ \E a \in Area : tarea' = a /\ tlisted' = store[a]
  /\ tpc' = "uploads"
  /\ UNCHANGED <<clusterVars, uVars, tlist, tfailed, tretry>>

\* Faulty variant: the last second of the retention does not count.
ExpiredEarly(f) ==
  tlisted[f] # NoObj /\ Stamp(tlisted[f] + Retention) <= Stamp(now)

\* The retention filter.  Unix() drops the fraction of a second.
Expired(f) ==
  tlisted[f] # NoObj /\ Stamp(tlisted[f] + Retention) < Stamp(now)

\* ListFailedMultipartUploads has answered.  Nothing is deleted without
\* msg.Confirm or when the prefix is not one of trash.
DeletePrefixInBucket ==
  /\ tpc = "uploads"
  /\ \/ /\ tarea = "trash"
        /\ tpc' = "pass" /\ tlist' = {f \in File : Expired(f)}
     \/ tpc' = "ok" /\ UNCHANGED tlist
     \/ tpc' = "error" /\ UNCHANGED tlist
  /\ UNCHANGED <<clusterVars, uVars, tarea, tlisted, tfailed, tretry>>

\* A worker of garbageTrashParallel takes a file and deletes it; the answer
\* may be lost.  A delete is one step, so the number of workers is immaterial.
TrashDelete(f) ==
  /\ tpc = "pass" /\ f \in tlist
  /\ tlist' = tlist \ {f}
  /\ \/ DeleteObject(tarea, f) /\ tfailed' \in {tfailed, tfailed \cup {f}}
     \/ UNCHANGED store /\ tfailed' = tfailed \cup {f}
  /\ UNCHANGED <<now, wal, vi, hint, backups, phase, began, uVars, tpc, tarea,
                 tlisted, tretry>>

TrashRetry == tretry + 1 < TrashMaxRetry

\* Faulty variant: the passes are not counted.
TrashEndPassUncounted ==
  /\ tpc = "pass" /\ tlist = {}
  /\ tpc' = IF tfailed = {} THEN "abort" ELSE "pass"
  /\ tlist' = tfailed /\ tfailed' = {}
  /\ UNCHANGED <<clusterVars, uVars, tarea, tlisted, tretry>>

TrashEndPass ==
  /\ tpc = "pass" /\ tlist = {}
  /\ \/ tfailed = {} /\ tpc' = "abort" /\ tlist' = {}
     \/ tfailed # {} /\ TrashRetry /\ tpc' = "pass" /\ tlist' = tfailed
     \/ tfailed # {} /\ ~ TrashRetry /\ tpc' = "error" /\ tlist' = {}
  /\ tfailed' = {}
  /\ tretry' = tretry + 1
  /\ UNCHANGED <<clusterVars, uVars, tarea, tlisted>>

TrashAbortUploads ==
  /\ tpc = "abort"
  /\ tpc' \in {"ok", "error"}
  /\ UNCHANGED <<clusterVars, uVars, tarea, tlisted, tlist, tfailed, tretry>>

\* The client has its answer, or the process has died.
Delete2Ends ==
  /\ tpc # "idle"
  /\ tpc' = "idle" /\ tarea' = "trash" /\ tlisted' = NotListed
  /\ tlist' = {} /\ tfailed' = {} /\ tretry' = 0
  /\ UNCHANGED <<clusterVars, uVars>>

-----------------------------------------------------------------------------

Untrashify ==
  \/ \E f \in File : RestoreByRename(f) \/ RestoreCopy(f) \/ RestoreDelete(f)
  \/ UntrashifyDone
  \/ UntrashifyEnds

Delete2 ==
  \/ DeletePrefixInBucket
  \/ \E f \in File : TrashDelete(f)
  \/ TrashEndPass
  \/ TrashAbortUploads
  \/ Delete2Ends

=============================================================================
