---------------------------- MODULE GarbageProofs ----------------------------
(***************************************************************************)
(* Proofs about vacuum, untrashify and prefix delete on one store, on top  *)
(* of those about a vacuum alone (VacuumProofs).                           *)
(***************************************************************************)
EXTENDS GarbageSystem, VacuumProofs

\* What the two procedures of Trash know.
TrashInv ==
  /\ ugoal \subseteq File /\ ulist \subseteq ugoal /\ ucopied \subseteq ugoal
  /\ tlist \subseteq File /\ tfailed \subseteq File /\ tlisted \in [File -> Int]
  /\ upc \in {"idle", "move", "ok", "error"}
  /\ upc = "idle" => ugoal = {}
  /\ upc # "move" => ulist = {} /\ ucopied = {}
  /\ tpc # "pass" => tlist = {} /\ tfailed = {}
  /\ tpc = "pass" => tarea = "trash"

\* An object in trash is not older than the upload of its file either.
TrashWriterInv ==
  \A f \in File : Exists("trash", f) =>
    /\ phase[f] # "new"
    /\ Writing(f) => Visible(f) /\ began[f] - Gran < store["trash"][f]

SysLive == LiveInv /\ TrashInv /\ TrashWriterInv

\* A step of one of the three procedures, of the sessions, or none.
VStep ==
  /\ \/ DeleteGarbage /\ MayStart("vacuum")
     \/ Handler
     \/ Crash
     \/ Sessions /\ UNCHANGED vacVars
  /\ UNCHANGED trashVars
UStep ==
  /\ Untrashify \/ (HandleUntrashifyFile /\ MayStart("untrashify"))
  /\ UNCHANGED vacVars
TStep ==
  /\ Delete2 \/ (ListDelete2Files /\ MayStart("delete2"))
  /\ UNCHANGED vacVars

LEMMA SysSteps ==
  [SysNext]_sysVars =>
    \/ (VStep \/ UStep \/ TStep) /\ Record
    \/ UNCHANGED sysVars
BY Zenon DEF SysNext, Start, VacuumStep, UntrashifyStep, Delete2Step, VStep, UStep, TStep, vacVars

LEMMA VStepNext ==
  VStep \/ UNCHANGED sysVars => [Next]_vars /\ UNCHANGED trashVars
BY ZenonT(60) DEF VStep, Next, sysVars

\* An untrashify brings objects of trash to the regular tree, and takes out of
\* trash what it has brought there.
LEMMA UEffect ==
  ASSUME TypeOK, TrashInv, UStep
  PROVE  /\ UNCHANGED <<now, wal, vi, hint, backups, phase, began, vacVars, tVars>>
         /\ TrashInv'
         /\ store' \in [Area -> [File -> Int]]
         /\ \A g \in File :
              \/ store'["reg"][g] = store["reg"][g]
              \/ Exists("trash", g) /\ upc = "move"
                 /\ store'["reg"][g] \in {store["trash"][g], Stamp(now)}
         /\ \A g \in File :
              \/ store'["trash"][g] = store["trash"][g]
              \/ store'["trash"][g] = NoObj /\ upc = "move"
                 /\ (g \in ucopied \/ store'["reg"][g] = store["trash"][g])
<1> USE DEF TypeOK, ClusterTypeOK, Area
<1>0. Stamp(now) \in Int
  BY StampBounds
<1>1. ASSUME NEW f \in File, RestoreByRename(f)
      PROVE  /\ store' = store \/ Rename("trash", "reg", f)
             /\ upc = "move" /\ TrashInv'
             /\ UNCHANGED <<now, wal, vi, hint, backups, phase, began, tVars>>
  BY <1>1 DEF RestoreByRename, UntrashifyFails, TrashInv, tVars
<1>2. ASSUME NEW f \in File, RestoreCopy(f)
      PROVE  /\ store' = store \/ SScopyObject("trash", "reg", f)
             /\ upc = "move" /\ TrashInv'
             /\ UNCHANGED <<now, wal, vi, hint, backups, phase, began, tVars>>
  BY <1>2 DEF RestoreCopy, UntrashifyFails, TrashInv, tVars
<1>3. ASSUME NEW f \in File, RestoreDelete(f)
      PROVE  /\ store' = store \/ DeleteObject("trash", f)
             /\ upc = "move" /\ f \in ucopied /\ TrashInv'
             /\ UNCHANGED <<now, wal, vi, hint, backups, phase, began, tVars>>
  BY Zenon, <1>3 DEF RestoreDelete, UntrashifyFails, TrashInv, tVars
<1>4. ASSUME UntrashifyDone \/ UntrashifyEnds \/ HandleUntrashifyFile
      PROVE  UNCHANGED <<clusterVars, tVars>> /\ TrashInv'
  BY <1>4 DEF UntrashifyDone, UntrashifyEnds, HandleUntrashifyFile, TrashInv, tVars, clusterVars
<1>5. CASE \E f \in File : RestoreByRename(f)
  BY <1>1, <1>5 DEF Rename, Exists, NoObj, UStep
<1>6. CASE \E f \in File : RestoreCopy(f)
  BY <1>0, <1>2, <1>6 DEF SScopyObject, Exists, UStep
<1>7. CASE \E f \in File : RestoreDelete(f)
  BY <1>3, <1>7 DEF DeleteObject, NoObj, UStep
<1>8. CASE UntrashifyDone \/ UntrashifyEnds \/ HandleUntrashifyFile
  BY <1>4, <1>8 DEF clusterVars, UStep
<1> QED
  BY <1>5, <1>6, <1>7, <1>8 DEF UStep, Untrashify

\* A prefix delete takes files of its list out of trash.
LEMMA TEffect ==
  ASSUME TypeOK, TrashInv, TStep
  PROVE  /\ UNCHANGED <<now, wal, vi, hint, backups, phase, began, vacVars, uVars>>
         /\ TrashInv'
         /\ store' \in [Area -> [File -> Int]]
         /\ store'["reg"] = store["reg"]
         /\ \A g \in File :
              \/ store'["trash"][g] = store["trash"][g]
              \/ store'["trash"][g] = NoObj /\ g \in tlist
<1> USE DEF TypeOK, ClusterTypeOK, Area
<1>1. ASSUME NEW f \in File, TrashDelete(f)
      PROVE  /\ store' = store \/ DeleteObject("trash", f)
             /\ f \in tlist /\ TrashInv'
             /\ UNCHANGED <<now, wal, vi, hint, backups, phase, began, uVars>>
  BY Zenon, <1>1 DEF TrashDelete, TrashInv, uVars
<1>2. ASSUME DeletePrefixInBucket \/ TrashEndPass
      PROVE  UNCHANGED <<clusterVars, uVars>> /\ TrashInv'
  BY Zenon, <1>2 DEF DeletePrefixInBucket, TrashEndPass, TrashInv, uVars, clusterVars
<1>3. ASSUME TrashAbortUploads \/ Delete2Ends
      PROVE  UNCHANGED <<clusterVars, uVars>> /\ TrashInv'
  BY <1>3 DEF TrashAbortUploads, Delete2Ends, NotListed, NoObj, TrashInv, uVars, clusterVars
<1>4. ASSUME ListDelete2Files
      PROVE  UNCHANGED <<clusterVars, uVars>> /\ TrashInv'
  BY <1>4 DEF ListDelete2Files, TrashInv, uVars, clusterVars
<1>5. ASSUME NEW f \in File, TrashDelete(f)
      PROVE  /\ store' \in [Area -> [File -> Int]] /\ store'["reg"] = store["reg"]
             /\ \A g \in File :
                  \/ store'["trash"][g] = store["trash"][g]
                  \/ store'["trash"][g] = NoObj /\ g \in tlist
  BY <1>1, <1>5 DEF DeleteObject, NoObj
<1>6. CASE DeletePrefixInBucket \/ TrashEndPass \/ TrashAbortUploads \/ Delete2Ends \/ ListDelete2Files
  <2>1. UNCHANGED <<clusterVars, uVars>> /\ TrashInv'
    BY Zenon, <1>2, <1>3, <1>4, <1>6
  <2> QED
    BY <2>1 DEF clusterVars, TStep
<1>7. CASE \E f \in File : TrashDelete(f)
  BY Zenon, <1>1, <1>5, <1>7 DEF TStep
<1> QED
  BY Zenon, <1>6, <1>7 DEF TStep, Delete2

\* A vacuum adds to trash what is in the regular tree; the sessions leave
\* trash alone.
LEMMA VEffect ==
  ASSUME TypeOK, [Next]_vars, NEW g \in File
  PROVE  \/ store'["trash"][g] = store["trash"][g]
         \/ /\ Exists("reg", g) /\ vpc = "pass"
            /\ \/ store'["trash"][g] = Stamp(now)
               \/ Backend = "fs" /\ store'["trash"][g] = store["reg"][g]
            /\ UNCHANGED <<now, phase, began>>
<1> USE DEF TypeOK, ClusterTypeOK, Area
<1>1. ASSUME NEW f \in File, CrazyDelete(f) PROVE store'["trash"][g] = store["trash"][g]
  BY Zenon, <1>1 DEF CrazyDelete, DeleteObject
<1>2. ASSUME NEW f \in File, MoveDelete(f) PROVE store'["trash"][g] = store["trash"][g]
  BY SMTT(30), <1>2 DEF MoveDelete, DeleteObject
<1>3. ASSUME NEW f \in File, MoveByRename(f)
      PROVE  \/ store'["trash"][g] = store["trash"][g]
             \/ /\ Exists("reg", g) /\ vpc = "pass" /\ store'["trash"][g] = store["reg"][g]
                /\ UNCHANGED <<now, phase, began>>
  <2>1. vpc = "pass" /\ UNCHANGED <<now, phase, began>>
        /\ (UNCHANGED store \/ Rename("reg", "trash", f))
    BY Zenon, <1>3 DEF MoveByRename
  <2>2. CASE Rename("reg", "trash", f)
    BY <2>1, <2>2 DEF Rename, Exists
  <2> QED
    BY Zenon, <2>1, <2>2
<1>4. ASSUME NEW f \in File, MoveCopy(f)
      PROVE  \/ store'["trash"][g] = store["trash"][g]
             \/ /\ Exists("reg", g) /\ vpc = "pass" /\ store'["trash"][g] = Stamp(now)
                /\ UNCHANGED <<now, phase, began>>
  <2>1. vpc = "pass" /\ UNCHANGED <<now, phase, began>>
        /\ (UNCHANGED store \/ SScopyObject("reg", "trash", f))
    BY Zenon, <1>4 DEF MoveCopy
  <2>2. CASE SScopyObject("reg", "trash", f)
    BY <2>1, <2>2 DEF SScopyObject, Exists
  <2> QED
    BY Zenon, <2>1, <2>2
<1>5. CASE \E f \in File : Work(f)
  BY Zenon, <1>1, <1>2, <1>3, <1>4, <1>5 DEF Work, MoveObject
<1>6. CASE UNCHANGED store
  BY Zenon, <1>6
<1>7. CASE Sessions
  <2>1. ASSUME NEW f \in File, BeginPut(f) PROVE store'["trash"][g] = store["trash"][g]
    BY <2>1 DEF BeginPut
  <2>2. ASSUME NEW f \in File, PutFileToDest(f) PROVE store'["trash"][g] = store["trash"][g]
    BY Zenon, <2>2 DEF PutFileToDest
  <2> QED
    BY Zenon, <1>6, <1>7, <2>1, <2>2 DEF Sessions, Tick, CommitRow, AbortRow, DropRow, TakeBackup,
       RetireBackup
<1> QED
  BY Zenon, <1>5, <1>6, <1>7 DEF Next, Handler, DeleteGarbage, ListBackups, GetFirstLSN,
     ListBucketPath, ReadExpireHint, ReadVirtualIndex, StartRemoval, CallFails, EndPass,
     AbortUploads, Reply, Crash, vars, clusterVars

\* How far the session writing a file may get in one step.
LEMMA PhaseMoves ==
  ASSUME TypeOK, [Next]_vars, NEW g \in File
  PROVE  \/ phase'[g] = phase[g] /\ began'[g] = began[g]
         \/ phase[g] = "new" /\ phase'[g] = "uploading"
         \/ phase[g] = "uploading" /\ phase'[g] = "uploaded" /\ began'[g] = began[g]
         \/ phase'[g] = "done"
<1> USE DEF TypeOK, ClusterTypeOK
<1>1. CASE UNCHANGED <<phase, began>>
  BY <1>1
<1>2. ASSUME NEW f \in File, BeginPut(f)
      PROVE  \/ phase'[g] = phase[g] /\ began'[g] = began[g]
             \/ phase[g] = "new" /\ phase'[g] = "uploading"
  BY <1>2 DEF BeginPut
<1>3. ASSUME NEW f \in File, PutFileToDest(f)
      PROVE  began'[g] = began[g]
             /\ (phase'[g] = phase[g] \/ (phase[g] = "uploading" /\ phase'[g] = "uploaded"))
  BY Zenon, <1>3 DEF PutFileToDest
<1>4. ASSUME NEW f \in File, CommitRow(f) \/ AbortRow(f)
      PROVE  phase'[g] = "done" \/ (phase'[g] = phase[g] /\ began'[g] = began[g])
  BY Zenon, <1>4 DEF CommitRow, AbortRow
<1>5. CASE Sessions
  BY Zenon, <1>1, <1>2, <1>3, <1>4, <1>5 DEF Sessions, Tick, DropRow, TakeBackup, RetireBackup
<1>6. ASSUME NEW f \in File, Work(f) PROVE UNCHANGED <<phase, began>>
  BY Zenon, <1>6, WorkEffect
<1> QED
  BY ZenonT(60), <1>1, <1>5, <1>6 DEF Next, Handler, DeleteGarbage, ListBackups, GetFirstLSN,
     ListBucketPath, ReadExpireHint, ReadVirtualIndex, StartRemoval, CallFails, EndPass,
     AbortUploads, Reply, Crash, vars, clusterVars

\* What a vacuum or a session does to the facts about trash.
LEMMA TrashWriterStep ==
  ASSUME LiveInv, TrashWriterInv, [Next]_vars
  PROVE  TrashWriterInv'
<1> USE DEF LiveInv, TypeInv
<1> SUFFICES ASSUME NEW g \in File, Exists("trash", g)'
             PROVE  /\ phase'[g] # "new"
                    /\ Writing(g)' => Visible(g)' /\ began'[g] - Gran < store'["trash"][g]
  BY DEF TrashWriterInv
<1>t. /\ now \in Nat /\ began[g] \in Nat /\ Gran \in Nat \ {0}
      /\ store["trash"][g] \in Int /\ store["reg"][g] \in Int
      /\ Stamp(now) \in Int /\ now - Gran < Stamp(now)
  BY ClusterAssumption, StampBounds DEF TypeOK, ClusterTypeOK, Area
<1>1. CASE store'["trash"][g] # store["trash"][g]
  <2>1. /\ Exists("reg", g) /\ UNCHANGED <<now, phase, began>>
        /\ \/ store'["trash"][g] = Stamp(now)
           \/ store'["trash"][g] = store["reg"][g]
    BY <1>1, VEffect
  <2>2. phase[g] # "new" /\ (Writing(g) => Visible(g) /\ began[g] <= now
                               /\ began[g] - Gran < store["reg"][g])
    BY Zenon, <2>1 DEF WriterInv
  <2> QED
    BY <1>t, <2>1, <2>2 DEF Writing, Visible
<1>2. CASE store'["trash"][g] = store["trash"][g]
  <2>1. /\ phase[g] # "new"
        /\ Writing(g) => Visible(g) /\ began[g] - Gran < store["trash"][g]
    BY <1>2 DEF TrashWriterInv, Exists
  <2>2. phase'[g] # "new" /\ (Writing(g)' => Writing(g) /\ began'[g] = began[g])
        /\ (phase[g] = "uploaded" => phase'[g] \in {"uploaded", "done"})
    BY <2>1, PhaseMoves DEF Writing
  <2> QED
    BY Zenon, <1>2, <2>1, <2>2 DEF Writing, Visible
<1> QED
  BY Zenon, <1>1, <1>2

\* Restored objects are no older than the uploads of their files, and neither
\* procedure of Trash removes anything from the regular tree.
LEMMA TrashKeepsLive ==
  ASSUME SysLive, UStep \/ TStep
  PROVE  LiveInv' /\ TrashWriterInv'
<1> USE DEF SysLive, LiveInv, TypeInv
<1>1. /\ UNCHANGED <<now, wal, vi, hint, backups, phase, began, vacVars>>
      /\ store' \in [Area -> [File -> Int]]
      /\ \A g \in File :
           \/ store'["reg"][g] = store["reg"][g]
           \/ Exists("trash", g) /\ store'["reg"][g] \in {store["trash"][g], Stamp(now)}
      /\ \A g \in File :
           store'["trash"][g] = store["trash"][g] \/ store'["trash"][g] = NoObj
  <2>1. CASE UStep
    BY Zenon, <2>1, UEffect
  <2>2. CASE TStep
    BY Zenon, <2>2, TEffect
  <2> QED
    BY <2>1, <2>2
<1>2. UNCHANGED <<vpc, mode, procStart, sentinels, firstLSN, listed, ei, chosen, fileList,
                  copied, failed, retryCount>>
  BY Zenon, <1>1 DEF vacVars
<1>3. TypeOK' /\ TypeInv'
  BY Zenon, <1>1, <1>2 DEF TypeOK, ClusterTypeOK
<1>4. PassInv' /\ ChosenInv'
  BY Zenon, <1>1, <1>2 DEF PassInv, ChosenInv, Doomed, Writing
<1>n. now \in Nat /\ Stamp(now) \in Int /\ Stamp(now) # NoObj /\ now - Gran < Stamp(now)
      /\ Gran \in Nat /\ began \in [File -> 0..MaxTime]
  BY ClusterAssumption, StampBounds DEF TypeOK, ClusterTypeOK, NoObj
<1>5. \A g \in File : Exists("reg", g) => Exists("reg", g)'
  BY Zenon, <1>1, <1>n DEF Exists
<1>6. PresentInv'
  BY Zenon, <1>1, <1>5 DEF PresentInv, Writing, Visible
<1>7. ASSUME NEW g \in File, Exists("reg", g)'
      PROVE  /\ phase[g] # "new"
             /\ Writing(g) => Visible(g) /\ began[g] - Gran < store'["reg"][g]
  <2>1. CASE store'["reg"][g] = store["reg"][g]
    BY Zenon, <1>7, <2>1 DEF WriterInv, Exists
  <2>2. CASE Exists("trash", g) /\ store'["reg"][g] \in {store["trash"][g], Stamp(now)}
    <3>1. Writing(g) => began[g] <= now /\ began[g] \in Nat
      BY <1>n DEF WriterInv
    <3> QED
      BY <1>n, <2>2, <3>1 DEF TrashWriterInv
  <2> QED
    BY Zenon, <1>1, <2>1, <2>2
<1>8. WriterInv'
  <2>1. SUFFICES ASSUME NEW g \in File
                 PROVE  /\ phase[g] = "new" => ~ Exists("reg", g)' /\ listed[g] = NoObj
                        /\ Writing(g) =>
                             /\ began[g] <= now
                             /\ Exists("reg", g)' =>
                                  Visible(g) /\ began[g] - Gran < store'["reg"][g]
                             /\ listed[g] # NoObj =>
                                  Visible(g) /\ began[g] - Gran < listed[g]
                        /\ g \in vi \/ hint[g] # NoLsn => phase[g] = "done"
    BY Zenon, <1>1, <1>2 DEF WriterInv, Writing, Visible, Exists
  <2> QED
    BY Zenon, <1>7 DEF WriterInv
<1>9. TrashWriterInv'
  BY <1>1 DEF TrashWriterInv, Exists, Writing, Visible
<1> QED
  BY Zenon, <1>3, <1>4, <1>6, <1>8, <1>9

LEMMA SysInitLive ==
  SysInit => SysLive
<1> SUFFICES ASSUME SysInit PROVE SysLive
  OBVIOUS
<1>1. LiveInv
  BY InitLive DEF SysInit
<1>2. TrashInv
  BY DEF SysInit, TrashInit, TrashInv, NotListed, NoObj
<1>3. TrashWriterInv
  BY DEF SysInit, Init, ClusterInit, TrashWriterInv, Exists, Area
<1> QED
  BY <1>1, <1>2, <1>3 DEF SysLive

\* TrashInv needs the types only.
LEMMA TrashInvStep ==
  ASSUME TypeInv, TrashInv, [SysNext]_sysVars
  PROVE  TrashInv'
<1>1. CASE VStep \/ UNCHANGED sysVars
  BY <1>1, VStepNext DEF TrashInv, trashVars, uVars, tVars
<1>2. CASE UStep
  BY Zenon, <1>2, UEffect DEF TypeInv
<1>3. CASE TStep
  BY Zenon, <1>3, TEffect DEF TypeInv
<1> QED
  BY Zenon, <1>1, <1>2, <1>3, SysSteps

LEMMA SysLiveStep ==
  WindowCoversWriters /\ SysLive /\ [SysNext]_sysVars => SysLive'
<1> SUFFICES ASSUME WindowCoversWriters, SysLive, [SysNext]_sysVars PROVE SysLive'
  OBVIOUS
<1>1. TrashInv'
  BY TrashInvStep DEF SysLive, LiveInv
<1>2. CASE VStep \/ UNCHANGED sysVars
  <2>1. [Next]_vars
    BY <1>2, VStepNext
  <2>2. LiveInv'
    BY <2>1, NextType, WriterStep, PassStep, ChosenStep, PresentStep DEF SysLive, LiveInv
  <2>3. TrashWriterInv'
    BY <2>1, TrashWriterStep DEF SysLive
  <2> QED
    BY <1>1, <2>2, <2>3 DEF SysLive
<1>3. CASE UStep \/ TStep
  BY <1>1, <1>3, TrashKeepsLive DEF SysLive
<1> QED
  BY <1>2, <1>3, SysSteps

\* delete_handler.go, the three procedures on one store, in any overlap: what
\* the theorem LiveFilesAreKept says of a vacuum alone stays true beside
\* untrashify, which brings old objects back, and prefix delete.
THEOREM LiveFilesAreKeptTogether ==
  WindowCoversWriters => (SysSpec => []LiveFilesKept)
<1> SUFFICES ASSUME WindowCoversWriters PROVE SysSpec => []LiveFilesKept
  OBVIOUS
<1>1. SysLive => LiveFilesKept
  BY Zenon DEF SysLive, LiveInv, PresentInv, LiveFilesKept, TypeInv, TypeOK, ClusterTypeOK
<1>2. SysLive /\ [SysNext]_sysVars => SysLive'
  BY SysLiveStep
<1> QED
  BY <1>1, <1>2, SysInitLive, PTL DEF SysSpec

-----------------------------------------------------------------------------
(* Apart from a vacuum.                                                    *)

\* A vacuum and the given procedure are not run at the same time.
VacuumApart(p) == {"vacuum", p} \notin Overlap

NotWithUntrashify == vpc = "idle" \/ upc = "idle"
NotWithDelete2 == vpc = "idle" \/ tpc = "idle"

\* A vacuum leaves its idle state by a request only.
LEMMA VacuumStarts ==
  ASSUME VStep, vpc = "idle", vpc' # "idle"
  PROVE  MayStart("vacuum")
<1>1. ~Handler
  BY DEF Handler, ListBackups, GetFirstLSN, ListBucketPath, ReadExpireHint, ReadVirtualIndex,
     StartRemoval, CallFails, Reading, Work, CrazyDelete, MoveObject, MoveByRename, MoveCopy,
     MoveDelete, EndPass, AbortUploads, Reply
<1> QED
  BY Zenon, <1>1 DEF VStep, Crash, vacVars

LEMMA UntrashifyApart ==
  ASSUME VacuumApart("untrashify"), NotWithUntrashify, [SysNext]_sysVars
  PROVE  NotWithUntrashify'
<1> USE DEF NotWithUntrashify
<1>1. CASE VStep
  <2>1. upc' = upc
    BY <1>1 DEF VStep, trashVars, uVars
  <2>2. MayStart("vacuum") => upc = "idle"
    BY DEF MayStart, Running, Procedure, VacuumApart
  <2> QED
    BY <1>1, <2>1, <2>2, VacuumStarts
<1>2. CASE UStep
  <2>1. vpc' = vpc
    BY <1>2 DEF UStep, vacVars
  <2>2. MayStart("untrashify") => vpc = "idle"
    <3>1. {"untrashify", "vacuum"} = {"vacuum", "untrashify"}
      BY Zenon
    <3> QED
      BY <3>1 DEF MayStart, Running, Procedure, VacuumApart
  <2>3. Untrashify => upc # "idle"
    BY Zenon DEF Untrashify, RestoreByRename, RestoreCopy, RestoreDelete, UntrashifyDone, UntrashifyEnds
  <2> QED
    BY Zenon, <1>2, <2>1, <2>2, <2>3 DEF UStep
<1>3. CASE TStep
  BY Zenon, <1>3 DEF TStep, vacVars, Delete2, DeletePrefixInBucket, TrashDelete, TrashEndPass,
     TrashAbortUploads, Delete2Ends, ListDelete2Files, uVars
<1>4. CASE UNCHANGED sysVars
  BY <1>4 DEF sysVars, vars, vacVars, trashVars, uVars
<1> QED
  BY <1>1, <1>2, <1>3, <1>4, SysSteps

LEMMA Delete2Apart ==
  ASSUME VacuumApart("delete2"), NotWithDelete2, [SysNext]_sysVars
  PROVE  NotWithDelete2'
<1> USE DEF NotWithDelete2
<1>1. CASE VStep
  <2>1. tpc' = tpc
    BY <1>1 DEF VStep, trashVars, tVars
  <2>2. MayStart("vacuum") => tpc = "idle"
    BY DEF MayStart, Running, Procedure, VacuumApart
  <2> QED
    BY <1>1, <2>1, <2>2, VacuumStarts
<1>2. CASE TStep
  <2>1. vpc' = vpc
    BY <1>2 DEF TStep, vacVars
  <2>2. MayStart("delete2") => vpc = "idle"
    <3>1. {"delete2", "vacuum"} = {"vacuum", "delete2"}
      BY Zenon
    <3> QED
      BY <3>1 DEF MayStart, Running, Procedure, VacuumApart
  <2>3. Delete2 => tpc # "idle"
    BY Zenon DEF Delete2, DeletePrefixInBucket, TrashDelete, TrashEndPass, TrashAbortUploads, Delete2Ends
  <2> QED
    BY <1>2, <2>1, <2>2, <2>3 DEF TStep
<1>3. CASE UStep
  BY Zenon, <1>3 DEF UStep, vacVars, Untrashify, RestoreByRename, RestoreCopy, RestoreDelete,
     UntrashifyDone, UntrashifyEnds, HandleUntrashifyFile, tVars
<1>4. CASE UNCHANGED sysVars
  BY <1>4 DEF sysVars, vars, vacVars, trashVars, tVars
<1> QED
  BY <1>1, <1>2, <1>3, <1>4, SysSteps

\* The facts about a vacuum that hold whatever runs beside it.
SysBase == TypeInv /\ PassInv /\ TrashInv

LEMMA SysBaseStep ==
  SysBase /\ [SysNext]_sysVars => SysBase'
<1> SUFFICES ASSUME SysBase, [SysNext]_sysVars PROVE SysBase'
  OBVIOUS
<1> USE DEF SysBase
<1>1. TrashInv'
  BY TrashInvStep
<1>2. CASE VStep \/ UNCHANGED sysVars
  BY <1>1, <1>2, VStepNext, NextType, PassStep
<1>3. CASE UStep \/ TStep
  <2>1. /\ UNCHANGED <<now, wal, vi, hint, backups, phase, began, vacVars>>
        /\ store' \in [Area -> [File -> Int]]
    BY Zenon, <1>3, UEffect, TEffect DEF TypeInv
  <2>2. TypeInv'
    BY Zenon, <2>1 DEF TypeInv, TypeOK, ClusterTypeOK, vacVars
  <2>3. PassInv'
    BY <2>1 DEF PassInv, Doomed, vacVars
  <2> QED
    BY <1>1, <2>2, <2>3
<1> QED
  BY <1>2, <1>3, SysSteps

LEMMA SysBaseInit ==
  SysInit => SysBase /\ NotWithUntrashify /\ NotWithDelete2
BY Zenon, SysInitLive DEF SysBase, SysLive, LiveInv, SysInit, TrashInit, NotWithUntrashify, NotWithDelete2

-----------------------------------------------------------------------------
(* Untrashify.                                                             *)

\* What an untrashify has moved is in the regular tree as long as it runs.
RestoreInv ==
  /\ ucopied \cap ulist = {}
  /\ upc \in {"move", "ok"} => \A f \in ugoal \ ulist : Exists("reg", f)

\* Nothing but a vacuum at work takes an object out of the regular tree.
LEMMA RegKept ==
  ASSUME TypeInv, [Next]_vars, NEW f \in File, Exists("reg", f)
  PROVE  Exists("reg", f)' \/ vpc = "pass"
<1> USE DEF TypeInv, TypeOK, ClusterTypeOK, Area, Exists
<1>1. CASE UNCHANGED store
  BY Zenon, <1>1
<1>2. ASSUME NEW g \in File, Work(g) PROVE vpc = "pass"
  BY Zenon, <1>2, WorkEffect
<1>3. CASE Sessions
  <2>n. ASSUME NEW t \in Nat PROVE Stamp(t) \in Int /\ Stamp(t) # NoObj
    BY StampBounds DEF NoObj
  <2>1. ASSUME NEW g \in File, BeginPut(g) PROVE Exists("reg", f)'
    <3>1. Stamp(now) \in Int /\ Stamp(now) # NoObj
      BY <2>n
    <3> QED
      BY Zenon, <2>1, <3>1 DEF BeginPut
  <2>2. ASSUME NEW g \in File, PutFileToDest(g) PROVE Exists("reg", f)'
    <3>1. PICK t \in began[g]..now :
            store' = IF Backend = "fs" /\ ~ Exists("reg", g) THEN store
                     ELSE [store EXCEPT !["reg"][g] = Stamp(t)]
      BY Zenon, <2>2 DEF PutFileToDest
    <3>2. Stamp(t) \in Int /\ Stamp(t) # NoObj
      BY <2>n
    <3> QED
      BY Zenon, <3>1, <3>2
  <2> QED
    BY Zenon, <1>1, <1>3, <2>1, <2>2 DEF Sessions, Tick, CommitRow, AbortRow, DropRow, TakeBackup,
       RetireBackup
<1> QED
  BY ZenonT(60), <1>1, <1>2, <1>3 DEF Next, Handler, DeleteGarbage, ListBackups, GetFirstLSN,
     ListBucketPath, ReadExpireHint, ReadVirtualIndex, StartRemoval, CallFails, EndPass,
     AbortUploads, Reply, Crash, vars, clusterVars

\* An untrashify takes nothing out of the regular tree.
LEMMA UKeepsReg ==
  ASSUME TypeInv, TrashInv, UStep, NEW f \in File, Exists("reg", f)
  PROVE  Exists("reg", f)'
<1>1. Stamp(now) \in Int /\ Stamp(now) # NoObj
  BY StampBounds DEF TypeInv, TypeOK, ClusterTypeOK, NoObj
<1>2. \/ store'["reg"][f] = store["reg"][f]
      \/ Exists("trash", f) /\ store'["reg"][f] \in {store["trash"][f], Stamp(now)}
  BY Zenon, UEffect DEF TypeInv
<1> QED
  BY <1>1, <1>2 DEF Exists

LEMMA RestoreStep ==
  ASSUME SysBase, NotWithUntrashify, RestoreInv, [SysNext]_sysVars
  PROVE  RestoreInv'
<1> USE DEF SysBase
<1>t. TypeOK /\ ugoal \subseteq File /\ ulist \subseteq ugoal
  BY Zenon DEF TypeInv, TrashInv
<1>1. CASE VStep \/ UNCHANGED sysVars
  <2>1. [Next]_vars /\ UNCHANGED <<upc, ugoal, ulist, ucopied>>
    BY <1>1, VStepNext DEF trashVars, uVars
  <2>2. upc \in {"move", "ok"} => vpc # "pass"
    BY DEF NotWithUntrashify
  <2>3. \A f \in File : Exists("reg", f) => Exists("reg", f)' \/ vpc = "pass"
    BY Zenon, <2>1, RegKept
  <2> QED
    BY <1>t, <2>1, <2>2, <2>3 DEF RestoreInv
<1>2. CASE TStep
  <2>1. UNCHANGED <<upc, ugoal, ulist, ucopied>> /\ store'["reg"] = store["reg"]
    BY Zenon, <1>2, TEffect DEF TypeInv, uVars
  <2> QED
    BY <2>1 DEF RestoreInv, Exists
<1>3. CASE UStep
  <2>k. \A f \in File : Exists("reg", f) => Exists("reg", f)'
    BY <1>3, UKeepsReg
  <2> USE <1>t DEF TypeOK, ClusterTypeOK, Area
  <2>1. ASSUME NEW f \in File, RestoreByRename(f) PROVE RestoreInv'
    <3>1. CASE Rename("trash", "reg", f) /\ ulist' = ulist \ {f} /\ UNCHANGED <<upc, ugoal, ucopied>>
      <4>1. Exists("reg", f)'
        BY Zenon, <3>1 DEF Rename, Exists
      <4> QED
        BY Zenon, <2>k, <3>1, <4>1 DEF RestoreInv
    <3>2. CASE UntrashifyFails
      BY <3>2 DEF UntrashifyFails, RestoreInv
    <3> QED
      BY Zenon, <2>1, <3>1, <3>2 DEF RestoreByRename
  <2>2. ASSUME NEW f \in File, RestoreCopy(f) PROVE RestoreInv'
    <3>1. CASE SScopyObject("trash", "reg", f) /\ ulist' = ulist \ {f} /\ ucopied' = {f}
               /\ UNCHANGED <<upc, ugoal>>
      <4>1. Exists("reg", f)'
        <5>1. Stamp(now) \in Int /\ Stamp(now) # NoObj
          BY StampBounds DEF NoObj
        <5> QED
          BY Zenon, <3>1, <5>1 DEF SScopyObject, Exists
      <4> QED
        BY Zenon, <2>k, <3>1, <4>1 DEF RestoreInv
    <3>2. CASE UntrashifyFails
      BY <3>2 DEF UntrashifyFails, RestoreInv
    <3> QED
      BY Zenon, <2>2, <3>1, <3>2 DEF RestoreCopy
  <2>3. ASSUME NEW f \in File, RestoreDelete(f) PROVE RestoreInv'
    <3>1. CASE ucopied' = {} /\ UNCHANGED <<upc, ugoal, ulist>>
      BY Zenon, <2>k, <3>1 DEF RestoreInv
    <3>2. CASE UntrashifyFails
      BY <3>2 DEF UntrashifyFails, RestoreInv
    <3> QED
      BY Zenon, <2>3, <3>1, <3>2 DEF RestoreDelete
  <2>4. CASE UntrashifyDone
    BY Zenon, <2>k, <2>4 DEF UntrashifyDone, RestoreInv
  <2>5. CASE UntrashifyEnds
    BY Zenon, <2>5 DEF UntrashifyEnds, RestoreInv
  <2>6. CASE HandleUntrashifyFile
    BY <2>6 DEF HandleUntrashifyFile, RestoreInv, TrashInv
  <2> QED
    BY Zenon, <1>3, <2>1, <2>2, <2>3, <2>4, <2>5, <2>6 DEF UStep, Untrashify
<1> QED
  BY <1>1, <1>2, <1>3, SysSteps

\* HandleUntrashifyFile: when it reports success, all it has listed is back in
\* the regular tree, for any number of files, either back end and whatever a
\* prefix delete does to trash meanwhile, provided no vacuum runs.
THEOREM UntrashifyIsHonest ==
  VacuumApart("untrashify") => (SysSpec => []UntrashifyRestores)
<1> SUFFICES ASSUME VacuumApart("untrashify") PROVE SysSpec => []UntrashifyRestores
  BY Zenon
<1> DEFINE Inv == SysBase /\ NotWithUntrashify /\ RestoreInv
<1>1. SysInit => Inv
  BY SysBaseInit DEF SysInit, TrashInit, RestoreInv
<1>2. Inv /\ [SysNext]_sysVars => Inv'
  BY Zenon, SysBaseStep, UntrashifyApart, RestoreStep
<1>3. Inv => UntrashifyRestores
  BY DEF SysBase, TrashInv, RestoreInv, UntrashifyRestores
<1> QED
  BY <1>1, <1>2, <1>3, PTL DEF SysSpec

-----------------------------------------------------------------------------
(* Losing a file.                                                          *)

SysSafe == SysBase /\ NotWithUntrashify /\ NotWithDelete2 /\ CopiedInv /\ RestoreInv

\* No other procedure touches the copies a vacuum in progress relies on.
LEMMA SysCopiedStep ==
  ASSUME SysSafe, [SysNext]_sysVars
  PROVE  CopiedInv'
<1> USE DEF SysSafe, SysBase
<1>1. CASE VStep \/ UNCHANGED sysVars
  BY Zenon, <1>1, VStepNext, CopiedStep
<1>2. ASSUME vpc = "idle", UNCHANGED vacVars PROVE CopiedInv'
  BY Zenon, <1>2 DEF PassInv, Doomed, CopiedInv, vacVars
<1>3. ASSUME vpc # "idle", UStep \/ TStep
      PROVE  copied' = copied /\ \A g \in File : store'["trash"][g] = store["trash"][g]
  <2>1. upc # "move" /\ tlist = {}
    BY <1>3 DEF NotWithUntrashify, NotWithDelete2, TrashInv
  <2>2. UNCHANGED vacVars
    BY <1>3 DEF UStep, TStep
  <2>3. \A g \in File : store'["trash"][g] = store["trash"][g]
    BY Zenon, <1>3, <2>1, UEffect, TEffect DEF TypeInv
  <2> QED
    BY Zenon, <2>2, <2>3 DEF vacVars
<1>4. copied \subseteq File
  BY DEF TypeInv, TypeOK
<1>5. CASE UStep \/ TStep
  <2>1. UNCHANGED vacVars
    BY Zenon, <1>5 DEF UStep, TStep
  <2>2. CASE vpc # "idle"
    <3>1. copied' = copied /\ \A g \in File : store'["trash"][g] = store["trash"][g]
      BY Zenon, <1>3, <1>5, <2>2
    <3> QED
      BY Zenon, <1>4, <3>1 DEF CopiedInv, Exists
  <2> QED
    BY <1>2, <2>1, <2>2
<1> QED
  BY <1>1, <1>5, SysSteps

LEMMA SysSafeStep ==
  ASSUME VacuumApart("untrashify"), VacuumApart("delete2"), SysSafe, [SysNext]_sysVars
  PROVE  SysSafe'
BY Zenon, SysBaseStep, UntrashifyApart, Delete2Apart, SysCopiedStep, RestoreStep DEF SysSafe

\* The step behind LostOnlyOnPurpose.
LEMMA SysLostStep ==
  ASSUME SysSafe, [SysNext]_sysVars, NEW f \in File, Stored(f)
  PROVE  Stored(f)' \/ mode = "crazy" \/ f \in tlist
<1> USE DEF SysSafe, SysBase
<1>1. CASE VStep \/ UNCHANGED sysVars
  BY Zenon, <1>1, VStepNext, NothingLostStep DEF TypeInv
<1>2. CASE TStep
  <2>1. store'["reg"] = store["reg"] /\ (store'["trash"][f] = store["trash"][f] \/ f \in tlist)
    BY Zenon, <1>2, TEffect DEF TypeInv
  <2> QED
    BY <2>1 DEF Stored, Exists, Area
<1>3. CASE UStep
  <2>1. Exists("reg", f) => Exists("reg", f)'
    BY <1>3, UKeepsReg
  <2>2. \/ store'["trash"][f] = store["trash"][f]
        \/ upc = "move" /\ (f \in ucopied \/ store'["reg"][f] = store["trash"][f])
    BY Zenon, <1>3, UEffect DEF TypeInv
  <2>3. upc = "move" /\ f \in ucopied => Exists("reg", f)
    BY DEF TrashInv, RestoreInv
  <2> QED
    BY <2>1, <2>2, <2>3 DEF Stored, Exists, Area
<1> QED
  BY Zenon, <1>1, <1>2, <1>3, SysSteps

\* HandleDeleteGarbage, HandleUntrashifyFile and HandleDelete2Prefix: no run of
\* the three loses the last copy of a file unless that was asked for, whatever
\* calls fail and wherever the process dies, provided a vacuum is not run
\* together with either of the others.
THEOREM NothingIsLostTogether ==
  VacuumApart("untrashify") /\ VacuumApart("delete2") => (SysSpec => LostOnlyOnPurpose)
<1> SUFFICES ASSUME VacuumApart("untrashify"), VacuumApart("delete2")
             PROVE  SysSpec => LostOnlyOnPurpose
  BY Zenon
<1>1. SysInit => SysSafe
  BY SysBaseInit DEF SysInit, Init, TrashInit, SysSafe, RestoreInv, CopiedInv
<1>2. SysSafe /\ [SysNext]_sysVars => SysSafe'
  BY SysSafeStep
<1>3. SysSafe /\ [SysNext]_sysVars
        => [\A f \in File : Stored(f) => Stored(f)' \/ mode = "crazy" \/ f \in tlist]_sysVars
  BY SMTT(30), SysLostStep
<1> QED
  BY <1>1, <1>2, <1>3, PTL DEF SysSpec, LostOnlyOnPurpose

-----------------------------------------------------------------------------
(* The retention of trash.                                                 *)

\* Of two multiples of g the greater one is greater by at least g.
LEMMA MultiplesApart ==
  ASSUME NEW g \in Nat, g > 0, NEW a \in Int, NEW b \in Int, g * a < g * b
  PROVE  g * a + g <= g * b
<1>0. g * a \in Int /\ g * b \in Int
  OBVIOUS
<1>1. a < b
  <2> SUFFICES ASSUME b <= a PROVE FALSE
    OBVIOUS
  <2>1. PICK d \in Nat : a = b + d
    <3>1. a - b \in Nat /\ a = b + (a - b)
      OBVIOUS
    <3> QED
      BY <3>1
  <2>2. g * a = g * b + g * d /\ g * d \in Nat
    BY <2>1
  <2> QED
    BY <1>0, <2>2
<1>2. PICK d \in Nat : b = (a + 1) + d
  <2>1. b - (a + 1) \in Nat /\ b = (a + 1) + (b - (a + 1))
    BY <1>1
  <2> QED
    BY <2>1
<1>3. g * b = g * a + g + g * d
  BY <1>2
<1>4. g * d \in Nat
  OBVIOUS
<1> QED
  BY <1>0, <1>3, <1>4

\* A time stamp is a multiple of the granularity.
LEMMA StampMultiple ==
  ASSUME NEW t \in Nat
  PROVE  \E q \in Int : Stamp(t) = Gran * q
<1>1. t = Gran * (t \div Gran) + (t % Gran)
  BY ClusterAssumption
<1>2. t \div Gran \in Int /\ t % Gran \in Int
  BY ClusterAssumption
<1>3. Gran * (t \div Gran) \in Int
  BY <1>2, ClusterAssumption
<1>4. Stamp(t) = Gran * (t \div Gran)
  BY <1>1, <1>2, <1>3 DEF Stamp
<1> QED
  BY <1>2, <1>4

LEMMA StampMonotone ==
  ASSUME NEW a \in Nat, NEW b \in Nat, a <= b
  PROVE  Stamp(a) <= Stamp(b)
<1> SUFFICES ASSUME Stamp(b) < Stamp(a) PROVE FALSE
  BY StampBounds
<1>1. PICK p \in Int : Stamp(a) = Gran * p
  BY StampMultiple
<1>2. PICK q \in Int : Stamp(b) = Gran * q
  BY Zenon, StampMultiple
<1>3. Gran \in Nat /\ Gran > 0 /\ Gran * q < Gran * p
  BY <1>1, <1>2, ClusterAssumption
<1>4. Stamp(b) + Gran <= Stamp(a)
  BY Zenon, <1>1, <1>2, <1>3, MultiplesApart
<1> QED
  BY <1>4, StampBounds, ClusterAssumption

\* The filter of DeletePrefixInBucket: when the stamps, which have lost a
\* fraction, are more than the retention apart, so are the instants.
LEMMA StampsApart ==
  ASSUME NEW a \in Nat, NEW l \in Nat, NEW n \in Nat,
         Stamp(a) <= l, Stamp(l + Retention) < Stamp(n)
  PROVE  n > a + Retention
<1> USE ClusterAssumption, TrashAssumption
<1>1. PICK p \in Int : Stamp(a) = Gran * p
  BY Zenon, StampMultiple
<1>2. PICK q \in Int : Stamp(l + Retention) = Gran * q
  <2>1. l + Retention \in Nat
    OBVIOUS
  <2> QED
    BY Zenon, <2>1, StampMultiple
<1>3. PICK s \in Int : Stamp(n) = Gran * s
  BY Zenon, StampMultiple
<1>4. PICK r \in Int : Retention = Gran * r
  <2>1. Retention = Gran * (Retention \div Gran) + (Retention % Gran)
    OBVIOUS
  <2>2. Retention \div Gran \in Int
    OBVIOUS
  <2> QED
    BY <2>1, <2>2
<1>5. /\ Stamp(a) \in Nat /\ a < Stamp(a) + Gran
      /\ Stamp(n) \in Nat /\ Stamp(n) <= n
      /\ Stamp(l + Retention) \in Nat /\ l + Retention < Stamp(l + Retention) + Gran
  BY StampBounds
<1>6. Stamp(l + Retention) + Gran <= Stamp(n)
  <2>1. Gran \in Nat /\ Gran > 0 /\ Gran * q < Gran * s
    BY <1>2, <1>3
  <2> QED
    BY Zenon, <1>2, <1>3, <2>1, MultiplesApart
<1>7. Stamp(a) + Retention <= Stamp(l + Retention)
  <2> SUFFICES ASSUME Stamp(l + Retention) < Stamp(a) + Retention PROVE FALSE
    BY <1>5
  <2>1. Stamp(a) + Retention = Gran * (p + r)
    BY <1>1, <1>4
  <2>2. Gran \in Nat /\ Gran > 0 /\ p + r \in Int /\ Gran * q < Gran * (p + r)
    BY <1>2, <2>1
  <2>3. Stamp(l + Retention) + Gran <= Stamp(a) + Retention
    BY Zenon, <1>2, <2>1, <2>2, MultiplesApart
  <2> QED
    BY <1>5, <2>3
<1> QED
  BY <1>5, <1>6, <1>7

\* What a prefix delete has listed and chosen agrees with how long the objects
\* that are in trash have been there.
RetentionInv ==
  \A f \in File :
    /\ trashed[f] \in Nat /\ trashed[f] <= now
    /\ Exists("trash", f) =>
         /\ Stamp(trashed[f]) <= store["trash"][f]
         /\ tpc = "uploads" /\ tarea = "trash" /\ tlisted[f] # NoObj
              => Stamp(trashed[f]) <= tlisted[f]
         /\ f \in tlist \cup tfailed => now > trashed[f] + Retention

LEMMA ClockGrows ==
  ASSUME TypeOK, [Next]_vars
  PROVE  now' \in Nat /\ now <= now'
<1> USE DEF TypeOK, ClusterTypeOK
<1>1. CASE UNCHANGED now
  BY SMTT(60), <1>1, ClusterAssumption
<1>2. CASE Tick
  BY <1>2, ClusterAssumption DEF Tick
<1>3. CASE Sessions
  BY Zenon, <1>1, <1>2, <1>3 DEF Sessions, BeginPut, PutFileToDest, CommitRow, AbortRow, DropRow,
     TakeBackup, RetireBackup
<1>4. CASE \E f \in File : Work(f)
  BY Zenon, <1>1, <1>4, WorkEffect
<1> QED
  BY ZenonT(60), <1>1, <1>3, <1>4 DEF Next, Handler, DeleteGarbage, ListBackups, GetFirstLSN,
     ListBucketPath, ReadExpireHint, ReadVirtualIndex, StartRemoval, CallFails, EndPass,
     AbortUploads, Reply, Crash, vars, clusterVars

\* What a prefix delete comes to know in a step.
LEMMA Delete2Moves ==
  ASSUME TypeOK, TrashInv, TStep, NEW f \in File
  PROVE  /\ \/ tpc' # "uploads"
            \/ \E a \in Area : tarea' = a /\ tlisted' = store[a] /\ store' = store
         /\ \/ f \in tlist' \cup tfailed' => f \in tlist \cup tfailed
            \/ tpc = "uploads" /\ tarea = "trash" /\ Expired(f)
<1>1. CASE DeletePrefixInBucket
  BY Zenon, <1>1 DEF DeletePrefixInBucket
<1>2. ASSUME NEW g \in File, TrashDelete(g)
      PROVE  tpc' # "uploads" /\ (f \in tlist' \cup tfailed' => f \in tlist \cup tfailed)
  BY Zenon, <1>2 DEF TrashDelete
<1>3. CASE TrashEndPass
  BY Zenon, <1>3 DEF TrashEndPass
<1>4. CASE TrashAbortUploads
  BY Zenon, <1>4 DEF TrashAbortUploads
<1>5. CASE Delete2Ends
  BY Zenon, <1>5 DEF Delete2Ends
<1>6. CASE ListDelete2Files
  BY <1>6 DEF ListDelete2Files, clusterVars
<1> QED
  BY Zenon, <1>1, <1>2, <1>3, <1>4, <1>5, <1>6 DEF TStep, Delete2

LEMMA RetentionStep ==
  ASSUME Backend = "s3", SysBase, NotWithDelete2, RetentionInv, [SysNext]_sysVars
  PROVE  RetentionInv'
<1> USE DEF SysBase
<1>t. TypeOK /\ now \in Nat /\ store \in [Area -> [File -> Int]] /\ tlisted \in [File -> Int]
  BY ClusterAssumption DEF TypeInv, TypeOK, ClusterTypeOK, TrashInv
<1>r. Retention \in Nat
  BY ZenonT(60), TrashAssumption
<1>1. CASE UNCHANGED sysVars
  BY Zenon, <1>1 DEF sysVars, vars, clusterVars, trashVars, tVars, RetentionInv, Exists
<1>2. CASE VStep /\ Record
  <2>1. [Next]_vars /\ UNCHANGED tVars
    BY Zenon, <1>2, VStepNext DEF trashVars
  <2>2. now' \in Nat /\ now <= now'
    BY Zenon, <1>t, <2>1, ClockGrows
  <2>3. tpc = "uploads" \/ tlist \cup tfailed # {} => vpc # "pass"
    BY Zenon DEF NotWithDelete2, TrashInv
  <2> SUFFICES ASSUME NEW f \in File
               PROVE  /\ trashed'[f] \in Nat /\ trashed'[f] <= now'
                      /\ Exists("trash", f)' =>
                           /\ Stamp(trashed'[f]) <= store'["trash"][f]
                           /\ tpc = "uploads" /\ tarea = "trash" /\ tlisted[f] # NoObj
                                => Stamp(trashed'[f]) <= tlisted[f]
                           /\ f \in tlist \cup tfailed => now' > trashed'[f] + Retention
    BY Zenon, <2>1 DEF RetentionInv, tVars, Exists, Stamp
  <2>4. trashed'[f] = IF ~Exists("trash", f) /\ Exists("trash", f)' THEN now ELSE trashed[f]
    BY ZenonT(60), <1>2 DEF Record
  <2>5. trashed[f] \in Nat /\ trashed[f] <= now
    BY Zenon DEF RetentionInv
  <2>6. CASE store'["trash"][f] = store["trash"][f]
    <3>1. trashed'[f] = trashed[f]
      BY <2>4, <2>6 DEF Exists
    <3> QED
      <4>1. ASSUME now > trashed[f] + Retention PROVE now' > trashed[f] + Retention
        BY <1>r, <1>t, <2>2, <2>5, <4>1
      <4>2. trashed[f] <= now'
        BY <1>t, <2>2, <2>5
      <4>3. Exists("trash", f)' <=> Exists("trash", f)
        BY Zenon, <2>6 DEF Exists
      <4> QED
        BY Zenon, <2>5, <2>6, <3>1, <4>1, <4>2, <4>3 DEF RetentionInv
  <2>7. CASE vpc = "pass" /\ store'["trash"][f] = Stamp(now)
    <3>1. Stamp(trashed[f]) <= Stamp(now)
      BY Zenon, <1>t, <2>5, StampMonotone
    <3>2. Stamp(now) \in Int
      BY SMTT(60), <1>t, StampBounds
    <3>3. Stamp(trashed'[f]) <= store'["trash"][f]
      BY SMTT(30), <2>4, <2>7, <3>1, <3>2
    <3>4. trashed'[f] = now \/ trashed'[f] = trashed[f]
      BY Zenon, <2>4
    <3>5. trashed'[f] \in Nat /\ trashed'[f] <= now'
      BY <1>t, <2>2, <2>5, <3>4
    <3>6. tpc # "uploads" /\ f \notin tlist \cup tfailed
      BY Zenon, <2>3, <2>7
    <3> QED
      BY Zenon, <3>3, <3>5, <3>6
  <2> QED
    BY Zenon, <1>t, <2>1, <2>6, <2>7, VEffect
<1>3. CASE UStep /\ Record
  <2>1. now' = now /\ UNCHANGED tVars
        /\ \A f \in File : store'["trash"][f] \in {store["trash"][f], NoObj}
    BY Zenon, <1>3, <1>t, UEffect
  <2>2. \A f \in File : trashed'[f] = trashed[f]
    BY Zenon, <1>3, <2>1 DEF Record, Exists
  <2> QED
    BY Zenon, <2>1, <2>2 DEF RetentionInv, tVars, Exists
<1>4. CASE TStep /\ Record
  <2>1. now' = now
        /\ \A f \in File : store'["trash"][f] \in {store["trash"][f], NoObj}
    BY Zenon, <1>4, <1>t, TEffect
  <2>2. \A f \in File : trashed'[f] = trashed[f]
    BY Zenon, <1>4, <2>1 DEF Record, Exists
  <2> SUFFICES ASSUME NEW f \in File, Exists("trash", f)'
               PROVE  /\ Stamp(trashed[f]) <= store'["trash"][f]
                      /\ tpc' = "uploads" /\ tarea' = "trash" /\ tlisted'[f] # NoObj
                           => Stamp(trashed[f]) <= tlisted'[f]
                      /\ f \in tlist' \cup tfailed' => now > trashed[f] + Retention
    BY Zenon, <2>1, <2>2 DEF RetentionInv, Exists, Stamp
  <2>3. Exists("trash", f) /\ store'["trash"][f] = store["trash"][f]
    BY Zenon, <2>1 DEF Exists
  <2>4. Stamp(trashed[f]) <= store["trash"][f] /\ trashed[f] \in Nat
    BY Zenon, <2>3 DEF RetentionInv
  <2>5. tpc' = "uploads" /\ tarea' = "trash" => tlisted'[f] = store["trash"][f]
    BY Zenon, <1>4, <1>t, Delete2Moves
  <2>6. ASSUME tpc = "uploads", tarea = "trash", Expired(f) PROVE now > trashed[f] + Retention
    <3>1. Stamp(trashed[f]) <= tlisted[f] /\ Stamp(tlisted[f] + Retention) < Stamp(now)
      BY Zenon, <2>3, <2>6 DEF RetentionInv, Expired
    <3>2. tlisted[f] \in Nat
      BY SMTT(60), <1>t, <2>4, <3>1, StampBounds
    <3> QED
      BY Zenon, <1>t, <2>4, <3>1, <3>2, StampsApart
  <2>7. f \in tlist' \cup tfailed' => now > trashed[f] + Retention
    BY <1>4, <1>t, <2>3, <2>6, Delete2Moves DEF RetentionInv
  <2> QED
    BY Zenon, <2>3, <2>4, <2>5, <2>7
<1> QED
  BY ZenonT(60), <1>1, <1>2, <1>3, <1>4, SysSteps

\* DeletePrefixInBucket on S3: whatever the granularity of LastMod, no object
\* is deleted before it has been in trash for longer than
\* vacuum.trash_retention_days, provided no vacuum runs between the listing and
\* the delete.
THEOREM RetentionIsHonoured ==
  Backend = "s3" /\ VacuumApart("delete2") => (SysSpec => RetentionHonoured)
<1> SUFFICES ASSUME Backend = "s3", VacuumApart("delete2")
             PROVE  SysSpec => RetentionHonoured
  BY ZenonT(60)
<1> DEFINE Inv == SysBase /\ NotWithDelete2 /\ RetentionInv
<1>1. SysInit => Inv
  BY SysBaseInit DEF SysInit, Init, ClusterInit, TrashInit, RetentionInv, Exists, Area
<1>2. Inv /\ [SysNext]_sysVars => Inv'
  BY Zenon, SysBaseStep, Delete2Apart, RetentionStep
<1>3. Inv => \A f \in File :
               Exists("trash", f) /\ tpc = "pass" /\ f \in tlist /\ f \notin tlist'
                 => Exists("trash", f)' \/ now > trashed[f] + Retention
  BY Zenon DEF RetentionInv
<1> QED
  BY <1>1, <1>2, <1>3, PTL DEF SysSpec, RetentionHonoured
=============================================================================
