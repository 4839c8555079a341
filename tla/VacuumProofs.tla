---------------------------- MODULE VacuumProofs ----------------------------
(***************************************************************************)
(* Proofs about Vacuum, for every set of files, every bound and every      *)
(* setting of the configuration allowed by the assumptions.                *)
(***************************************************************************)
EXTENDS Vacuum, TLAPS

\* The truncation of LastMod loses less than one unit of its granularity.
LEMMA StampBounds ==
  ASSUME NEW t \in Nat
  PROVE  Stamp(t) \in 0..t /\ t - Gran < Stamp(t)
BY ClusterAssumption DEF Stamp

-----------------------------------------------------------------------------
(* Type correctness.                                                       *)

\* Init gives every variable a value of its type.
LEMMA InitType == Init => TypeOK
<1> SUFFICES ASSUME Init PROVE TypeOK
  OBVIOUS
<1> USE ClusterAssumption, VacuumAssumption DEF Init, NoLsn, NoObj
<1>1. store \in [Area -> [File -> Int]]
  BY DEF ClusterInit
<1>2. backups \subseteq 0..MaxLsn /\ phase \in [File -> Phase]
  BY DEF ClusterInit, Phase
<1>3. began \in [File -> 0..MaxTime] /\ hint \in [File -> Int]
  BY DEF ClusterInit
<1>4. ClusterTypeOK
  BY <1>1, <1>2, <1>3 DEF ClusterInit, ClusterTypeOK
<1>5. listed \in [File -> Int] /\ ei \in [File -> Int]
  BY DEF NoFiles, NoHints
<1> QED
  BY <1>4, <1>5 DEF TypeOK, Pc, Mode, NoBackupLSN

\* The sessions keep the store, the indexes and the backups well typed.
LEMMA SessionsType == TypeOK /\ Sessions => ClusterTypeOK'
<1> SUFFICES ASSUME TypeOK, Sessions PROVE ClusterTypeOK'
  OBVIOUS
<1> USE ClusterAssumption DEF TypeOK, ClusterTypeOK
<1>1. CASE Tick
  BY <1>1 DEF Tick
<1>2. ASSUME NEW f \in File, BeginPut(f) PROVE ClusterTypeOK'
  <2>1. Stamp(now) \in Int
    BY StampBounds
  <2> QED
    BY <1>2, <2>1 DEF BeginPut, Area, Phase
<1>3. ASSUME NEW f \in File, PutFileToDest(f) PROVE ClusterTypeOK'
  <2>1. \A t \in began[f]..now : Stamp(t) \in Int
    BY StampBounds
  <2> QED
    BY <1>3, <2>1 DEF PutFileToDest, Area, Phase
<1>4. ASSUME NEW f \in File, CommitRow(f) PROVE ClusterTypeOK'
  BY <1>4 DEF CommitRow, Phase
<1>5. ASSUME NEW f \in File, AbortRow(f) PROVE ClusterTypeOK'
  BY <1>5 DEF AbortRow, Phase
<1>6. ASSUME NEW f \in File, DropRow(f) PROVE ClusterTypeOK'
  BY <1>6 DEF DropRow
<1>7. CASE TakeBackup
  BY <1>7 DEF TakeBackup
<1>8. CASE RetireBackup
  BY Zenon, <1>8 DEF RetireBackup
<1> QED
  BY <1>1, <1>2, <1>3, <1>4, <1>5, <1>6, <1>7, <1>8 DEF Sessions

\* A worker keeps the store and the lists of files well typed.
LEMMA WorkType ==
  ASSUME TypeOK, NEW f \in File, Work(f)
  PROVE  TypeOK'
<1> USE ClusterAssumption, VacuumAssumption
    DEF TypeOK, ClusterTypeOK, reqVars, readVars, Finish, Area
<1>0. Stamp(now) \in Int
  BY StampBounds
<1>1. CASE CrazyDelete(f)
  BY <1>1 DEF CrazyDelete, DeleteObject, NoObj
<1>2. CASE MoveByRename(f)
  BY <1>2 DEF MoveByRename, Rename, NoObj
<1>3. CASE MoveCopy(f)
  BY <1>0, <1>3 DEF MoveCopy, SScopyObject
<1>4. CASE MoveDelete(f)
  BY SMTT(30), <1>4 DEF MoveDelete, DeleteObject, NoObj
<1> QED
  BY <1>1, <1>2, <1>3, <1>4 DEF Work, MoveObject

\* The types, and what bounds the counter of passes.
TypeInv == TypeOK /\ (vpc = "pass" => retryCount < MaxRetry)

\* Every step preserves the types.
LEMMA NextType == TypeInv /\ [Next]_vars => TypeInv'
<1> SUFFICES ASSUME TypeOK, vpc = "pass" => retryCount < MaxRetry,
                    [Next]_vars
             PROVE  TypeInv'
  BY DEF TypeInv
<1> USE ClusterAssumption, VacuumAssumption
    DEF TypeInv, TypeOK, clusterVars, reqVars, readVars, Pc
<1>1. CASE DeleteGarbage
  BY <1>1 DEF DeleteGarbage, ClusterTypeOK
<1>2. CASE ListBackups
  BY <1>2 DEF ListBackups, ClusterTypeOK
<1>3. CASE GetFirstLSN
  <2>1. firstLSN' = NoBackupLSN \/ firstLSN' \in sentinels
    BY Zenon, <1>3 DEF GetFirstLSN
  <2>2. firstLSN' \in 0..NoBackupLSN
    <3>1. CASE firstLSN' = NoBackupLSN
      BY <3>1 DEF NoBackupLSN
    <3>2. CASE firstLSN' \in sentinels
      <4>1. firstLSN' \in 0..MaxLsn
        BY <3>2
      <4> QED
        BY <4>1 DEF NoBackupLSN
    <3> QED
      BY <2>1, <3>1, <3>2
  <2> QED
    BY <1>3, <2>2 DEF GetFirstLSN, ClusterTypeOK
<1>4. CASE ListBucketPath
  BY <1>4 DEF ListBucketPath, ClusterTypeOK, Area
<1>5. CASE ReadExpireHint
  <2>1. ei' \in [File -> Int]
    BY <1>5 DEF ReadExpireHint, ClusterTypeOK, NoHints, NoLsn
  <2>2. vpc' = "index" /\ UNCHANGED <<clusterVars, reqVars, sentinels,
                        firstLSN, listed, chosen, fileList, copied, failed,
                        retryCount>>
    BY <1>5 DEF ReadExpireHint
  <2> QED
    BY <2>1, <2>2 DEF ClusterTypeOK
<1>6. CASE ReadVirtualIndex
  BY <1>6 DEF ReadVirtualIndex, FilesToDelete, ClusterTypeOK, NoHints, NoLsn,
              NoBackupLSN
<1>7. CASE StartRemoval
  BY <1>7 DEF StartRemoval, ClusterTypeOK
<1>8. CASE CallFails
  BY <1>8 DEF CallFails, ClusterTypeOK
<1>9. ASSUME NEW f \in File, Work(f) PROVE TypeInv'
  <2>1. vpc' = vpc /\ retryCount' = retryCount
    BY Zenon, <1>9 DEF Work, CrazyDelete, MoveObject, MoveByRename, MoveCopy,
       MoveDelete
  <2> QED
    BY <1>9, <2>1, WorkType
<1>10. CASE EndPass
  BY <1>10 DEF EndPass, Retry, ClusterTypeOK
<1>11. CASE AbortUploads
  BY <1>11 DEF AbortUploads, ClusterTypeOK
<1>12. CASE Reply
  BY <1>12 DEF Reply, Forget, ClusterTypeOK, NoFiles, NoHints, NoObj, NoLsn,
               NoBackupLSN, Mode
<1>13. CASE Crash
  BY <1>13 DEF Crash, Forget, ClusterTypeOK, NoFiles, NoHints, NoObj, NoLsn,
               NoBackupLSN, Mode
<1>14. CASE Sessions /\ UNCHANGED vacVars
  BY Zenon, <1>14, SessionsType DEF vacVars
<1>15. CASE UNCHANGED vars
  BY <1>15 DEF vars, vacVars, ClusterTypeOK
<1> QED
  BY Zenon, <1>1, <1>2, <1>3, <1>4, <1>5, <1>6, <1>7, <1>8, <1>9, <1>10, <1>11,
     <1>12, <1>13, <1>14, <1>15 DEF Next, Handler

\* Every variable keeps its type: in particular no run makes more than
\* MaxRetry passes and the LSN taken from the backups is a real one or the
\* largest number.
THEOREM TypeCorrect == Spec => []TypeOK
<1>1. Init => TypeInv
  BY InitType DEF Init, TypeInv
<1>2. TypeInv => TypeOK
  BY Zenon DEF TypeInv
<1> QED
  BY <1>1, <1>2, NextType, PTL DEF Spec

-----------------------------------------------------------------------------
(* Live files.                                                             *)

Writing(f) == phase[f] \in {"uploading", "uploaded"}
Visible(f) == phase[f] = "uploaded" \/ Backend = "fs"

\* What is known of a file nobody has finished writing: its objects, stored
\* or listed, are not older than its upload, up to the granularity of
\* LastMod; S3 shows nothing of an upload in progress.
WriterInv ==
  \A f \in File :
    /\ phase[f] = "new" => ~ Exists("reg", f) /\ listed[f] = NoObj
    /\ Writing(f) =>
         /\ began[f] <= now
         /\ Exists("reg", f) =>
              Visible(f) /\ began[f] - Gran < store["reg"][f]
         /\ listed[f] # NoObj =>
              Visible(f) /\ began[f] - Gran < listed[f]
    /\ f \in vi \/ hint[f] # NoLsn => phase[f] = "done"

Undecided == {"idle", "backups", "sentinels", "list", "hint", "index"}

\* The files still to be removed are among those that were chosen, and there
\* are some only during a pass.
PassInv ==
  /\ Doomed \subseteq chosen
  /\ vpc # "pass" => Doomed = {}
  /\ vpc \in Undecided => chosen = {}
  /\ \A f \in chosen : listed[f] # NoObj
  /\ procStart <= now

\* A file that was chosen is not in the virtual index, and never will be:
\* the session that wrote it has run out of time.
ChosenInv ==
  \A f \in chosen : f \notin vi /\ (Writing(f) => began[f] + WriteTime < now)

\* A file that is, or may still get, in the virtual index is in the store.
PresentInv ==
  \A f \in File :
    \/ f \in vi
    \/ Writing(f) /\ Visible(f) /\ now <= began[f] + WriteTime
    => Exists("reg", f)

LiveInv == TypeInv /\ WriterInv /\ PassInv /\ ChosenInv /\ PresentInv

\* A worker removes from the regular tree nothing but the file it works on,
\* which is one of those to be removed.
LEMMA WorkEffect ==
  ASSUME TypeOK, NEW f \in File, Work(f)
  PROVE  /\ UNCHANGED <<now, wal, vi, hint, backups, phase, began, vpc, mode,
                        procStart, sentinels, firstLSN, listed, ei, chosen>>
         /\ vpc = "pass" /\ f \in Doomed /\ Doomed' \subseteq Doomed
         /\ \A g \in File :
              \/ store'["reg"][g] = store["reg"][g]
              \/ g = f /\ store'["reg"][g] = NoObj
<1> USE DEF TypeOK, ClusterTypeOK, reqVars, readVars, Doomed, Area
<1>1. CASE CrazyDelete(f)
  BY <1>1 DEF CrazyDelete, DeleteObject, Finish
<1>2. CASE MoveByRename(f)
  BY <1>2 DEF MoveByRename, Rename, Finish
<1>3. CASE MoveCopy(f)
  BY <1>3 DEF MoveCopy, SScopyObject, Finish
<1>4. CASE MoveDelete(f)
  BY ZenonT(60), <1>4 DEF MoveDelete, DeleteObject
<1> QED
  BY Zenon, <1>1, <1>2, <1>3, <1>4 DEF Work, MoveObject

\* The facts about writers survive every step.
LEMMA WriterStep == TypeInv /\ WriterInv /\ [Next]_vars => WriterInv'
<1> SUFFICES ASSUME TypeOK, WriterInv, [Next]_vars
             PROVE  WriterInv'
  BY Zenon DEF TypeInv
<1> USE DEF WriterInv, Writing, Visible, Exists
<1>1. CASE DeleteGarbage \/ ListBackups \/ GetFirstLSN \/ ReadExpireHint
           \/ ReadVirtualIndex \/ StartRemoval \/ CallFails \/ EndPass
           \/ AbortUploads \/ UNCHANGED vars
  <2>1. UNCHANGED <<clusterVars, listed>>
    BY SMTT(30), <1>1 DEF DeleteGarbage, ListBackups, GetFirstLSN, ReadExpireHint,
       ReadVirtualIndex, StartRemoval, CallFails, EndPass, AbortUploads,
       readVars, vars, vacVars
  <2> QED
    BY ZenonT(60), <2>1 DEF clusterVars
<1>2. CASE ListBucketPath
  BY Zenon, <1>2 DEF ListBucketPath, clusterVars
<1>3. ASSUME NEW f \in File, Work(f) PROVE WriterInv'
  BY ZenonT(60), <1>3, WorkEffect
<1>4. CASE Reply \/ Crash
  <2>1. UNCHANGED clusterVars /\ listed' = NoFiles
    BY SMTT(30), <1>4 DEF Reply, Crash, Forget
  <2> QED
    BY <2>1 DEF clusterVars, NoFiles
<1>5. CASE Sessions /\ UNCHANGED vacVars
  <2> USE DEF TypeOK, ClusterTypeOK, Area
  <2>0. UNCHANGED listed
    BY <1>5 DEF vacVars
  <2>1. CASE Tick
    BY <2>0, <2>1 DEF Tick
  <2>2. ASSUME NEW f \in File, BeginPut(f) PROVE WriterInv'
    <3>1. began'[f] = now /\ now' = now
      BY <2>2 DEF BeginPut
    <3>2. Stamp(now) \in Int /\ now - Gran < Stamp(now)
      BY StampBounds
    <3> QED
      BY <2>0, <2>2, <3>1, <3>2 DEF BeginPut
  <2>3. ASSUME NEW f \in File, PutFileToDest(f) PROVE WriterInv'
    <3>1. PICK t \in began[f]..now :
            store' = IF Backend = "fs" /\ ~ Exists("reg", f) THEN store
                     ELSE [store EXCEPT !["reg"][f] = Stamp(t)]
      BY Zenon, <2>3 DEF PutFileToDest
    <3>2. Stamp(t) \in Int /\ t - Gran < Stamp(t)
      BY StampBounds
    <3>3. began[f] - Gran < Stamp(t)
      BY <3>2, ClusterAssumption
    <3> QED
      BY <2>0, <2>3, <3>1, <3>2, <3>3 DEF PutFileToDest
  <2>4. ASSUME NEW f \in File, CommitRow(f) PROVE WriterInv'
    BY Zenon, <2>0, <2>4 DEF CommitRow
  <2>5. ASSUME NEW f \in File, AbortRow(f) PROVE WriterInv'
    BY Zenon, <2>0, <2>5 DEF AbortRow
  <2>6. ASSUME NEW f \in File, DropRow(f) PROVE WriterInv'
    BY Zenon, <2>0, <2>6 DEF DropRow
  <2>7. CASE TakeBackup
    BY Zenon, <2>0, <2>7 DEF TakeBackup
  <2>8. CASE RetireBackup
    BY Zenon, <2>0, <2>8 DEF RetireBackup
  <2> QED
    BY Zenon, <1>5, <2>1, <2>2, <2>3, <2>4, <2>5, <2>6, <2>7, <2>8 DEF Sessions
<1> QED
  BY <1>1, <1>2, <1>3, <1>4, <1>5 DEF Next, Handler

\* The passes work on files that were chosen from the listing.
LEMMA PassStep == TypeInv /\ PassInv /\ [Next]_vars => PassInv'
<1> SUFFICES ASSUME TypeOK, PassInv, [Next]_vars
             PROVE  PassInv'
  BY DEF TypeInv
<1> USE DEF PassInv, Doomed, Undecided
<1>1. CASE DeleteGarbage
  BY <1>1 DEF DeleteGarbage, clusterVars, readVars, TypeOK, ClusterTypeOK
<1>2. CASE ListBackups \/ GetFirstLSN \/ ReadExpireHint
  <2>1. /\ UNCHANGED <<listed, chosen, fileList, copied, failed, procStart, now>>
        /\ vpc \in Undecided /\ vpc' \in Undecided
    BY <1>2 DEF ListBackups, GetFirstLSN, ReadExpireHint, reqVars, clusterVars
  <2> QED
    BY Zenon, <2>1
<1>3. CASE ListBucketPath
  BY ZenonT(60), <1>3 DEF ListBucketPath, clusterVars, reqVars
<1>4. CASE ReadVirtualIndex
  BY <1>4 DEF ReadVirtualIndex, FilesToDelete, clusterVars, reqVars
<1>5. CASE StartRemoval
  BY <1>5 DEF StartRemoval, clusterVars, reqVars, readVars
<1>6. CASE CallFails \/ AbortUploads
  BY Zenon, <1>6 DEF CallFails, AbortUploads, Reading, clusterVars, reqVars, readVars
<1>7. ASSUME NEW f \in File, Work(f) PROVE PassInv'
  BY <1>7, WorkEffect
<1>8. CASE EndPass
  BY Zenon, <1>8 DEF EndPass, clusterVars, reqVars, readVars
<1>9. CASE Reply \/ Crash
  BY <1>9 DEF Reply, Crash, Forget, clusterVars, TypeOK, ClusterTypeOK
<1>10. CASE Sessions /\ UNCHANGED vacVars
  <2>1. now' \in {now, now + 1}
    BY <1>10 DEF Sessions, Tick, BeginPut, PutFileToDest, CommitRow, AbortRow,
                 DropRow, TakeBackup, RetireBackup
  <2> QED
    BY SMTT(60), <1>10, <2>1 DEF vacVars, TypeOK, ClusterTypeOK
<1>11. CASE UNCHANGED vars
  BY ZenonT(60), <1>11 DEF vars, vacVars, clusterVars
<1> QED
  BY Zenon, <1>1, <1>2, <1>3, <1>4, <1>5, <1>6, <1>7, <1>8, <1>9, <1>10, <1>11
     DEF Next, Handler

\* The protection window covers the time a session takes from the start of an
\* upload to its commit, and the virtual index is read completely.
WindowCoversWriters == "rows" \notin Disturb /\ WriteTime + Gran <= Window

\* Under that condition no file is chosen that a table uses or will use.
LEMMA ChosenStep ==
  WindowCoversWriters /\ LiveInv /\ [Next]_vars => ChosenInv'
<1> SUFFICES ASSUME WindowCoversWriters, TypeOK, WriterInv, PassInv,
                    ChosenInv, [Next]_vars
             PROVE  ChosenInv'
  BY DEF LiveInv, TypeInv
<1> USE DEF ChosenInv, Writing
<1>1. CASE DeleteGarbage \/ ListBackups \/ GetFirstLSN \/ ListBucketPath
           \/ ReadExpireHint \/ StartRemoval \/ CallFails \/ EndPass
           \/ AbortUploads \/ UNCHANGED vars
  <2>1. UNCHANGED <<clusterVars, chosen>>
    BY <1>1 DEF DeleteGarbage, ListBackups, GetFirstLSN, ListBucketPath,
       ReadExpireHint, StartRemoval, CallFails, EndPass, AbortUploads, vars,
       vacVars
  <2> QED
    BY ZenonT(60), <2>1 DEF clusterVars
<1>2. CASE ReadVirtualIndex
  <2>1. UNCHANGED clusterVars /\ chosen' = FilesToDelete(vi)
    BY Zenon, <1>2 DEF ReadVirtualIndex, WindowCoversWriters
  <2>2. SUFFICES ASSUME NEW f \in FilesToDelete(vi)
                 PROVE  f \notin vi /\ (Writing(f) => began[f] + WriteTime < now)
    BY Zenon, <2>1 DEF clusterVars
  <2>3. /\ f \in File /\ f \notin vi /\ listed[f] # NoObj
        /\ ~ (listed[f] > procStart - Window)
    BY DEF FilesToDelete
  <2>4. ASSUME Writing(f) PROVE began[f] + WriteTime < now
    <3>1. began[f] - Gran < listed[f]
      BY Zenon, <2>3, <2>4 DEF WriterInv
    <3>2. procStart <= now
      BY DEF PassInv
    <3>3. began[f] \in Int /\ listed[f] \in Int /\ procStart \in Int
          /\ now \in Int /\ Window \in Int
      BY SMTT(60), <2>3, VacuumAssumption DEF TypeOK, ClusterTypeOK, Window
    <3> QED
      BY SMTT(60), <2>3, <3>1, <3>2, <3>3, ClusterAssumption DEF WindowCoversWriters
  <2> QED
    BY Zenon, <2>3, <2>4
<1>3. ASSUME NEW f \in File, Work(f) PROVE ChosenInv'
  BY <1>3, WorkEffect
<1>4. CASE Reply \/ Crash
  BY Zenon, <1>4 DEF Reply, Crash, Forget
<1>5. CASE Sessions /\ UNCHANGED vacVars
  <2> USE ClusterAssumption DEF TypeOK, ClusterTypeOK
  <2>0. UNCHANGED chosen
    BY Zenon, <1>5 DEF vacVars
  <2>1. CASE Tick
    BY <2>0, <2>1 DEF Tick
  <2>2. ASSUME NEW f \in File, BeginPut(f) PROVE ChosenInv'
    <3>1. f \notin chosen
      BY Zenon, <2>2 DEF BeginPut, WriterInv, PassInv
    <3> QED
      BY Zenon, <2>0, <2>2, <3>1 DEF BeginPut
  <2>3. ASSUME NEW f \in File, PutFileToDest(f) PROVE ChosenInv'
    BY Zenon, <2>0, <2>3 DEF PutFileToDest
  <2>4. ASSUME NEW f \in File, CommitRow(f) PROVE ChosenInv'
    <3>1. f \notin chosen
      BY <2>4 DEF CommitRow
    <3> QED
      BY Zenon, <2>0, <2>4, <3>1 DEF CommitRow
  <2>5. ASSUME NEW f \in File, AbortRow(f) PROVE ChosenInv'
    BY Zenon, <2>0, <2>5 DEF AbortRow
  <2>6. ASSUME NEW f \in File, DropRow(f) PROVE ChosenInv'
    BY Zenon, <2>0, <2>6 DEF DropRow
  <2>7. CASE TakeBackup \/ RetireBackup
    BY ZenonT(60), <2>0, <2>7 DEF TakeBackup, RetireBackup
  <2> QED
    BY Zenon, <1>5, <2>1, <2>2, <2>3, <2>4, <2>5, <2>6, <2>7 DEF Sessions
<1> QED
  BY <1>1, <1>2, <1>3, <1>4, <1>5 DEF Next, Handler

\* Files that tables use or may come to use stay in the regular tree.
LEMMA PresentStep ==
  WindowCoversWriters /\ LiveInv /\ [Next]_vars => PresentInv'
<1> SUFFICES ASSUME TypeOK, WriterInv, PassInv, ChosenInv, PresentInv,
                    [Next]_vars
             PROVE  PresentInv'
  BY Zenon DEF LiveInv, TypeInv
<1> USE DEF PresentInv, Writing, Visible, Exists
<1>1. CASE DeleteGarbage \/ ListBackups \/ GetFirstLSN \/ ListBucketPath
           \/ ReadExpireHint \/ ReadVirtualIndex \/ StartRemoval \/ CallFails
           \/ EndPass \/ AbortUploads \/ Reply \/ Crash \/ UNCHANGED vars
  <2>1. UNCHANGED clusterVars
    BY Zenon, <1>1 DEF DeleteGarbage, ListBackups, GetFirstLSN, ListBucketPath,
       ReadExpireHint, ReadVirtualIndex, StartRemoval, CallFails, EndPass,
       AbortUploads, Reply, Crash, vars
  <2> QED
    BY Zenon, <2>1 DEF clusterVars
<1>2. ASSUME NEW f \in File, Work(f) PROVE PresentInv'
  <2>0. /\ UNCHANGED <<now, vi, phase, began>>
        /\ f \in Doomed
        /\ \A g \in File : g = f \/ store'["reg"][g] = store["reg"][g]
    BY Zenon, <1>2, WorkEffect
  <2>1. f \notin vi /\ (Writing(f) => ~ (now <= began[f] + WriteTime))
    BY SMTT(60), <2>0, ClusterAssumption
       DEF PassInv, ChosenInv, TypeOK, ClusterTypeOK
  <2>2. ASSUME NEW g \in File,
               \/ g \in vi
               \/ Writing(g) /\ Visible(g) /\ now <= began[g] + WriteTime
        PROVE  store'["reg"][g] # NoObj
    <3>1. g # f
      BY <2>1, <2>2
    <3>2. store["reg"][g] # NoObj
      BY SMTT(30), <2>2
    <3> QED
      BY Zenon, <2>0, <3>1, <3>2
  <2> QED
    BY Zenon, <2>0, <2>2
<1>3. CASE Sessions /\ UNCHANGED vacVars
  <2> USE ClusterAssumption DEF TypeOK, ClusterTypeOK, Area, NoObj
  <2>1. CASE Tick
    BY SMTT(60), <2>1 DEF Tick
  <2>2. ASSUME NEW f \in File, BeginPut(f) PROVE PresentInv'
    <3>1. Stamp(now) \in Int /\ Stamp(now) # NoObj
      BY SMTT(60), StampBounds
    <3>2. f \notin vi
      BY Zenon, <2>2 DEF BeginPut, WriterInv
    <3> QED
      BY Zenon, <2>2, <3>1, <3>2 DEF BeginPut
  <2>3. ASSUME NEW f \in File, PutFileToDest(f) PROVE PresentInv'
    <3>1. \A t \in began[f]..now : Stamp(t) \in Int /\ Stamp(t) # NoObj
      BY StampBounds
    <3> QED
      BY <2>3, <3>1 DEF PutFileToDest
  <2>4. ASSUME NEW f \in File, CommitRow(f) PROVE PresentInv'
    BY Zenon, <2>4 DEF CommitRow
  <2>5. ASSUME NEW f \in File, AbortRow(f) PROVE PresentInv'
    BY Zenon, <2>5 DEF AbortRow
  <2>6. ASSUME NEW f \in File, DropRow(f) PROVE PresentInv'
    BY Zenon, <2>6 DEF DropRow
  <2>7. CASE TakeBackup \/ RetireBackup
    BY <2>7 DEF TakeBackup, RetireBackup
  <2> QED
    BY Zenon, <1>3, <2>1, <2>2, <2>3, <2>4, <2>5, <2>6, <2>7 DEF Sessions
<1> QED
  BY <1>1, <1>2, <1>3 DEF Next, Handler

\* Nothing is stored, listed or chosen at the start.
LEMMA InitLive == Init => LiveInv
<1> SUFFICES ASSUME Init PROVE LiveInv
  OBVIOUS
<1>1. TypeInv
  BY Zenon, InitType DEF Init, TypeInv
<1>2. WriterInv /\ PassInv
  BY DEF Init, ClusterInit, WriterInv, PassInv, Writing, Exists, Area,
         Doomed, NoFiles
<1>3. ChosenInv /\ PresentInv
  BY DEF Init, ClusterInit, ChosenInv, PresentInv, Writing
<1> QED
  BY <1>1, <1>2, <1>3 DEF LiveInv

\* LiveInv is inductive when the window covers the writers.
LEMMA LiveInductive ==
  WindowCoversWriters => (Spec => []LiveInv)
<1> SUFFICES ASSUME WindowCoversWriters PROVE Spec => []LiveInv
  OBVIOUS
<1>1. LiveInv /\ [Next]_vars => LiveInv'
  BY NextType, WriterStep, PassStep, ChosenStep, PresentStep DEF LiveInv
<1> QED
  BY <1>1, InitLive, PTL DEF Spec

\* However writers and vacuums interleave, fail and crash, a file of the
\* virtual index is in the regular tree, provided that protection_window is
\* at least the longest time from the start of an upload to its commit plus
\* the granularity of LastMod, and that the virtual index is read completely.
THEOREM LiveFilesAreKept ==
  WindowCoversWriters => (Spec => []LiveFilesKept)
<1> SUFFICES ASSUME WindowCoversWriters PROVE Spec => []LiveFilesKept
  OBVIOUS
<1>1. LiveInv => LiveFilesKept
  BY Zenon DEF LiveInv, PresentInv, LiveFilesKept, TypeInv, TypeOK, ClusterTypeOK
<1> QED
  BY <1>1, LiveInductive, PTL

-----------------------------------------------------------------------------
(* Files needed for point-in-time recovery.                                *)

\* There is a backup to begin with, both settings that protect expired files
\* are on, nothing disturbs the reading of the indexes and of the sentinels,
\* and the window covers the writers.
PitrProtected ==
  /\ WriteTime + Gran <= Window
  /\ Disturb = {}
  /\ InitBackups # {}
  /\ CheckBackup
  /\ HasHint

\* LSNs in use are below the current one.
LsnInv ==
  /\ backups # {}
  /\ \A b \in backups : b < wal
  /\ \A f \in File : hint[f] < wal

\* What the handler has read of the backups and of the expire hint: every
\* backup it does not know of is newer than those it does.
ReadInv ==
  /\ vpc = "sentinels" =>
       /\ sentinels # {} /\ sentinels \subseteq backups
       /\ \A s \in sentinels : \A b \in backups \ sentinels : s < b
  /\ vpc \in {"list", "hint", "index"} =>
       firstLSN < wal /\ \A b \in backups : firstLSN <= b
  /\ vpc = "index" => ei = hint

\* No backup needs a file that was chosen.
SpareInv == \A f \in chosen : \A b \in backups : hint[f] < b

PitrPresent == \A f \in File : NeededForPitr(f) => Exists("reg", f)

PitrInv == LiveInv /\ LsnInv /\ ReadInv /\ SpareInv /\ PitrPresent

\* LSNs only grow, and retention keeps the newest backup.
LEMMA LsnStep == TypeInv /\ LsnInv /\ [Next]_vars => LsnInv'
<1> SUFFICES ASSUME TypeOK, LsnInv, [Next]_vars PROVE LsnInv'
  BY DEF TypeInv
<1> USE DEF LsnInv
<1>1. CASE UNCHANGED <<wal, backups, hint>>
  BY Zenon, <1>1
<1>2. CASE Sessions
  <2> USE DEF TypeOK, ClusterTypeOK
  <2>1. ASSUME NEW f \in File, DropRow(f) PROVE LsnInv'
    BY <2>1 DEF DropRow
  <2>2. CASE TakeBackup
    BY <2>2 DEF TakeBackup
  <2>3. CASE RetireBackup
    BY <2>3 DEF RetireBackup
  <2> QED
    BY Zenon, <1>1, <1>2, <2>1, <2>2, <2>3 DEF Sessions, Tick, BeginPut,
       PutFileToDest, CommitRow, AbortRow
<1>3. ASSUME NEW f \in File, Work(f) PROVE LsnInv'
  BY Zenon, <1>1, <1>3, WorkEffect
<1> QED
  BY Zenon, <1>1, <1>2, <1>3 DEF Next, Handler, DeleteGarbage, ListBackups,
     GetFirstLSN, ListBucketPath, ReadExpireHint, ReadVirtualIndex,
     StartRemoval, CallFails, EndPass, AbortUploads, Reply, Crash, vars,
     clusterVars

\* The sessions do not invalidate what the handler has read.
LEMMA ReadStepSessions ==
  ASSUME PitrProtected, TypeOK, LsnInv, ReadInv, Sessions, UNCHANGED vacVars
  PROVE  ReadInv'
<1> USE DEF ReadInv, LsnInv, vacVars, TypeOK, ClusterTypeOK
<1>1. CASE UNCHANGED <<wal, backups, hint>>
  BY Zenon, <1>1
<1>2. ASSUME NEW f \in File, DropRow(f), vpc # "index" PROVE ReadInv'
  BY <1>2 DEF DropRow, NoBackupLSN
<1>3. CASE TakeBackup
  BY <1>3 DEF TakeBackup, NoBackupLSN
<1>4. CASE RetireBackup /\ vpc # "sentinels"
  BY ZenonT(60), <1>4 DEF RetireBackup
<1> QED
  BY Zenon, <1>1, <1>2, <1>3, <1>4 DEF Sessions, PitrProtected, Tick, BeginPut,
     PutFileToDest, CommitRow, AbortRow

\* What the handler reads is up to date when it reads it.
LEMMA ReadStep ==
  PitrProtected /\ TypeInv /\ LsnInv /\ ReadInv /\ [Next]_vars => ReadInv'
<1> SUFFICES ASSUME PitrProtected, TypeOK, LsnInv, ReadInv, [Next]_vars
             PROVE  ReadInv'
  BY Zenon DEF TypeInv
<1> USE DEF ReadInv, clusterVars
<1>1. CASE DeleteGarbage
  BY Zenon, <1>1 DEF DeleteGarbage, PitrProtected
<1>2. CASE ListBackups
  BY Zenon, <1>2 DEF ListBackups, LsnInv
<1>3. CASE GetFirstLSN
  <2>1. PICK read \in SUBSET (sentinels \cap backups) :
          /\ "sentinel" \notin Disturb => read = sentinels \cap backups
          /\ \/ read = {} /\ firstLSN' = NoBackupLSN
             \/ firstLSN' \in read /\ \A m \in read : firstLSN' <= m
    BY Zenon, <1>3 DEF GetFirstLSN
  <2>2. read = sentinels /\ sentinels # {} /\ sentinels \subseteq backups
    BY Zenon, <1>3, <2>1 DEF GetFirstLSN, PitrProtected
  <2>3. firstLSN' \in sentinels /\ \A m \in sentinels : firstLSN' <= m
    BY Zenon, <2>1, <2>2
  <2>4. /\ \A b \in backups \ sentinels : firstLSN' < b
        /\ firstLSN' < wal
    BY Zenon, <1>3, <2>2, <2>3 DEF GetFirstLSN, LsnInv
  <2>5. \A b \in backups : firstLSN' <= b
    BY <2>2, <2>3, <2>4 DEF TypeOK, ClusterTypeOK
  <2> QED
    BY Zenon, <1>3, <2>4, <2>5 DEF GetFirstLSN
<1>4. CASE ListBucketPath
  BY Zenon, <1>4 DEF ListBucketPath
<1>5. CASE ReadExpireHint
  <2>1. ei' = hint
    BY <1>5 DEF ReadExpireHint, PitrProtected, TypeOK, ClusterTypeOK
  <2> QED
    BY Zenon, <1>5, <2>1 DEF ReadExpireHint
<1>6. CASE ReadVirtualIndex \/ StartRemoval \/ CallFails \/ EndPass
           \/ AbortUploads \/ Reply \/ Crash
  <2>1. vpc' \notin {"sentinels", "list", "hint", "index"}
    BY SMTT(30), <1>6 DEF ReadVirtualIndex, StartRemoval, CallFails, EndPass,
       AbortUploads, Reply, Crash
  <2> QED
    BY Zenon, <2>1
<1>7. ASSUME NEW f \in File, Work(f) PROVE ReadInv'
  BY Zenon, <1>7, WorkEffect
<1>8. CASE Sessions /\ UNCHANGED vacVars
  BY Zenon, <1>8, ReadStepSessions
<1>9. CASE UNCHANGED vars
  BY SMTT(30), <1>9 DEF vars, vacVars
<1> QED
  BY <1>1, <1>2, <1>3, <1>4, <1>5, <1>6, <1>7, <1>8, <1>9 DEF Next, Handler

\* No step makes a backup need a file that was chosen.
LEMMA SpareStep == PitrProtected /\ PitrInv /\ [Next]_vars => SpareInv'
<1> SUFFICES ASSUME PitrProtected, TypeOK, ChosenInv, LsnInv, ReadInv,
                    SpareInv, [Next]_vars
             PROVE  SpareInv'
  BY DEF PitrInv, LiveInv, TypeInv
<1> USE DEF SpareInv
<1>1. CASE UNCHANGED <<chosen, hint, backups>>
  BY Zenon, <1>1
<1>2. CASE ReadVirtualIndex
  <2>1. UNCHANGED clusterVars /\ vpc = "index" /\ chosen' = FilesToDelete(vi)
    BY <1>2 DEF ReadVirtualIndex, PitrProtected
  <2>2. SUFFICES ASSUME NEW f \in FilesToDelete(vi), NEW b \in backups
                 PROVE  hint[f] < b
    BY Zenon, <2>1 DEF clusterVars
  <2>3. f \in File /\ (hint[f] = NoLsn \/ hint[f] < firstLSN)
    BY <2>1 DEF FilesToDelete, ReadInv
  <2>4. firstLSN <= b
    BY Zenon, <2>1 DEF ReadInv
  <2> QED
    BY <2>3, <2>4 DEF TypeOK, ClusterTypeOK, NoLsn
<1>3. CASE Reply \/ Crash
  BY SMTT(30), <1>3 DEF Reply, Crash, Forget
<1>4. ASSUME NEW f \in File, Work(f) PROVE SpareInv'
  BY ZenonT(60), <1>1, <1>4, WorkEffect
<1>5. CASE Sessions /\ UNCHANGED vacVars
  <2> USE DEF TypeOK, ClusterTypeOK
  <2>0. UNCHANGED chosen
    BY Zenon, <1>5 DEF vacVars
  <2>1. ASSUME NEW f \in File, DropRow(f) PROVE SpareInv'
    BY Zenon, <2>0, <2>1 DEF DropRow, ChosenInv
  <2>2. CASE TakeBackup
    BY <2>0, <2>2 DEF TakeBackup, LsnInv
  <2>3. CASE RetireBackup
    BY Zenon, <2>0, <2>3 DEF RetireBackup
  <2> QED
    BY Zenon, <1>1, <1>5, <2>0, <2>1, <2>2, <2>3 DEF Sessions, Tick, BeginPut,
       PutFileToDest, CommitRow, AbortRow
<1> QED
  BY Zenon, <1>1, <1>2, <1>3, <1>4, <1>5 DEF Next, Handler, DeleteGarbage,
     ListBackups, GetFirstLSN, ListBucketPath, ReadExpireHint, StartRemoval,
     CallFails, EndPass, AbortUploads, vars, vacVars, clusterVars

\* Files some backup needs stay in the regular tree.
LEMMA PitrPresentStep == PitrInv /\ [Next]_vars => PitrPresent'
<1> SUFFICES ASSUME TypeOK, WriterInv, PassInv, PresentInv, LsnInv, SpareInv,
                    PitrPresent, [Next]_vars
             PROVE  PitrPresent'
  BY Zenon DEF PitrInv, LiveInv, TypeInv
<1> USE DEF PitrPresent, NeededForPitr, Exists
<1>1. CASE UNCHANGED <<store, hint, backups>>
  BY Zenon, <1>1
<1>2. ASSUME NEW f \in File, Work(f) PROVE PitrPresent'
  <2>0. /\ UNCHANGED <<hint, backups>>
        /\ f \in Doomed
        /\ \A g \in File : g = f \/ store'["reg"][g] = store["reg"][g]
    BY Zenon, <1>2, WorkEffect
  <2>1. \A b \in backups : hint[f] < b
    BY Zenon, <2>0 DEF PassInv, SpareInv
  <2>2. ~ NeededForPitr(f)
    <3>1. hint[f] \in Int /\ \A b \in backups : b \in Int
      BY SMTT(30) DEF TypeOK, ClusterTypeOK
    <3> QED
      BY <2>1, <3>1
  <2> QED
    BY Zenon, <2>0, <2>2
<1>3. CASE Sessions
  <2> USE ClusterAssumption DEF TypeOK, ClusterTypeOK, Area, NoObj
  <2>1. ASSUME NEW f \in File, BeginPut(f) PROVE PitrPresent'
    <3>1. hint[f] = NoLsn
      BY Zenon, <2>1 DEF BeginPut, WriterInv
    <3> QED
      BY Zenon, <2>1, <3>1 DEF BeginPut
  <2>2. ASSUME NEW f \in File, PutFileToDest(f) PROVE PitrPresent'
    <3>1. hint[f] = NoLsn
      BY Zenon, <2>2 DEF PutFileToDest, WriterInv
    <3> QED
      BY SMTT(60), <2>2, <3>1 DEF PutFileToDest
  <2>3. ASSUME NEW f \in File, DropRow(f) PROVE PitrPresent'
    BY Zenon, <2>3 DEF DropRow, PresentInv
  <2>4. CASE TakeBackup
    BY <2>4 DEF TakeBackup, LsnInv
  <2>5. CASE RetireBackup
    BY Zenon, <2>5 DEF RetireBackup
  <2> QED
    BY Zenon, <1>1, <1>3, <2>1, <2>2, <2>3, <2>4, <2>5 DEF Sessions, Tick,
       CommitRow, AbortRow
<1> QED
  BY Zenon, <1>1, <1>2, <1>3 DEF Next, Handler, DeleteGarbage, ListBackups,
     GetFirstLSN, ListBucketPath, ReadExpireHint, ReadVirtualIndex,
     StartRemoval, CallFails, EndPass, AbortUploads, Reply, Crash, vars,
     clusterVars

\* However sessions, backups, retention and vacuums interleave, an expired
\* file that a restore from an existing backup may need is in the regular
\* tree, under the conditions of PitrProtected.
THEOREM PitrFilesAreKept ==
  PitrProtected => (Spec => []PitrFilesKept)
<1> SUFFICES ASSUME PitrProtected PROVE Spec => []PitrFilesKept
  OBVIOUS
<1>0. WindowCoversWriters
  BY DEF PitrProtected, WindowCoversWriters
<1>1. Init => PitrInv
  <2> SUFFICES ASSUME Init PROVE PitrInv
    BY Zenon
  <2>1. LsnInv
    BY ClusterAssumption DEF Init, ClusterInit, LsnInv, NoLsn, PitrProtected
  <2>2. ReadInv /\ SpareInv
    BY Zenon DEF Init, ReadInv, SpareInv
  <2>3. PitrPresent
    BY DEF Init, ClusterInit, PitrPresent, NeededForPitr
  <2> QED
    BY <2>1, <2>2, <2>3, InitLive DEF PitrInv
<1>2. PitrInv /\ [Next]_vars => PitrInv'
  <2> SUFFICES ASSUME PitrInv, [Next]_vars PROVE PitrInv'
    OBVIOUS
  <2>1. LiveInv'
    BY <1>0, NextType, WriterStep, PassStep, ChosenStep, PresentStep
       DEF LiveInv, PitrInv
  <2>2. LsnInv' /\ ReadInv'
    BY LsnStep, ReadStep DEF PitrInv, LiveInv
  <2>3. SpareInv' /\ PitrPresent'
    BY SpareStep, PitrPresentStep
  <2> QED
    BY <2>1, <2>2, <2>3 DEF PitrInv
<1>3. PitrInv => PitrFilesKept
  BY DEF PitrInv, PitrPresent, PitrFilesKept
<1> QED
  BY <1>1, <1>2, <1>3, PTL DEF Spec

-----------------------------------------------------------------------------
(* What removal may and must do.                                           *)

\* A worker that has copied a file finds the copy in trash.
CopiedInv == \A f \in copied : Exists("trash", f)

\* MoveObject deletes an original only while its copy exists.
LEMMA CopiedStep == TypeInv /\ CopiedInv /\ [Next]_vars => CopiedInv'
<1> SUFFICES ASSUME TypeOK, CopiedInv, [Next]_vars PROVE CopiedInv'
  BY DEF TypeInv
<1> USE ClusterAssumption DEF CopiedInv, Exists
<1>1. CASE UNCHANGED <<store, copied>>
  BY Zenon, <1>1
<1>2. CASE Crash
  BY SMTT(30), <1>2 DEF Crash
<1>3. ASSUME NEW f \in File, Work(f) PROVE CopiedInv'
  <2> USE DEF TypeOK, ClusterTypeOK, Area, NoObj, Finish
  <2>0. Stamp(now) \in Int /\ Stamp(now) # NoObj
    BY SMTT(60), StampBounds
  <2>1. CASE CrazyDelete(f)
    BY Zenon, <2>1 DEF CrazyDelete, DeleteObject
  <2>2. CASE MoveByRename(f)
    BY SMTT(60), <2>2 DEF MoveByRename, Rename, Exists
  <2>3. CASE MoveCopy(f)
    BY SMTT(60), <2>0, <2>3 DEF MoveCopy, SScopyObject
  <2>4. CASE MoveDelete(f)
    BY Zenon, <2>4 DEF MoveDelete, DeleteObject
  <2> QED
    BY Zenon, <1>3, <2>1, <2>2, <2>3, <2>4 DEF Work, MoveObject
<1>4. CASE Sessions /\ UNCHANGED vacVars
  <2>1. \A f \in File : store'["trash"][f] = store["trash"][f]
    BY SMTT(30), <1>4 DEF Sessions, Tick, BeginPut, PutFileToDest, CommitRow,
       AbortRow, DropRow, TakeBackup, RetireBackup, TypeOK, ClusterTypeOK, Area
  <2>2. copied' = copied /\ copied \subseteq File
    BY Zenon, <1>4 DEF vacVars, TypeOK
  <2>3. ASSUME NEW f \in copied PROVE store'["trash"][f] # NoObj
    <3>1. f \in File /\ store["trash"][f] # NoObj
      BY <2>2
    <3> QED
      BY <2>1, <3>1
  <2> QED
    BY ZenonT(60), <2>2, <2>3
<1> QED
  BY Zenon, <1>1, <1>2, <1>3, <1>4 DEF Next, Handler, DeleteGarbage, ListBackups,
     GetFirstLSN, ListBucketPath, ReadExpireHint, ReadVirtualIndex,
     StartRemoval, CallFails, EndPass, AbortUploads, Reply, vars, vacVars,
     clusterVars

\* The step behind NothingLost.
LEMMA NothingLostStep ==
  ASSUME TypeOK, CopiedInv, [Next]_vars, NEW f \in File, Stored(f)
  PROVE  Stored(f)' \/ mode = "crazy"
<1> USE ClusterAssumption DEF Stored, Exists, Area, NoObj, TypeOK, ClusterTypeOK
<1>1. CASE UNCHANGED store
  BY SMTT(30), <1>1
<1>2. ASSUME NEW g \in File, Work(g)
      PROVE  Stored(f)' \/ mode = "crazy"
  <2>0. Stamp(now) \in Int /\ Stamp(now) # NoObj
    BY SMTT(60), StampBounds
  <2>1. CASE CrazyDelete(g)
    BY <2>1 DEF CrazyDelete
  <2>2. CASE MoveByRename(g)
    <3>1. CASE Rename("reg", "trash", g)
      <4>1. store["reg"][g] # NoObj /\ store'["trash"][g] = store["reg"][g]
        BY Zenon, <3>1 DEF Rename
      <4>2. g # f => store'["reg"][f] = store["reg"][f]
                     /\ store'["trash"][f] = store["trash"][f]
        BY <3>1 DEF Rename
      <4> QED
        BY Zenon, <4>1, <4>2
    <3> QED
      BY Zenon, <1>1, <2>2, <3>1 DEF MoveByRename
  <2>3. CASE MoveCopy(g)
    <3>1. CASE SScopyObject("reg", "trash", g)
      <4>1. store'["reg"][f] = store["reg"][f]
        BY Zenon, <3>1 DEF SScopyObject
      <4>2. store'["trash"][f] \in {store["trash"][f], Stamp(now)}
        BY Zenon, <3>1 DEF SScopyObject
      <4> QED
        BY Zenon, <2>0, <4>1, <4>2
    <3> QED
      BY Zenon, <1>1, <2>3, <3>1 DEF MoveCopy
  <2>4. CASE MoveDelete(g)
    BY SMTT(30), <2>4 DEF MoveDelete, DeleteObject, CopiedInv
  <2> QED
    BY Zenon, <1>2, <2>1, <2>2, <2>3, <2>4 DEF Work, MoveObject
<1>3. CASE Sessions
  <2>1. ASSUME NEW g \in File, BeginPut(g) PROVE Stored(f)'
    <3>1. Stamp(now) \in Int /\ Stamp(now) # NoObj
      BY StampBounds
    <3> QED
      BY Zenon, <2>1, <3>1 DEF BeginPut
  <2>2. ASSUME NEW g \in File, PutFileToDest(g) PROVE Stored(f)'
    <3>1. \A t \in began[g]..now : Stamp(t) \in Int /\ Stamp(t) # NoObj
      BY StampBounds
    <3> QED
      BY SMTT(60), <2>2, <3>1 DEF PutFileToDest
  <2> QED
    BY Zenon, <1>1, <1>3, <2>1, <2>2 DEF Sessions, Tick, CommitRow, AbortRow,
       DropRow, TakeBackup, RetireBackup
<1> QED
  BY ZenonT(60), <1>1, <1>2, <1>3 DEF Next, Handler, DeleteGarbage, ListBackups,
     GetFirstLSN, ListBucketPath, ReadExpireHint, ReadVirtualIndex,
     StartRemoval, CallFails, EndPass, AbortUploads, Reply, Crash, vars,
     clusterVars

\* Without crazy drop no step of a vacuum, failed, retried or cut short by a
\* crash, makes the last copy of a file disappear.
THEOREM NothingIsLost == Spec => NothingLost
<1> DEFINE Inv == TypeInv /\ CopiedInv
<1>1. Init => Inv
  BY InitType DEF Init, TypeInv, CopiedInv
<1>2. Inv /\ [Next]_vars => Inv'
  BY NextType, CopiedStep
<1>3. Inv /\ [Next]_vars
        => [\A f \in File : Stored(f) => Stored(f)' \/ mode = "crazy"]_vars
  BY SMTT(30), NothingLostStep DEF TypeInv
<1> QED
  BY <1>1, <1>2, <1>3, PTL DEF Spec, NothingLost

\* The chosen files that are in no list any more are out of the regular tree.
RemovedInv ==
  /\ vpc = "pass" => \A f \in chosen : f \in Doomed \/ ~ Exists("reg", f)
  /\ vpc = "abort" => \A f \in chosen : ~ Exists("reg", f)
  /\ HonestReply

\* A worker strikes a file off its lists only once it has removed it.
LEMMA RemovedByWork ==
  ASSUME TypeOK, NEW f \in File, Work(f), f \notin Doomed'
  PROVE  ~ Exists("reg", f)'
<1> USE DEF TypeOK, ClusterTypeOK, Area, NoObj, Exists, Doomed, Finish
<1>1. CASE CrazyDelete(f)
  BY SMTT(60), <1>1 DEF CrazyDelete, DeleteObject
<1>2. CASE MoveByRename(f)
  BY SMTT(60), <1>2 DEF MoveByRename, Rename
<1>3. CASE MoveCopy(f)
  BY Zenon, <1>3 DEF MoveCopy
<1>4. CASE MoveDelete(f)
  BY SMTT(60), <1>4 DEF MoveDelete, DeleteObject
<1> QED
  BY Zenon, <1>1, <1>2, <1>3, <1>4 DEF Work, MoveObject

\* Another file stays on its list while a worker handles this one.
LEMMA OthersStayDoomed ==
  ASSUME TypeOK, NEW f \in File, Work(f), NEW g \in Doomed, g # f
  PROVE  g \in Doomed'
BY ZenonT(60) DEF Work, CrazyDelete, MoveObject, MoveByRename, MoveCopy,
       MoveDelete, Finish, Doomed

\* Removed files stay removed: no session writes a chosen file again.
LEMMA RemovedStep ==
  TypeInv /\ WriterInv /\ PassInv /\ RemovedInv /\ [Next]_vars => RemovedInv'
<1> SUFFICES ASSUME TypeOK, WriterInv, PassInv, RemovedInv, [Next]_vars
             PROVE  RemovedInv'
  BY Zenon DEF TypeInv
<1> USE DEF RemovedInv, HonestReply
<1>1. CASE DeleteGarbage \/ ListBackups \/ GetFirstLSN \/ ListBucketPath
           \/ ReadExpireHint \/ ReadVirtualIndex \/ CallFails \/ Reply
           \/ Crash
  <2>1. vpc' \notin {"pass", "abort", "ok"}
    BY Zenon, <1>1 DEF DeleteGarbage, ListBackups, GetFirstLSN, ListBucketPath,
       ReadExpireHint, ReadVirtualIndex, CallFails, Reply, Crash
  <2> QED
    BY Zenon, <2>1
<1>2. CASE StartRemoval
  BY Zenon, <1>2 DEF StartRemoval, Doomed, reqVars
<1>3. CASE EndPass
  BY Zenon, <1>3 DEF EndPass, Doomed, clusterVars, Exists
<1>4. CASE AbortUploads
  BY Zenon, <1>4 DEF AbortUploads, clusterVars, Exists
<1>5. ASSUME NEW f \in File, Work(f) PROVE RemovedInv'
  <2>1. vpc = "pass" /\ vpc' = "pass" /\ chosen' = chosen /\ chosen \subseteq File
    BY Zenon, <1>5, WorkEffect DEF TypeOK
  <2>2. ASSUME NEW g \in chosen, g \notin Doomed' PROVE ~ Exists("reg", g)'
    <3>1. CASE g = f
      BY Zenon, <1>5, <2>2, <3>1, RemovedByWork
    <3>2. CASE g # f
      <4>1. g \notin Doomed
        BY Zenon, <1>5, <2>2, <3>2, OthersStayDoomed
      <4> QED
        BY Zenon, <1>5, <2>1, <3>2, <4>1, WorkEffect DEF Exists
    <3> QED
      BY Zenon, <3>1, <3>2
  <2> QED
    BY SMTT(30), <2>1, <2>2
<1>6. CASE Sessions /\ UNCHANGED vacVars
  <2>1. ASSUME NEW g \in chosen, ~ Exists("reg", g) PROVE ~ Exists("reg", g)'
    <3> USE DEF TypeOK, ClusterTypeOK, Area, Exists
    <3>1. ASSUME NEW f \in File, BeginPut(f) PROVE ~ Exists("reg", g)'
      <4>1. f # g
        BY Zenon, <3>1 DEF BeginPut, WriterInv, PassInv
      <4> QED
        BY Zenon, <2>1, <3>1, <4>1 DEF BeginPut
    <3>2. ASSUME NEW f \in File, PutFileToDest(f) PROVE ~ Exists("reg", g)'
      <4>1. f = g => Backend = "fs"
        BY Zenon, <3>2 DEF PutFileToDest, WriterInv, PassInv, Writing, Visible
      <4> QED
        BY Zenon, <2>1, <3>2, <4>1 DEF PutFileToDest
    <3>3. CASE UNCHANGED store
      BY Zenon, <2>1, <3>3
    <3> QED
      BY Zenon, <1>6, <3>1, <3>2, <3>3 DEF Sessions, Tick, CommitRow, AbortRow,
         DropRow, TakeBackup, RetireBackup
  <2> QED
    BY Zenon, <1>6, <2>1 DEF vacVars, Doomed
<1>7. CASE UNCHANGED vars
  BY <1>7 DEF vars, vacVars, clusterVars, Doomed, Exists
<1> QED
  BY <1>1, <1>2, <1>3, <1>4, <1>5, <1>6, <1>7 DEF Next, Handler

\* A confirmed vacuum that reports success has removed every file it chose
\* from the regular tree, whatever failed on the way and however many workers
\* it used.
THEOREM RepliesAreHonest == Spec => []HonestReply
<1> DEFINE Inv == TypeInv /\ WriterInv /\ PassInv /\ RemovedInv
<1>1. Init => Inv
  BY InitLive DEF LiveInv, Init, RemovedInv, HonestReply
<1>2. Inv /\ [Next]_vars => Inv'
  BY NextType, WriterStep, PassStep, RemovedStep
<1>3. Inv => HonestReply
  BY Zenon DEF RemovedInv
<1> QED
  BY <1>1, <1>2, <1>3, PTL DEF Spec

\* A file the expire hint that was read has a row for still has one; a file
\* in no index now was in none when the vacuum decided, so it chose it if the
\* window allowed it.
OldAndUnknown(f) ==
  /\ listed[f] # NoObj /\ listed[f] <= procStart - Window
  /\ f \notin vi /\ hint[f] = NoLsn
DecidedInv ==
  /\ \A f \in File : ei[f] # NoLsn => hint[f] # NoLsn
  /\ vpc \in {"uploads", "pass", "abort", "ok"} => {f \in File : OldAndUnknown(f)} \subseteq chosen

\* Sessions put rows into the expire hint and take none out, and a file that
\* leaves the virtual index gets one.
LEMMA HintGrows ==
  ASSUME TypeOK, Sessions, NEW f \in File
  PROVE  /\ hint[f] # NoLsn => hint'[f] # NoLsn
         /\ f \notin vi' /\ hint'[f] = NoLsn => f \notin vi /\ hint[f] = NoLsn
<1> USE DEF TypeOK, ClusterTypeOK
<1>1. ASSUME NEW g \in File, DropRow(g)
      PROVE  hint' = [hint EXCEPT ![g] = wal] /\ vi' = vi \ {g} /\ wal # NoLsn
  BY SMTT(60), <1>1 DEF DropRow, NoLsn
<1>2. ASSUME NEW g \in File, CommitRow(g) PROVE hint' = hint /\ vi \subseteq vi'
  BY Zenon, <1>2 DEF CommitRow
<1>3. CASE UNCHANGED <<hint, vi>>
  BY SMTT(60), <1>3
<1> QED
  BY Zenon, <1>1, <1>2, <1>3 DEF Sessions, Tick, BeginPut, PutFileToDest, AbortRow, TakeBackup,
     RetireBackup

LEMMA DecidedStep ==
  TypeInv /\ DecidedInv /\ [Next]_vars => DecidedInv'
<1> SUFFICES ASSUME TypeOK, DecidedInv, [Next]_vars PROVE DecidedInv'
  BY SMTT(30) DEF TypeInv
<1> USE DEF DecidedInv, OldAndUnknown
<1>1. CASE DeleteGarbage \/ ListBackups \/ GetFirstLSN \/ ListBucketPath \/ CallFails
  <2>1. /\ vpc' \notin {"uploads", "pass", "abort", "ok"}
        /\ UNCHANGED <<ei, hint>>
    BY ZenonT(60), <1>1 DEF DeleteGarbage, ListBackups, GetFirstLSN, ListBucketPath, CallFails, clusterVars,
       readVars
  <2> QED
    BY ZenonT(60), <2>1
<1>2. CASE ReadExpireHint
  BY Zenon, <1>2 DEF ReadExpireHint, clusterVars, NoHints, TypeOK
<1>3. CASE ReadVirtualIndex
  <2>1. PICK rows \in SUBSET vi : chosen' = FilesToDelete(rows)
    BY Zenon, <1>3 DEF ReadVirtualIndex
  <2>2. UNCHANGED <<vi, hint, listed, procStart>> /\ ei' = NoHints
    BY Zenon, <1>3 DEF ReadVirtualIndex, clusterVars, reqVars
  <2>3. \A f \in File : listed[f] \in Int
    BY Zenon DEF TypeOK
  <2>4. procStart \in Int /\ Window \in Int
    BY SMTT(60), VacuumAssumption DEF TypeOK, Window
  <2>5. \A f \in File : OldAndUnknown(f) => f \in FilesToDelete(rows)
    BY SMTT(60), <2>1, <2>3, <2>4 DEF FilesToDelete
  <2> QED
    BY Zenon, <2>1, <2>2, <2>5 DEF NoHints
<1>4. CASE StartRemoval \/ EndPass \/ AbortUploads \/ UNCHANGED vars
  <2>1. /\ UNCHANGED <<ei, hint, vi, listed, procStart, chosen>>
        /\ vpc' \in {"uploads", "pass", "abort", "ok"} => vpc \in {"uploads", "pass", "abort", "ok"}
    BY Zenon, <1>4 DEF StartRemoval, EndPass, AbortUploads, clusterVars, readVars, reqVars, vars, vacVars
  <2> QED
    BY Zenon, <2>1
<1>5. ASSUME NEW f \in File, Work(f) PROVE DecidedInv'
  BY ZenonT(60), <1>5, WorkEffect
<1>6. CASE Reply \/ Crash
  BY Zenon, <1>6 DEF Reply, Crash, Forget, NoHints
<1>7. CASE Sessions /\ UNCHANGED vacVars
  BY Zenon, <1>7, HintGrows DEF vacVars
<1> QED
  BY ZenonT(60), <1>1, <1>2, <1>3, <1>4, <1>5, <1>6, <1>7 DEF Next, Handler

\* ListGarbageFiles and the passes: a confirmed vacuum that reports success has
\* removed every listed object that is older than the window, in no index, and
\* whose writer is through, whatever queries or operations were cut short.
THEOREM GarbageIsCollected == Spec => []GarbageCollected
<1> DEFINE Inv == TypeInv /\ WriterInv /\ PassInv /\ RemovedInv /\ DecidedInv
<1>1. Init => Inv
  BY InitLive DEF LiveInv, Init, RemovedInv, HonestReply, DecidedInv, NoHints
<1>2. Inv /\ [Next]_vars => Inv'
  BY Zenon, NextType, WriterStep, PassStep, RemovedStep, DecidedStep
<1>3. Inv => GarbageCollected
  BY DEF RemovedInv, HonestReply, DecidedInv, OldAndUnknown, GarbageCollected
<1> QED
  BY <1>1, <1>2, <1>3, PTL DEF Spec

=============================================================================
