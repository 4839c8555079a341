--------------------------- MODULE ObsoleteProofs ---------------------------
(***************************************************************************)
(* Proofs about yezzey_collect_obsolete and yezzey_delete_obsolete, for    *)
(* any number of files, any LSNs and both back ends.                       *)
(***************************************************************************)
EXTENDS Obsolete, TLAPS

\* A file that no session will bring into the virtual index any more.
Gone(f) == phase[f] = "done" /\ f \notin vi

\* What is stored of a file somebody is writing or has written; the hint of
\* the extension is the LSN of the drop.  Drops and backups are below the end
\* of the WAL.
WriterInv ==
  /\ \A f \in File :
       /\ phase[f] = "uploaded" \/ (phase[f] = "uploading" /\ Backend = "fs") => Exists("reg", f)
       /\ f \in vi => phase[f] = "done"
       /\ expired[f] # NoLsn => Gone(f)
       /\ hint[f] # NoLsn => hint[f] = expired[f]
       /\ expired[f] < wal
  /\ \A b \in backups : b < wal

\* A collection gives rows to such files only, with an LSN that is not below
\* that of a drop it may have missed.
CollectInv ==
  /\ \A f \in File : \A v \in collected[f] : Gone(f) /\ expired[f] <= v
  /\ cpc = "idle" => cand = {}
  /\ \A f \in cand : phase[f] = "done"
  /\ cpc \in {"lsn", "add"} => \A f \in cand : f \notin vi
  /\ cpc = "add" => \A f \in cand : expired[f] <= currLsn

\* A deletion has rows of such files only.  Backups it has not listed are
\* younger than those it has; once the first LSN is known, the files with a
\* row below it are of no use to any backup.
DeleteInv ==
  /\ \A f \in File : dei[f] # NoLsn => Gone(f) /\ expired[f] <= dei[f]
  /\ dpc = "sentinels" =>
       \A b \in backups, d \in dlisted : b \in dlisted \/ d < b
  /\ \A d \in dlisted : d < wal
  /\ dpc \in {"each", "move", "copied"} =>
       \A f \in File : IsObsolete(f) => ~Needed(f)
  /\ \A f \in dfile : Gone(f) /\ ~Needed(f)

UsefulInv == ObsTypeOK /\ WriterInv /\ CollectInv /\ DeleteInv /\ UsefulFilesStay

\* MoveObject deletes what it has copied, one file at a time.
CopiedInv ==
  /\ ObsTypeOK
  /\ \A f, g \in dfile : f = g
  /\ dpc = "copied" => \A f \in dfile : Exists("trash", f)

LEMMA StampNat ==
  ASSUME NEW t \in Nat
  PROVE  Stamp(t) \in Nat
BY ClusterAssumption DEF Stamp

LEMMA ObsInitType ==
  ObsInit => ObsTypeOK
<1> SUFFICES ASSUME ObsInit PROVE ObsTypeOK
  OBVIOUS
<1>1. ClusterTypeOK
  BY ClusterAssumption DEF ObsInit, ClusterInit, ClusterTypeOK, NoObj, NoLsn, Phase
<1> QED
  BY <1>1, ClusterAssumption DEF ObsInit, ObsTypeOK, NoHints, NoRows, NoLsn

\* What a session changes in the cluster keeps its type.
LEMMA SessionsType ==
  ObsTypeOK /\ Sessions => ObsTypeOK'
<1> SUFFICES ASSUME ObsTypeOK, Sessions PROVE ObsTypeOK'
  OBVIOUS
<1> USE ClusterAssumption DEF ObsTypeOK
<1>0. UNCHANGED <<collected, colVars, delVars>>
  BY DEF Sessions
<1>1. ASSUME NEW f \in File, BeginPut(f), UNCHANGED expired PROVE ObsTypeOK'
  <2>1. Stamp(now) \in Int
    BY StampNat DEF ClusterTypeOK
  <2>2. ClusterTypeOK'
    BY <1>1, <2>1 DEF BeginPut, ClusterTypeOK, Area, Phase
  <2> QED
    BY <1>0, <1>1, <2>2 DEF colVars, delVars
<1>2. ASSUME NEW f \in File, PutFileToDest(f), UNCHANGED expired PROVE ObsTypeOK'
  <2>1. \A t \in began[f]..now : Stamp(t) \in Int
    BY StampNat DEF ClusterTypeOK
  <2>2. ClusterTypeOK'
    BY <1>2, <2>1 DEF PutFileToDest, ClusterTypeOK, Area, Phase
  <2> QED
    BY <1>0, <1>2, <2>2 DEF colVars, delVars
<1>3. ASSUME NEW f \in File, CommitRow(f) \/ AbortRow(f), UNCHANGED expired PROVE ObsTypeOK'
  <2>1. ClusterTypeOK'
    <3>1. CASE CommitRow(f)
      BY <3>1 DEF CommitRow, ClusterTypeOK, Phase
    <3>2. CASE AbortRow(f)
      BY <3>2 DEF AbortRow, ClusterTypeOK, Phase
    <3> QED
      BY <1>3, <3>1, <3>2
  <2> QED
    BY <1>0, <1>3, <2>1 DEF colVars, delVars
<1>4. ASSUME NEW f \in File, DropRow(f), expired' = [expired EXCEPT ![f] = wal] PROVE ObsTypeOK'
  <2>1. ClusterTypeOK' /\ wal \in 0..MaxLsn
    BY <1>4 DEF DropRow, ClusterTypeOK
  <2> QED
    BY <1>0, <1>4, <2>1 DEF colVars, delVars
<1>5. ASSUME TakeBackup \/ RetireBackup, UNCHANGED expired PROVE ObsTypeOK'
  <2>1. ClusterTypeOK'
    <3>1. CASE TakeBackup
      BY <3>1 DEF TakeBackup, ClusterTypeOK
    <3>2. CASE RetireBackup
      BY <3>2 DEF RetireBackup, ClusterTypeOK
    <3> QED
      BY <1>5, <3>1, <3>2
  <2> QED
    BY <1>0, <1>5, <2>1 DEF colVars, delVars
<1> QED
  BY <1>1, <1>2, <1>3, <1>4, <1>5 DEF Sessions

\* A deletion changes the store at the file it is moving, and only then.
LEMMA MoveEffect ==
  ASSUME ObsTypeOK, NEW f \in File, MoveCopy(f) \/ MoveDelete(f)
  PROVE  /\ f \in dfile /\ dfile' \subseteq dfile /\ dpc' \in {"each", "copied"}
         /\ dpc \in {"move", "copied"}
         /\ UNCHANGED <<worldVars, hint, collected, expired, colVars, dei, dvi, dlisted, dfirst>>
         /\ store' \in [Area -> [File -> Int]]
         /\ \A g \in File :
              \/ store'["reg"][g] = store["reg"][g]
              \/ g = f /\ store'["reg"][g] = NoObj
<1>1. Stamp(now) \in Int
  BY StampNat DEF ObsTypeOK, ClusterTypeOK
<1>2. CASE MoveCopy(f)
  BY <1>1, <1>2 DEF MoveCopy, Rename, SScopyObject, ObsTypeOK, ClusterTypeOK, Area, NoObj
<1>3. CASE MoveDelete(f)
  BY SMTT(60), <1>3 DEF MoveDelete, DeleteObject, ObsTypeOK, ClusterTypeOK, Area, NoObj
<1> QED
  BY <1>2, <1>3

LEMMA ObsTypeStep ==
  ObsTypeOK /\ [ObsNext]_vars => ObsTypeOK'
<1> SUFFICES ASSUME ObsTypeOK, [ObsNext]_vars PROVE ObsTypeOK'
  OBVIOUS
<1> USE ClusterAssumption DEF ObsTypeOK, ClusterTypeOK, clusterVars, colVars, delVars
<1>1. CASE ListPath \/ CollectReadsHint \/ CollectReadsIndex \/ GetNextLSN \/ CollectEnds
  <2>1. /\ UNCHANGED <<clusterVars, collected, expired, delVars>>
        /\ cand' \subseteq File /\ currLsn' \in 0..MaxLsn
        /\ cpc' \in {"idle", "hint", "index", "lsn", "add"}
    <3>1. CASE ListPath
      BY <3>1 DEF ListPath
    <3>2. CASE CollectReadsHint \/ CollectReadsIndex
      BY <3>2 DEF CollectReadsHint, CollectReadsIndex
    <3>3. CASE GetNextLSN \/ CollectEnds
      BY <3>3 DEF GetNextLSN, CollectEnds
    <3> QED
      BY <1>1, <3>1, <3>2, <3>3
  <2> QED
    BY <2>1
<1>2. ASSUME NEW f \in File, AddToExpireIndex(f) PROVE ObsTypeOK'
  BY <1>2 DEF AddToExpireIndex
<1>3. CASE DeleteReadsHint \/ DeleteReadsIndex \/ ListBackups
  <2>1. CASE DeleteReadsHint
    BY Zenon, <2>1 DEF DeleteReadsHint
  <2>2. CASE DeleteReadsIndex
    BY <2>2 DEF DeleteReadsIndex, IndexReads
  <2>3. CASE ListBackups
    BY Zenon, <2>3 DEF ListBackups
  <2> QED
    BY Zenon, <1>3, <2>1, <2>2, <2>3
<1>4. CASE GetFirstLSN
  BY <1>4 DEF GetFirstLSN
<1>5. ASSUME NEW f \in File, HandleRow(f) PROVE ObsTypeOK'
  BY <1>5 DEF HandleRow, DeleteRows, worldVars, NoLsn
<1>6. ASSUME NEW f \in File, MoveCopy(f) \/ MoveDelete(f) PROVE ObsTypeOK'
  <2> HIDE DEF ObsTypeOK, ClusterTypeOK
  <2>1. dfile \subseteq File
    BY DEF ObsTypeOK
  <2> QED
    BY ZenonT(60), ZenonT(60), <1>6, <2>1, MoveEffect DEF worldVars, ObsTypeOK, ClusterTypeOK
<1>7. CASE DeleteEnds
  BY <1>7 DEF DeleteEnds, NoHints, NoLsn
<1>8. CASE Sessions
  BY <1>8, SessionsType
<1>9. CASE UNCHANGED vars
  BY <1>9 DEF vars
<1> QED
  BY <1>1, <1>2, <1>3, <1>4, <1>5, <1>6, <1>7, <1>8, <1>9 DEF ObsNext, Collect, Delete

-----------------------------------------------------------------------------
(* Useful files.                                                           *)

\* A file that is gone stays gone, and new backups begin after its drop.
LEMMA GoneStays ==
  ASSUME ObsTypeOK, WriterInv, [ObsNext]_vars, NEW f \in File, Gone(f)
  PROVE  /\ Gone(f)' /\ expired'[f] = expired[f]
         /\ \A b \in backups' : b \in backups \/ expired[f] < b
<1> USE DEF ObsTypeOK, ClusterTypeOK, Gone
<1>1. CASE Collect
  BY <1>1 DEF Collect, ListPath, CollectReadsHint, CollectReadsIndex, GetNextLSN,
     AddToExpireIndex, CollectEnds, clusterVars
<1>2. CASE Delete
  <2>1. ASSUME NEW g \in File, MoveCopy(g) \/ MoveDelete(g) PROVE UNCHANGED <<worldVars, expired>>
    BY <2>1 DEF MoveCopy, MoveDelete
  <2>2. UNCHANGED <<worldVars, expired>>
    BY Zenon, <1>2, <2>1 DEF Delete, DeleteReadsHint, DeleteReadsIndex, ListBackups, GetFirstLSN,
       HandleRow, DeleteEnds, clusterVars, worldVars
  <2> QED
    BY <2>2 DEF worldVars
<1>3. CASE Sessions
  <2>1. ASSUME NEW g \in File, DropRow(g), expired' = [expired EXCEPT ![g] = wal] PROVE g # f
    BY Zenon, <2>1 DEF DropRow
  <2>2. Gone(f)' /\ expired'[f] = expired[f]
    BY Zenon, <1>3, <2>1 DEF Sessions, BeginPut, PutFileToDest, CommitRow, AbortRow, DropRow,
       TakeBackup, RetireBackup
  <2>3. backups' \subseteq backups \cup {wal}
    BY <1>3 DEF Sessions, BeginPut, PutFileToDest, CommitRow, AbortRow, DropRow,
       TakeBackup, RetireBackup
  <2> QED
    BY <2>2, <2>3 DEF WriterInv
<1>4. CASE UNCHANGED vars
  BY <1>4 DEF vars, clusterVars
<1> QED
  BY <1>1, <1>2, <1>3, <1>4 DEF ObsNext

\* So a file of no use to any backup never becomes one.
LEMMA UselessStays ==
  ASSUME ObsTypeOK, WriterInv, [ObsNext]_vars, NEW f \in File, Gone(f), ~Needed(f)
  PROVE  ~Needed(f)'
<1>1. \A b \in backups : b \in Int
  BY DEF ObsTypeOK, ClusterTypeOK
<1>2. expired[f] \in Int
  BY DEF ObsTypeOK, NoLsn
<1>3. \A b \in backups' : b \in Int
  BY SMTT(60), ObsTypeStep DEF ObsTypeOK, ClusterTypeOK
<1> QED
  BY <1>1, <1>2, <1>3, GoneStays DEF Needed

\* The procedures leave the sessions alone, and remove from the regular tree
\* only what a deletion is moving.
LEMMA ProcedureEffect ==
  ASSUME ObsTypeOK, Collect \/ Delete
  PROVE  /\ UNCHANGED <<worldVars, expired>>
         /\ \A g \in File : hint'[g] = hint[g] \/ hint'[g] = NoLsn
         /\ \A g \in File : store'["reg"][g] = store["reg"][g] \/ g \in dfile
<1>1. ASSUME NEW f \in File, MoveCopy(f) \/ MoveDelete(f)
      PROVE  /\ UNCHANGED <<worldVars, expired, hint>>
             /\ \A g \in File : store'["reg"][g] = store["reg"][g] \/ g \in dfile
  BY Zenon, <1>1, MoveEffect
<1>2. ASSUME NEW f \in File, HandleRow(f)
      PROVE  /\ UNCHANGED <<worldVars, expired, store>>
             /\ \A g \in File : hint'[g] = hint[g] \/ hint'[g] = NoLsn
  BY Zenon, <1>2 DEF HandleRow, DeleteRows, ObsTypeOK, ClusterTypeOK
<1>3. CASE Collect
  BY Zenon, <1>3 DEF Collect, ListPath, CollectReadsHint, CollectReadsIndex, GetNextLSN,
     AddToExpireIndex, CollectEnds, clusterVars, worldVars
<1>4. CASE DeleteReadsHint \/ DeleteReadsIndex \/ ListBackups \/ GetFirstLSN \/ DeleteEnds
  BY <1>4 DEF DeleteReadsHint, DeleteReadsIndex, ListBackups, GetFirstLSN, DeleteEnds,
     clusterVars, worldVars
<1> QED
  BY ZenonT(60), <1>1, <1>2, <1>3, <1>4 DEF Delete

LEMMA WriterStep ==
  UsefulInv /\ [ObsNext]_vars => WriterInv' /\ UsefulFilesStay'
<1> SUFFICES ASSUME UsefulInv, [ObsNext]_vars PROVE WriterInv' /\ UsefulFilesStay'
  OBVIOUS
<1> USE DEF UsefulInv
<1>t. \A f \in File : expired[f] \in Int /\ hint[f] \in Int
  BY DEF ObsTypeOK, ClusterTypeOK, NoLsn
<1>1. CASE Collect \/ Delete
  <2>1. \A f \in dfile : Gone(f) /\ ~Needed(f)
    BY DEF DeleteInv
  <2>2. /\ UNCHANGED <<worldVars, expired>>
        /\ \A g \in File : hint'[g] = hint[g] \/ hint'[g] = NoLsn
        /\ \A g \in File : store'["reg"][g] = store["reg"][g] \/ g \in dfile
    BY <1>1, ProcedureEffect
  <2>3. UNCHANGED <<wal, vi, backups, phase>>
    BY <2>2 DEF worldVars
  <2>4. WriterInv'
    BY Zenon, <2>1, <2>2, <2>3 DEF WriterInv, Gone, Exists
  <2>5. UsefulFilesStay'
    BY Zenon, <2>1, <2>2, <2>3 DEF UsefulFilesStay, Needed, Gone, Exists
  <2> QED
    BY Zenon, <2>4, <2>5
<1>2. CASE Sessions
  <2> USE ClusterAssumption DEF ObsTypeOK, ClusterTypeOK, Area
  <2>n. ASSUME NEW t \in Nat PROVE Stamp(t) \in Int /\ Stamp(t) # NoObj
    BY StampNat DEF NoObj
  <2>1. ASSUME NEW f \in File, BeginPut(f), UNCHANGED expired
        PROVE  WriterInv' /\ UsefulFilesStay'
    <3>1. Stamp(now) \in Int /\ Stamp(now) # NoObj
      BY <2>n
    <3>2. \A g \in File : Exists("reg", g) => Exists("reg", g)'
      BY Zenon, <2>1, <3>1 DEF BeginPut, Exists
    <3>3. Backend = "fs" => Exists("reg", f)'
      BY Zenon, <2>1, <3>1 DEF BeginPut, Exists
    <3>4. WriterInv'
      BY Zenon, <1>t, <2>1, <3>2, <3>3 DEF WriterInv, BeginPut, Gone, Phase
    <3>5. UsefulFilesStay'
      BY <2>1, <3>2 DEF UsefulFilesStay, BeginPut, Needed
    <3> QED
      BY <3>4, <3>5
  <2>2. ASSUME NEW f \in File, PutFileToDest(f), UNCHANGED expired
        PROVE  WriterInv' /\ UsefulFilesStay'
    <3>1. PICK t \in began[f]..now :
            store' = IF Backend = "fs" /\ ~ Exists("reg", f) THEN store
                     ELSE [store EXCEPT !["reg"][f] = Stamp(t)]
      BY Zenon, <2>2 DEF PutFileToDest
    <3>2. Stamp(t) \in Int /\ Stamp(t) # NoObj
      BY <2>n
    <3>3. \A g \in File : Exists("reg", g) => Exists("reg", g)'
      BY Zenon, <3>1, <3>2 DEF Exists
    <3>4. Exists("reg", f)'
      BY Zenon, <2>2, <3>1, <3>2 DEF WriterInv, PutFileToDest, Exists
    <3>5. WriterInv'
      BY Zenon, <1>t, <2>2, <3>3, <3>4 DEF WriterInv, PutFileToDest, Gone, Phase
    <3>6. UsefulFilesStay'
      BY Zenon, <2>2, <3>3 DEF UsefulFilesStay, PutFileToDest, Needed
    <3> QED
      BY <3>5, <3>6
  <2>3. ASSUME NEW f \in File, CommitRow(f), UNCHANGED expired
        PROVE  WriterInv' /\ UsefulFilesStay'
    BY Zenon, <1>t, <2>3 DEF CommitRow, WriterInv, UsefulFilesStay, Gone, Needed, Exists, Phase
  <2>4. ASSUME NEW f \in File, AbortRow(f), UNCHANGED expired
        PROVE  WriterInv' /\ UsefulFilesStay'
    BY Zenon, <1>t, <2>4 DEF AbortRow, WriterInv, UsefulFilesStay, Gone, Needed, Exists, Phase
  <2>5. ASSUME NEW f \in File, DropRow(f), expired' = [expired EXCEPT ![f] = wal]
        PROVE  WriterInv' /\ UsefulFilesStay'
    <3>1. WriterInv'
      BY <1>t, <2>5 DEF DropRow, WriterInv, Gone, Exists, NoLsn
    <3>2. UsefulFilesStay'
      BY <1>t, <2>5 DEF DropRow, UsefulFilesStay, Needed, Exists
    <3> QED
      BY <3>1, <3>2
  <2>6. ASSUME TakeBackup \/ RetireBackup, UNCHANGED expired
        PROVE  WriterInv' /\ UsefulFilesStay'
    <3>1. /\ UNCHANGED <<store, vi, hint, phase>> /\ wal' \in Int /\ wal <= wal'
          /\ backups' \subseteq backups \cup {wal}
      BY <2>6 DEF TakeBackup, RetireBackup
    <3>2. \A b \in backups' : b < wal'
      <4>1. \A b \in backups : b \in Int /\ b < wal
        BY DEF WriterInv
      <4>2. CASE TakeBackup
        <5>1. backups' = backups \cup {wal} /\ wal' = wal + 1
          BY Zenon, <4>2 DEF TakeBackup
        <5> QED
          BY <4>1, <5>1
      <4>3. CASE RetireBackup
        BY Zenon, <4>1, <4>3 DEF RetireBackup
      <4> QED
        BY Zenon, <2>6, <4>2, <4>3
    <3>3. \A f \in File : expired[f] < wal'
      BY <1>t, <3>1 DEF WriterInv
    <3>4. WriterInv'
      BY Zenon, <2>6, <3>1, <3>2, <3>3 DEF WriterInv, Gone, Exists
    <3>5. UsefulFilesStay'
      BY SMTT(60), <1>t, <2>6, <3>1 DEF UsefulFilesStay, WriterInv, Needed, Exists
    <3> QED
      BY <3>4, <3>5
  <2> QED
    BY <1>2, <2>1, <2>2, <2>3, <2>4, <2>5, <2>6 DEF Sessions
<1>3. CASE UNCHANGED vars
  BY <1>3 DEF vars, clusterVars, WriterInv, UsefulFilesStay, Gone, Needed, Exists
<1> QED
  BY <1>1, <1>2, <1>3 DEF ObsNext

\* With no writer of a listed object under way when a collection starts, it
\* gives rows to files only that are gone.
LEMMA CollectStep ==
  ~WritersOverlap /\ Disturb = {} /\ UsefulInv /\ [ObsNext]_vars => CollectInv'
<1> SUFFICES ASSUME ~WritersOverlap, Disturb = {}, UsefulInv, [ObsNext]_vars PROVE CollectInv'
  OBVIOUS
<1> USE DEF UsefulInv
<1>t. \A f \in File : expired[f] \in Int /\ wal \in Int
  BY DEF ObsTypeOK, ClusterTypeOK, NoLsn
<1>g. \A f \in File : Gone(f) => Gone(f)' /\ expired'[f] = expired[f]
  BY GoneStays
<1>c. cand \subseteq File /\ collected \in [File -> SUBSET (0..MaxLsn)]
  BY Zenon DEF ObsTypeOK
<1>1. CASE ListPath
  BY Zenon, <1>1 DEF ListPath, CollectInv, Gone, clusterVars
<1>2. CASE CollectReadsHint
  BY Zenon, <1>2 DEF CollectReadsHint, CollectInv, Gone, clusterVars
<1>3. CASE CollectReadsIndex
  BY Zenon, <1>3 DEF CollectReadsIndex, IndexReads, CollectInv, Gone, clusterVars
<1>4. CASE GetNextLSN
  BY SMTT(60), <1>c, <1>t, <1>4 DEF GetNextLSN, CollectInv, WriterInv, Gone, clusterVars
<1>5. ASSUME NEW f \in File, AddToExpireIndex(f) PROVE CollectInv'
  BY Zenon, <1>c, <1>t, <1>5 DEF AddToExpireIndex, CollectInv, Gone, clusterVars
<1>6. CASE CollectEnds
  BY Zenon, <1>6 DEF CollectEnds, CollectInv, Gone, clusterVars
<1>7. CASE Delete
  <2>1. UNCHANGED <<worldVars, expired>>
    BY Zenon, <1>7, ProcedureEffect
  <2>2. ASSUME NEW f \in File, MoveCopy(f) \/ MoveDelete(f) PROVE UNCHANGED <<collected, colVars>>
    BY <2>2, MoveEffect
  <2>3. ASSUME NEW f \in File, HandleRow(f)
        PROVE  UNCHANGED colVars /\ \A g \in File : collected'[g] \in {collected[g], {}}
    BY Zenon, <1>c, <2>3 DEF HandleRow, DeleteRows
  <2>4. UNCHANGED colVars /\ \A g \in File : collected'[g] \in {collected[g], {}}
    BY Zenon, <1>7, <2>2, <2>3 DEF Delete, DeleteReadsHint, DeleteReadsIndex, ListBackups, GetFirstLSN,
       DeleteEnds
  <2> QED
    BY Zenon, <1>c, <2>1, <2>4 DEF CollectInv, Gone, worldVars, colVars
<1>8. CASE Sessions
  <2>1. UNCHANGED <<collected, cpc, cand, currLsn>>
    BY Zenon, <1>8 DEF Sessions, colVars
  <2>2. \A f \in File : phase[f] = "done" => phase'[f] = "done"
    BY Zenon, <1>8 DEF Sessions, BeginPut, PutFileToDest, CommitRow, AbortRow, DropRow, TakeBackup,
       RetireBackup, ObsTypeOK, ClusterTypeOK
  <2> QED
    BY <1>c, <1>g, <2>1, <2>2 DEF CollectInv, Gone
<1>9. CASE UNCHANGED vars
  BY <1>9 DEF vars, clusterVars, colVars, CollectInv, Gone
<1> QED
  BY <1>1, <1>2, <1>3, <1>4, <1>5, <1>6, <1>7, <1>8, <1>9 DEF ObsNext, Collect

\* What a deletion knows of the rows and the backups stays good enough.
LEMMA DeleteStep ==
  Disturb = {} /\ UsefulInv /\ [ObsNext]_vars => DeleteInv'
<1> SUFFICES ASSUME Disturb = {}, UsefulInv, [ObsNext]_vars PROVE DeleteInv'
  OBVIOUS
<1> USE DEF UsefulInv
<1>t. /\ \A f \in File : expired[f] \in Int /\ dei[f] \in Int /\ hint[f] \in Int
                        /\ \A v \in collected[f] : v \in Int
      /\ \A b \in backups : b \in Int
      /\ dei \in [File -> {NoLsn} \cup 0..MaxLsn] /\ dfile \subseteq File
      /\ dlisted \subseteq 0..MaxLsn /\ wal \in Int
  BY DEF ObsTypeOK, ClusterTypeOK, NoLsn
<1>g. \A f \in File : Gone(f) =>
        /\ Gone(f)' /\ expired'[f] = expired[f]
        /\ \A b \in backups' : b \in backups \/ expired[f] < b
  BY GoneStays
<1>u. \A f \in File : Gone(f) /\ ~Needed(f) => ~Needed(f)'
  BY Zenon, UselessStays
<1>1. CASE DeleteReadsHint
  <2>1. \A f \in File : dei'[f] # NoLsn => dei'[f] \in Rows(f)
    BY Zenon, <1>1 DEF DeleteReadsHint
  <2>2. \A f \in File : Rows(f) # {} => Gone(f)
    BY Zenon DEF Rows, WriterInv, CollectInv
  <2>3. \A f \in File : \A v \in Rows(f) : expired[f] <= v
    BY <1>t DEF Rows, WriterInv, CollectInv
  <2>4. UNCHANGED <<wal, dlisted, clusterVars, expired, dfile>> /\ dpc' = "index"
    BY Zenon, <1>1 DEF DeleteReadsHint, clusterVars
  <2> QED
    BY Zenon, <1>t, <1>g, <1>u, <2>1, <2>2, <2>3, <2>4 DEF DeleteInv
<1>2. CASE DeleteReadsIndex
  BY Zenon, <1>2 DEF DeleteReadsIndex, DeleteInv, Gone, Needed, clusterVars
<1>3. CASE ListBackups
  <2>1. PICK l \in 0..MaxLsn : dlisted' = {b \in backups : b <= l}
    BY Zenon, <1>3 DEF ListBackups
  <2>2. UNCHANGED <<clusterVars, expired, dei, dfile>> /\ dpc' = "sentinels"
    BY Zenon, <1>3 DEF ListBackups
  <2>3. \A b \in backups, d \in dlisted' : b \in dlisted' \/ d < b
    BY <1>t, <2>1
  <2>4. \A d \in dlisted' : d < wal
    BY Zenon, <2>1 DEF WriterInv
  <2> QED
    BY ZenonT(60), <2>2, <2>3, <2>4 DEF DeleteInv, Gone, Needed, clusterVars
<1>4. CASE GetFirstLSN
  <2>1. /\ UNCHANGED <<clusterVars, expired, dei, dfile>>
        /\ dpc = "sentinels" /\ dpc' = "each" /\ dlisted' = {}
    BY Zenon, <1>4 DEF GetFirstLSN
  <2>2. PICK read \in SUBSET (dlisted \cap backups) :
          /\ read = dlisted \cap backups
          /\ dfirst' \in read /\ \A b \in read : dfirst' <= b
    BY Zenon, <1>4 DEF GetFirstLSN
  <2>3. \A b \in backups : dfirst' \in Int /\ dfirst' <= b
    BY <1>t, <2>1, <2>2 DEF DeleteInv
  <2>4. ASSUME NEW f \in File, dei[f] # NoLsn, dei[f] < dfirst' PROVE ~Needed(f)
    <3>1. expired[f] <= dei[f]
      BY Zenon, <2>4 DEF DeleteInv
    <3> QED
      BY <1>t, <2>3, <2>4, <3>1 DEF Needed
  <2> QED
    BY Zenon, <1>t, <1>g, <1>u, <2>1, <2>4 DEF DeleteInv, IsObsolete
<1>5. ASSUME NEW f \in File, HandleRow(f) PROVE DeleteInv'
  <2>1. /\ UNCHANGED <<wal, worldVars, expired, dfirst, dlisted>>
        /\ dei' = [dei EXCEPT ![f] = NoLsn]
        /\ IsObsolete(f) /\ dpc = "each" /\ dpc' \in {"each", "move"}
        /\ dfile' \subseteq dfile \cup {f}
    BY Zenon, <1>5 DEF HandleRow, worldVars
  <2>2. Gone(f) /\ ~Needed(f)
    BY Zenon, <2>1 DEF DeleteInv, IsObsolete
  <2> QED
    BY <1>t, <1>g, <1>u, <2>1, <2>2 DEF DeleteInv, IsObsolete
<1>6. ASSUME NEW f \in File, MoveCopy(f) \/ MoveDelete(f) PROVE DeleteInv'
  <2>1. /\ UNCHANGED <<wal, dlisted, worldVars, expired, dei, dfirst>>
        /\ dpc \in {"move", "copied"} /\ dpc' \in {"each", "copied"} /\ dfile' \subseteq dfile
    BY Zenon, <1>6, MoveEffect DEF worldVars
  <2> QED
    BY Zenon, <1>t, <1>g, <1>u, <2>1 DEF DeleteInv, IsObsolete
<1>7. CASE DeleteEnds
  BY Zenon, <1>7 DEF DeleteEnds, DeleteInv, NoHints
<1>8. CASE Collect \/ Sessions \/ UNCHANGED vars
  <2>1. UNCHANGED <<dpc, dei, dlisted, dfirst, dfile>>
    BY ZenonT(60), <1>8 DEF Collect, ListPath, CollectReadsHint, CollectReadsIndex, GetNextLSN,
       AddToExpireIndex, CollectEnds, Sessions, vars, delVars
  <2>2. dpc = "sentinels" => \A b \in backups', d \in dlisted : b \in dlisted \/ d < b
    <3>1. backups' \subseteq backups \cup {wal}
      BY ZenonT(60), <1>8 DEF Collect, ListPath, CollectReadsHint, CollectReadsIndex, GetNextLSN,
         AddToExpireIndex, CollectEnds, Sessions, BeginPut, PutFileToDest, CommitRow, AbortRow,
         DropRow, TakeBackup, RetireBackup, vars, clusterVars
    <3> QED
      BY Zenon, <3>1 DEF DeleteInv
  <2>3. \A d \in dlisted : d < wal'
    <3>1. wal' \in Int /\ wal <= wal'
      <4>1. UNCHANGED wal \/ wal' = wal + 1
        BY ZenonT(60), <1>8 DEF Collect, ListPath, CollectReadsHint, CollectReadsIndex, GetNextLSN,
           AddToExpireIndex, CollectEnds, Sessions, BeginPut, PutFileToDest, CommitRow, AbortRow,
           DropRow, TakeBackup, RetireBackup, vars, clusterVars
      <4> QED
        BY <1>t, <4>1
    <3> QED
      BY <1>t, <3>1 DEF DeleteInv
  <2> QED
    BY Zenon, <1>t, <1>g, <1>u, <2>1, <2>2, <2>3 DEF DeleteInv, IsObsolete
<1> QED
  BY <1>1, <1>2, <1>3, <1>4, <1>5, <1>6, <1>7, <1>8 DEF ObsNext, Delete

LEMMA UsefulInit ==
  ObsInit => UsefulInv
<1> SUFFICES ASSUME ObsInit PROVE UsefulInv
  OBVIOUS
<1>1. ObsTypeOK
  BY ObsInitType
<1>2. \A f \in File : expired[f] = NoLsn /\ hint[f] = NoLsn /\ collected[f] = {}
                      /\ dei[f] = NoLsn /\ phase[f] = "new"
  BY Zenon DEF ObsInit, ClusterInit, NoHints, NoRows
<1>3. vi = {} /\ wal = 1 /\ cand = {} /\ dfile = {} /\ dlisted = {} /\ dpc = "idle" /\ cpc = "idle"
  BY DEF ObsInit, ClusterInit
<1>4. WriterInv
  <2>0. NoLsn \in Int /\ NoLsn < 1
    BY DEF NoLsn
  <2>1. \A f \in File : expired[f] < wal
    BY Zenon, <1>2, <1>3, <2>0
  <2>2. \A b \in backups : b < wal
    BY <1>3, ClusterAssumption DEF ObsInit, ClusterInit
  <2> QED
    BY Zenon, <1>2, <1>3, <2>1, <2>2 DEF WriterInv
<1>5. CollectInv /\ DeleteInv
  BY Zenon, <1>2, <1>3 DEF CollectInv, DeleteInv
<1>6. UsefulFilesStay
  BY <1>2, <1>3 DEF UsefulFilesStay, Needed
<1> QED
  BY <1>1, <1>4, <1>5, <1>6 DEF UsefulInv

\* ProcessCollectObsolete and ProcessDeleteObsolete: a file in use or needed by
\* a backup stays in the regular tree, provided that the writers of the listed
\* objects were through when the collection listed them, that no read of the
\* virtual index ended early and that every sentinel could be read; reads of
\* the expire hint may end early and listings may be out of date.
THEOREM UsefulFilesAreKept ==
  ~WritersOverlap /\ Disturb = {} => (ObsSpec => []UsefulFilesStay)
<1> SUFFICES ASSUME ~WritersOverlap, Disturb = {} PROVE ObsSpec => []UsefulFilesStay
  OBVIOUS
<1>1. UsefulInv /\ [ObsNext]_vars => UsefulInv'
  BY ObsTypeStep, WriterStep, CollectStep, DeleteStep DEF UsefulInv
<1>2. UsefulInv => UsefulFilesStay
  BY Zenon DEF UsefulInv
<1> QED
  BY <1>1, <1>2, UsefulInit, PTL DEF ObsSpec

-----------------------------------------------------------------------------
(* Nothing is lost.                                                        *)

\* A file that a deletion is about to remove from the regular tree has its
\* copy in trash.
LEMMA CopiedStep ==
  CopiedInv /\ [ObsNext]_vars => CopiedInv'
<1> SUFFICES ASSUME CopiedInv, [ObsNext]_vars PROVE CopiedInv'
  OBVIOUS
<1> USE DEF CopiedInv
<1>0. ObsTypeOK'
  BY Zenon, ObsTypeStep
<1>s. store \in [Area -> [File -> Int]] /\ now \in Nat
  BY DEF ObsTypeOK, ClusterTypeOK
<1>1. ASSUME NEW f \in File, MoveCopy(f) PROVE CopiedInv'
  <2>1. f \in dfile /\ dfile' \subseteq dfile
    BY <1>1 DEF MoveCopy
  <2>2. ASSUME dpc' = "copied" PROVE Exists("trash", f)'
    <3>1. SScopyObject("reg", "trash", f)
      BY <1>1, <2>2 DEF MoveCopy
    <3>2. Stamp(now) \in Nat
      BY <1>s, StampNat
    <3> QED
      BY <1>s, <3>1, <3>2 DEF SScopyObject, Exists, Area, NoObj
  <2> QED
    BY <1>0, <2>1, <2>2
<1>2. ASSUME NEW f \in File, MoveDelete(f) PROVE CopiedInv'
  BY <1>0, <1>2 DEF MoveDelete
<1>3. ASSUME NEW f \in File, HandleRow(f) PROVE CopiedInv'
  BY Zenon, <1>0, <1>3 DEF HandleRow
<1>4. CASE DeleteReadsHint \/ DeleteReadsIndex \/ ListBackups \/ GetFirstLSN \/ DeleteEnds
  BY <1>0, <1>4 DEF DeleteReadsHint, DeleteReadsIndex, ListBackups, GetFirstLSN, DeleteEnds
<1>5. CASE Collect \/ Sessions \/ UNCHANGED vars
  <2>1. UNCHANGED <<dpc, dfile>>
    BY ZenonT(60), <1>5 DEF Collect, ListPath, CollectReadsHint, CollectReadsIndex, GetNextLSN,
       AddToExpireIndex, CollectEnds, Sessions, vars, delVars
  <2>2. store'["trash"] = store["trash"]
    BY <1>s, <1>5 DEF Collect, ListPath, CollectReadsHint, CollectReadsIndex, GetNextLSN,
       AddToExpireIndex, CollectEnds, Sessions, BeginPut, PutFileToDest, CommitRow, AbortRow,
       DropRow, TakeBackup, RetireBackup, vars, clusterVars, Area
  <2> QED
    BY Zenon, <1>0, <2>1, <2>2 DEF Exists
<1> QED
  BY <1>1, <1>2, <1>3, <1>4, <1>5 DEF ObsNext, Delete

\* MoveObject, called by ProcessDeleteObsolete after the rows are gone: no step
\* of a procedure or a session makes the last copy of a file disappear.
THEOREM ObsoleteIsNotLost ==
  ObsSpec => ObsoleteNotLost
<1> DEFINE Kept == \A f \in File :
             (\E a \in Area : Exists(a, f)) => (\E a \in Area : Exists(a, f)')
<1>1. ObsInit => CopiedInv
  BY SMTT(60), ObsInitType DEF ObsInit, CopiedInv
<1>2. CopiedInv /\ [ObsNext]_vars => [Kept]_vars
  <2> SUFFICES ASSUME CopiedInv, [ObsNext]_vars PROVE Kept
    BY Zenon
  <2>s. store \in [Area -> [File -> Int]] /\ now \in Nat /\ began \in [File -> 0..MaxTime]
    BY DEF CopiedInv, ObsTypeOK, ClusterTypeOK
  <2>n. ASSUME NEW t \in Nat PROVE Stamp(t) \in Int /\ Stamp(t) # NoObj
    BY SMTT(60), StampNat DEF NoObj
  <2>1. CASE Collect \/ UNCHANGED vars
    BY Zenon, <2>1 DEF Collect, ListPath, CollectReadsHint, CollectReadsIndex, GetNextLSN,
       AddToExpireIndex, CollectEnds, vars, clusterVars, Exists
  <2>2. ASSUME NEW f \in File, MoveCopy(f) PROVE Kept
    <3>1. CASE UNCHANGED store
      BY <3>1 DEF Exists
    <3>2. CASE Rename("reg", "trash", f)
      BY <2>s, <3>2 DEF Rename, Exists, Area
    <3>3. CASE SScopyObject("reg", "trash", f)
      <4>1. Stamp(now) \in Int /\ Stamp(now) # NoObj
        BY Zenon, <2>s, <2>n
      <4> QED
        BY <2>s, <3>3, <4>1 DEF SScopyObject, Exists, Area
    <3> QED
      BY <2>2, <3>1, <3>2, <3>3 DEF MoveCopy
  <2>3. ASSUME NEW f \in File, MoveDelete(f) PROVE Kept
    <3>1. Exists("trash", f) /\ store'["trash"] = store["trash"]
      BY <2>s, <2>3 DEF MoveDelete, DeleteObject, CopiedInv, Area
    <3>2. \A g \in File \ {f} : store'["reg"][g] = store["reg"][g]
      BY <2>s, <2>3 DEF MoveDelete, DeleteObject, Area
    <3> QED
      BY Zenon, <3>1, <3>2 DEF Exists, Area
  <2>4. CASE Delete /\ UNCHANGED store
    BY Zenon, <2>4 DEF Exists
  <2>5. CASE Sessions
    <3>1. ASSUME NEW f \in File, BeginPut(f) PROVE Kept
      <4>1. Stamp(now) \in Int /\ Stamp(now) # NoObj
        BY <2>s, <2>n
      <4> QED
        BY Zenon, <2>s, <3>1, <4>1 DEF BeginPut, Exists, Area
    <3>2. ASSUME NEW f \in File, PutFileToDest(f) PROVE Kept
      <4>1. PICK t \in began[f]..now :
              store' = IF Backend = "fs" /\ ~ Exists("reg", f) THEN store
                       ELSE [store EXCEPT !["reg"][f] = Stamp(t)]
        BY <3>2 DEF PutFileToDest
      <4>2. Stamp(t) \in Int /\ Stamp(t) # NoObj
        BY <2>s, <2>n
      <4> QED
        BY <2>s, <4>1, <4>2 DEF Exists, Area
    <3>3. CASE UNCHANGED store
      BY <3>3 DEF Exists
    <3> QED
      BY Zenon, <2>5, <3>1, <3>2, <3>3 DEF Sessions, CommitRow, AbortRow, DropRow, TakeBackup, RetireBackup
  <2> QED
    BY Zenon, <2>1, <2>2, <2>3, <2>4, <2>5 DEF ObsNext, Delete, DeleteReadsHint, DeleteReadsIndex,
       ListBackups, GetFirstLSN, HandleRow, DeleteEnds, clusterVars
<1> QED
  BY <1>1, <1>2, CopiedStep, PTL DEF ObsSpec, ObsoleteNotLost
=============================================================================
