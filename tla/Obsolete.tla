------------------------------ MODULE Obsolete ------------------------------
(***************************************************************************)
(* yezzey_collect_obsolete and yezzey_delete_obsolete: ProcessCollect-     *)
(* Obsolete gives the files that no index knows a row of the expire hint,  *)
(* ProcessDeleteObsolete moves files to trash whose row is older than the  *)
(* oldest backup (pkg/proc/interaction.go).  Both run against the sessions *)
(* of Cluster, and neither looks at the age of a file.                     *)
(***************************************************************************)
EXTENDS Cluster

CONSTANTS
  WritersOverlap,  \* whether a collection may start before the writers of the
                   \* objects it lists have committed or aborted
  Disturb          \* what may go wrong unnoticed: "rows", a read of the virtual
                   \* index ends early (rows.Err is not looked at); "sentinel",
                   \* a sentinel cannot be opened, read or parsed

ASSUME ObsoleteAssumption ==
  /\ WritersOverlap \in BOOLEAN
  /\ Disturb \subseteq {"rows", "sentinel"}

VARIABLES
  collected,  \* the LSNs of the rows collections have inserted for a file
  expired,    \* history: the LSN at which a file left the virtual index
  cpc,        \* where ProcessCollectObsolete is
  cand,       \* listed files it has found in no index so far
  currLsn,    \* curr_lsn
  dpc,        \* where ProcessDeleteObsolete is
  dei,        \* the rows it has read, one per file, not yet handled
  dvi,        \* the virtual index it has read
  dlisted,    \* the backups GetFirstLSN has listed
  dfirst,     \* first_backup_lsn
  dfile       \* the file it is moving to trash

colVars == <<cpc, cand, currLsn>>
delVars == <<dpc, dei, dvi, dlisted, dfirst, dfile>>
vars == <<clusterVars, collected, expired, colVars, delVars>>
worldVars == <<now, wal, vi, backups, phase, began>>

NoHints == [f \in File |-> NoLsn]
NoRows == [f \in File |-> {}]

\* What a query of the virtual index may return.
IndexReads == IF "rows" \in Disturb THEN SUBSET vi ELSE {vi}

\* All rows the expire hint has for a file: the table has no unique key.
Rows(f) == ({hint[f]} \ {NoLsn}) \cup collected[f]

\* A restore may need a file: it went out of use at or after the start of a
\* backup, whether or not the expire hint still says so.
Needed(f) == expired[f] # NoLsn /\ \E b \in backups : b <= expired[f]

ObsTypeOK ==
  /\ ClusterTypeOK
  /\ collected \in [File -> SUBSET (0..MaxLsn)]
  /\ expired \in [File -> {NoLsn} \cup 0..MaxLsn]
  /\ cpc \in {"idle", "hint", "index", "lsn", "add"}
  /\ cand \subseteq File
  /\ currLsn \in 0..MaxLsn
  /\ dpc \in {"idle", "index", "backups", "sentinels", "each", "move", "copied"}
  /\ dei \in [File -> {NoLsn} \cup 0..MaxLsn]
  /\ dvi \subseteq File
  /\ dlisted \subseteq 0..MaxLsn
  /\ dfirst \in 0..MaxLsn
  /\ dfile \subseteq File

ObsInit ==
  /\ ClusterInit
  /\ collected = NoRows /\ expired = NoHints
  /\ cpc = "idle" /\ cand = {} /\ currLsn = 0
  /\ dpc = "idle" /\ dei = NoHints /\ dvi = {} /\ dlisted = {}
  /\ dfirst = 0 /\ dfile = {}

-----------------------------------------------------------------------------
(* ProcessCollectObsolete.                                                 *)

\* The listing may be a cached one: it lacks new objects and has some that
\* were moved since.
ListPath ==
  /\ cpc = "idle"
  /\ cand' \in SUBSET {f \in File : \E a \in Area : Exists(a, f)}
  /\ WritersOverlap \/ \A f \in cand' : phase[f] = "done"
  /\ cpc' = "hint"
  /\ UNCHANGED <<clusterVars, collected, expired, currLsn, delVars>>

\* GetVirtualExpireIndexes reads the expire hint, to its end or, unnoticed,
\* only in part ...
CollectReadsHint ==
  /\ cpc = "hint"
  /\ \E read \in SUBSET {f \in cand : Rows(f) # {}} : cand' = cand \ read
  /\ cpc' = "index"
  /\ UNCHANGED <<clusterVars, collected, expired, currLsn, delVars>>

\* Faulty variant: the virtual index is not looked at.
CollectIgnoresIndex ==
  /\ cpc = "index"
  /\ cpc' = "lsn"
  /\ UNCHANGED <<clusterVars, collected, expired, cand, currLsn, delVars>>

\* ... and then the virtual index.
CollectReadsIndex ==
  /\ cpc = "index"
  /\ \E rows \in IndexReads : cand' = cand \ rows
  /\ cpc' = "lsn"
  /\ UNCHANGED <<clusterVars, collected, expired, currLsn, delVars>>

GetNextLSN ==
  /\ cpc = "lsn"
  /\ currLsn' = wal
  /\ cpc' = "add"
  /\ UNCHANGED <<clusterVars, collected, expired, cand, delVars>>

\* One row.  An error is reported and the loop goes on; one that the server
\* reports after conn.Query has returned is not seen at all.
AddToExpireIndex(f) ==
  /\ cpc = "add" /\ f \in cand
  /\ cand' = cand \ {f}
  /\ collected' \in {collected, [collected EXCEPT ![f] = @ \cup {currLsn}]}
  /\ UNCHANGED <<clusterVars, expired, cpc, currLsn, delVars>>

\* The loop is over, a call before it has failed, or the process has died.
CollectEnds ==
  /\ cpc # "idle"
  /\ cpc' = "idle" /\ cand' = {} /\ currLsn' = 0
  /\ UNCHANGED <<clusterVars, collected, expired, delVars>>

-----------------------------------------------------------------------------
(* ProcessDeleteObsolete.                                                  *)

\* GetVirtualExpireIndexes: of several rows for a file the last one read
\* stays in the map; when the read ends early there may be none.
DeleteReadsHint ==
  /\ dpc = "idle"
  /\ dei' \in [File -> {NoLsn} \cup 0..MaxLsn]
  /\ \A f \in File : dei'[f] \in Rows(f) \cup {NoLsn}
  /\ dpc' = "index"
  /\ UNCHANGED <<clusterVars, collected, expired, colVars, dvi,
                 dlisted, dfirst, dfile>>

DeleteReadsIndex ==
  /\ dpc = "index"
  /\ dvi' \in IndexReads
  /\ dpc' = "backups"
  /\ UNCHANGED <<clusterVars, collected, expired, colVars, dei,
                 dlisted, dfirst, dfile>>

\* GetFirstLSN lists the sentinels, of which a cached listing has the older
\* ones only ...
ListBackups ==
  /\ dpc = "backups"
  /\ \E l \in 0..MaxLsn : dlisted' = {b \in backups : b <= l}
  /\ dpc' = "sentinels"
  /\ UNCHANGED <<clusterVars, collected, expired, colVars, dei, dvi, dfirst,
                 dfile>>

\* Faulty variant: the newest backup counts instead of the oldest.
GetNewestLSN ==
  /\ dpc = "sentinels"
  /\ LET read == dlisted \cap backups IN
       dfirst' \in read /\ \A b \in read : b <= dfirst'
  /\ dlisted' = {} /\ dpc' = "each"
  /\ UNCHANGED <<clusterVars, collected, expired, colVars, dei, dvi, dfile>>

\* ... and takes the least LSN of those that still exist and that it can
\* read, skipping the others.  When there is none the request is refused.
GetFirstLSN ==
  /\ dpc = "sentinels"
  /\ \E read \in SUBSET (dlisted \cap backups) :
       /\ "sentinel" \notin Disturb => read = dlisted \cap backups
       /\ dfirst' \in read /\ \A b \in read : dfirst' <= b
  /\ dlisted' = {} /\ dpc' = "each"
  /\ UNCHANGED <<clusterVars, collected, expired, colVars, dei, dvi, dfile>>

\* v >= first_backup_lsn: the row is left alone.
IsObsolete(f) == dei[f] # NoLsn /\ dei[f] < dfirst

\* DeleteFromExpireIndex removes all rows of the path.
DeleteRows(f) ==
  /\ hint' = [hint EXCEPT ![f] = NoLsn]
  /\ collected' = [collected EXCEPT ![f] = {}]

\* The body of the loop for one row, up to MoveObject.  A live file loses its
\* rows only.  The row stays and the file is left alone when its path is not
\* one the request names or the statement fails; an error the server reports
\* after conn.Query has returned is not seen.
HandleRow(f) ==
  /\ dpc = "each" /\ IsObsolete(f)
  /\ dei' = [dei EXCEPT ![f] = NoLsn]
  /\ DeleteRows(f) \/ UNCHANGED <<hint, collected>>
  /\ \/ f \notin dvi /\ dpc' = "move" /\ dfile' = {f}
     \/ UNCHANGED <<dpc, dfile>>
  /\ UNCHANGED <<worldVars, store, expired, colVars, dvi, dlisted, dfirst>>

\* Faulty variant: the error of the copy is not looked at.
MoveCopyUnchecked(f) ==
  /\ dpc = "move" /\ f \in dfile
  /\ SScopyObject("reg", "trash", f) \/ UNCHANGED store
  /\ dpc' = "copied" /\ UNCHANGED dfile
  /\ UNCHANGED <<worldVars, hint, collected, expired, colVars, dei, dvi,
                 dlisted, dfirst>>

\* MoveObject: one rename on a file system; on S3 a copy, whose answer may be
\* lost ...
MoveCopy(f) ==
  /\ dpc = "move" /\ f \in dfile
  /\ \/ /\ IF Backend = "fs" THEN Rename("reg", "trash", f)
           ELSE SScopyObject("reg", "trash", f)
        /\ dpc' \in IF Backend = "fs" THEN {"each"} ELSE {"copied", "each"}
     \/ UNCHANGED store /\ dpc' = "each"
  /\ dfile' = IF dpc' = "copied" THEN dfile ELSE {}
  /\ UNCHANGED <<worldVars, hint, collected, expired, colVars, dei, dvi,
                 dlisted, dfirst>>

\* ... and a delete.
MoveDelete(f) ==
  /\ dpc = "copied" /\ f \in dfile
  /\ DeleteObject("reg", f) \/ UNCHANGED store
  /\ dpc' = "each" /\ dfile' = {}
  /\ UNCHANGED <<worldVars, hint, collected, expired, colVars, dei, dvi,
                 dlisted, dfirst>>

\* The loop is over, a call before it has failed, or the process has died.
DeleteEnds ==
  /\ dpc # "idle"
  /\ dpc' = "idle" /\ dei' = NoHints /\ dvi' = {} /\ dlisted' = {}
  /\ dfirst' = 0 /\ dfile' = {}
  /\ UNCHANGED <<clusterVars, collected, expired, colVars>>

-----------------------------------------------------------------------------

Collect ==
  \/ ListPath
  \/ CollectReadsHint
  \/ CollectReadsIndex
  \/ GetNextLSN
  \/ \E f \in File : AddToExpireIndex(f)
  \/ CollectEnds

Delete ==
  \/ DeleteReadsHint
  \/ DeleteReadsIndex
  \/ ListBackups
  \/ GetFirstLSN
  \/ \E f \in File :
       HandleRow(f) \/ MoveCopy(f) \/ MoveDelete(f)
  \/ DeleteEnds

Sessions ==
  /\ \/ \E f \in File :
          \/ BeginPut(f) /\ UNCHANGED expired
          \/ PutFileToDest(f) /\ UNCHANGED expired
          \/ CommitRow(f) /\ UNCHANGED expired
          \/ AbortRow(f) /\ UNCHANGED expired
          \/ DropRow(f) /\ expired' = [expired EXCEPT ![f] = wal]
     \/ (TakeBackup \/ RetireBackup) /\ UNCHANGED expired
  /\ UNCHANGED <<collected, colVars, delVars>>

ObsNext == Collect \/ Delete \/ Sessions

ObsSpec == ObsInit /\ [][ObsNext]_vars

-----------------------------------------------------------------------------

(* interaction.go:675: "wal-g backups required for consistent deleting":   *)
(* a file that is in use, or that a restore from an existing backup needs, *)
(* is in the regular tree, although both procedures read the indexes and   *)
(* the backups at different times, drops, new backups and backup retention *)
(* go on in between, listings come from a cache and a read of the expire   *)
(* hint may end early.  This needs complete reads of the virtual index and *)
(* readable sentinels (Disturb = {}).                                      *)
UsefulFilesStay ==
  \A f \in File : f \in vi \/ Needed(f) => Exists("reg", f)

(* MoveObject never loses a file, although its rows of the expire hint are *)
(* deleted before it and the error of each call is only logged.            *)
ObsoleteNotLost ==
  [][\A f \in File :
       (\E a \in Area : Exists(a, f)) => (\E a \in Area : Exists(a, f)')]_vars

=============================================================================
