---------------------------- MODULE GarbageSystem ----------------------------
(***************************************************************************)
(* The three garbage procedures of BasicGarbageMgr on one store: a vacuum  *)
(* moves files to trash (Vacuum), an untrashify moves them back and a      *)
(* prefix delete empties the trash (Trash).  Each is a request of its own  *)
(* connection, and ProcConn has nothing that keeps two of them from        *)
(* running at the same time; Overlap says which may.                       *)
(***************************************************************************)
EXTENDS Vacuum, Trash

CONSTANT Overlap  \* the pairs of procedures that may run at the same time

Procedure == {"vacuum", "untrashify", "delete2"}

ASSUME OverlapAssumption == Overlap \subseteq SUBSET Procedure

VARIABLE trashed  \* history: when the object a file has in trash appeared

sysVars == <<vars, trashVars, trashed>>

Running ==
  {p \in Procedure :
     \/ p = "vacuum" /\ vpc # "idle"
     \/ p = "untrashify" /\ upc # "idle"
     \/ p = "delete2" /\ tpc # "idle"}

MayStart(p) == \A q \in Running : {p, q} \in Overlap

SysTypeOK ==
  /\ TypeOK
  /\ TrashTypeOK
  /\ trashed \in [File -> 0..MaxTime]

SysInit == Init /\ TrashInit /\ trashed = [f \in File |-> 0]

Record ==
  trashed' = [f \in File |->
                IF ~ Exists("trash", f) /\ Exists("trash", f)' THEN now
                ELSE trashed[f]]

\* A request arrives on a connection, or the process dies.
Start ==
  \/ DeleteGarbage /\ MayStart("vacuum") /\ UNCHANGED trashVars
  \/ HandleUntrashifyFile /\ MayStart("untrashify") /\ UNCHANGED vacVars
  \/ ListDelete2Files /\ MayStart("delete2") /\ UNCHANGED vacVars
  \/ Crash /\ UNCHANGED trashVars

VacuumStep == Handler /\ UNCHANGED trashVars /\ Record
UntrashifyStep == Untrashify /\ UNCHANGED vacVars /\ Record
Delete2Step == Delete2 /\ UNCHANGED vacVars /\ Record

SysNext ==
  \/ Start /\ Record
  \/ VacuumStep
  \/ UntrashifyStep
  \/ Delete2Step
  \/ Sessions /\ UNCHANGED <<vacVars, trashVars>> /\ Record

SysSpec == SysInit /\ [][SysNext]_sysVars

\* The goroutine of every connection is scheduled.
SysFairSpec ==
  /\ SysSpec
  /\ WF_sysVars(VacuumStep)
  /\ WF_sysVars(UntrashifyStep)
  /\ WF_sysVars(Delete2Step)

-----------------------------------------------------------------------------

(* The last copy of a file disappears only where somebody asked for it: in *)
(* a vacuum with crazy drop, or in a prefix delete.  Everything else moves *)
(* files back and forth without losing one, whatever fails on the way.     *)
LostOnlyOnPurpose ==
  [][\A f \in File :
       Stored(f) => Stored(f)' \/ mode = "crazy" \/ f \in tlist]_sysVars

(* README.md:16: trash_retention_days is the "Number of days a file stays  *)
(* in `/trash` before being permanently removed": DeletePrefixInBucket     *)
(* does not remove an object that came to trash more recently.             *)
RetentionHonoured ==
  [][\A f \in File :
       Exists("trash", f) /\ tpc = "pass" /\ f \in tlist /\ f \notin tlist'
         => Exists("trash", f)' \/ now > trashed[f] + Retention]_sysVars

(* delete_handler.go:65: HandleUntrashifyFile "restores files from trash   *)
(* rather than deleting them": when it reports success every object it     *)
(* listed is back in the regular tree.                                     *)
UntrashifyRestores ==
  upc = "ok" => \A f \in ugoal : Exists("reg", f)

(* Every untrashify and every prefix delete comes to an end, whatever      *)
(* fails: the retry loop of DeletePrefixInBucket is limited.               *)
TrashRequestsEnd ==
  /\ upc # "idle" ~> upc = "idle"
  /\ tpc # "idle" ~> tpc = "idle"

=============================================================================
