------------------------------- MODULE Uploads -------------------------------
(***************************************************************************)
(* Multipart uploads and the garbage procedures that abort the failed ones *)
(* (pkg/storage/s3storage.go): PutFileToDest registers a key while it      *)
(* uploads; ListFailedMultipartUploads takes every upload of the bucket    *)
(* whose key is not registered for failed; vacuum and prefix delete abort  *)
(* these at their end (pkg/proc/delete_handler.go).                        *)
(***************************************************************************)
EXTENDS Integers, FiniteSets

CONSTANTS
  Own,      \* uploads of this process
  Foreign,  \* uploads of other processes to the same bucket
  Names,    \* keys
  KeyOf,    \* the key of each upload
  Sweeps    \* bound on the garbage requests

ASSUME UploadsAssumption ==
  /\ Own \cap Foreign = {} /\ Sweeps \in Nat
  /\ KeyOf \in [Own \cup Foreign -> Names]

Upload == Own \cup Foreign

VARIABLES
  put,       \* where each PutFileToDest is
  inStore,   \* uploads that are open in the store
  registry,  \* multipartUploads
  swp,       \* where the garbage request is
  listed,    \* uploads ListMultipartUploads has returned and that are not checked
  failedUp,  \* the result: at most one upload per key
  sweeps,    \* garbage requests so far
  aborted,   \* uploads in progress that were aborted
  shared,    \* uploads of this process that met one of the same key
  dead       \* uploads nobody was working on when the bucket was listed

uvars == <<put, inStore, registry, swp, listed, failedUp, sweeps, aborted, shared, dead>>
sweepVars == <<swp, listed, failedUp, sweeps, dead>>

Busy == {"registered", "open", "failing", "ending"}

UpTypeOK ==
  /\ put \in [Upload -> {"idle", "over"} \cup Busy]
  /\ inStore \subseteq Upload /\ listed \subseteq Upload /\ failedUp \subseteq Upload
  /\ registry = {KeyOf[u] : u \in {v \in Own : put[v] \in Busy}} \/ shared # {}
  /\ swp \in {"idle", "load", "abort", "ok", "error"} /\ sweeps \in 0..Sweeps
  /\ \A u, v \in failedUp : KeyOf[u] = KeyOf[v] => u = v

UpInit ==
  /\ put = [u \in Upload |-> "idle"]
  /\ inStore = {} /\ registry = {}
  /\ swp = "idle" /\ listed = {} /\ failedUp = {} /\ sweeps = 0
  /\ aborted = {} /\ shared = {} /\ dead = {}

-----------------------------------------------------------------------------
(* PutFileToDest.                                                          *)

\* multipartUploads.Store.  Another process has a registry of its own.
Register(u) ==
  LET meets == {v \in Own \ {u} : put[v] \in Busy /\ KeyOf[v] = KeyOf[u]} IN
  /\ put[u] = "idle"
  /\ put' = [put EXCEPT ![u] = "registered"]
  /\ registry' = IF u \in Own THEN registry \cup {KeyOf[u]} ELSE registry
  /\ shared' = IF u \in Own /\ meets # {} THEN shared \cup meets \cup {u} ELSE shared
  /\ UNCHANGED <<inStore, aborted, sweepVars>>

\* Upload starts a multipart upload; a body of one part is put at once.
Create(u) ==
  /\ put[u] = "registered"
  /\ \/ put' = [put EXCEPT ![u] = "open"] /\ inStore' = inStore \cup {u}
     \/ put' = [put EXCEPT ![u] = "ending"] /\ UNCHANGED inStore
  /\ UNCHANGED <<registry, aborted, shared, sweepVars>>

\* The upload is completed, which needs it to be open.
Complete(u) ==
  /\ put[u] = "open" /\ u \in inStore
  /\ put' = [put EXCEPT ![u] = "ending"]
  /\ inStore' = inStore \ {u}
  /\ UNCHANGED <<registry, aborted, shared, sweepVars>>

\* A part or the source fails.
UploadFails(u) ==
  /\ put[u] = "open"
  /\ put' = [put EXCEPT ![u] = "failing"]
  /\ UNCHANGED <<inStore, registry, aborted, shared, sweepVars>>

\* The uploader aborts what it has failed to complete, if it can.
UploaderAborts(u) ==
  /\ put[u] = "failing"
  /\ put' = [put EXCEPT ![u] = "ending"]
  /\ inStore' \in {inStore, inStore \ {u}}
  /\ UNCHANGED <<registry, aborted, shared, sweepVars>>

\* Faulty variant: the key of a failed upload stays registered.
ForgetOnlyDone(u) ==
  /\ put[u] = "ending"
  /\ put' = [put EXCEPT ![u] = "over"]
  /\ registry' = IF u \in Own /\ u \notin inStore THEN registry \ {KeyOf[u]} ELSE registry
  /\ UNCHANGED <<inStore, aborted, shared, sweepVars>>

\* multipartUploads.Delete, whoever else uploads the key.
Forget(u) ==
  /\ put[u] = "ending"
  /\ put' = [put EXCEPT ![u] = "over"]
  /\ registry' = IF u \in Own THEN registry \ {KeyOf[u]} ELSE registry
  /\ UNCHANGED <<inStore, aborted, shared, sweepVars>>

\* A process dies: its uploads stay open, its registry and requests are gone.
OwnDies ==
  /\ \E u \in Own : put[u] \in Busy
  /\ put' = [u \in Upload |-> IF u \in Own /\ put[u] \in Busy THEN "over" ELSE put[u]]
  /\ registry' = {}
  /\ swp' = "idle" /\ listed' = {} /\ failedUp' = {} /\ dead' = {}
  /\ UNCHANGED <<inStore, sweeps, aborted, shared>>
ForeignDies(u) ==
  /\ u \in Foreign /\ put[u] \in Busy
  /\ put' = [put EXCEPT ![u] = "over"]
  /\ UNCHANGED <<inStore, registry, aborted, shared, sweepVars>>

-----------------------------------------------------------------------------
(* The end of a vacuum or a prefix delete.                                 *)

\* A confirmed request: ListMultipartUploads, in all its pages, of the whole
\* bucket.
ListUploads ==
  /\ swp = "idle" /\ sweeps < Sweeps
  /\ sweeps' = sweeps + 1
  /\ swp' = "load" /\ listed' = inStore /\ failedUp' = {}
  /\ dead' = {u \in inStore : put[u] = "over"}
  /\ UNCHANGED <<put, inStore, registry, aborted, shared>>

\* Faulty variant: every upload is taken for failed.
LoadNothing(u) ==
  /\ swp = "load" /\ u \in listed
  /\ listed' = listed \ {u}
  /\ failedUp' = {v \in failedUp : KeyOf[v] # KeyOf[u]} \cup {u}
  /\ UNCHANGED <<put, inStore, registry, aborted, shared, swp, sweeps, dead>>

\* One upload is looked up; a later one of the same key replaces the earlier.
Load(u) ==
  /\ swp = "load" /\ u \in listed
  /\ listed' = listed \ {u}
  /\ failedUp' = IF KeyOf[u] \in registry THEN failedUp
                 ELSE {v \in failedUp : KeyOf[v] # KeyOf[u]} \cup {u}
  /\ UNCHANGED <<put, inStore, registry, aborted, shared, swp, sweeps, dead>>

\* The files are dealt with, and if that succeeds the uploads come last.
Loaded ==
  /\ swp = "load" /\ listed = {}
  /\ swp' \in {"abort", "error"}
  /\ UNCHANGED <<put, inStore, registry, aborted, shared, listed, failedUp, sweeps, dead>>

\* AbortMultipartUpload, whose error (the upload is not there any more, or the
\* store fails) ends the request.
Abort(u) ==
  /\ swp = "abort" /\ u \in failedUp
  /\ \/ /\ u \in inStore
        /\ inStore' = inStore \ {u} /\ failedUp' = failedUp \ {u}
        /\ aborted' = IF put[u] = "open" THEN aborted \cup {u} ELSE aborted
        /\ UNCHANGED swp
     \/ swp' = "error" /\ UNCHANGED <<inStore, failedUp, aborted>>
  /\ UNCHANGED <<put, registry, shared, listed, sweeps, dead>>

SweepEnds ==
  /\ swp = "abort" /\ failedUp = {}
  /\ swp' = "ok"
  /\ UNCHANGED <<put, inStore, registry, aborted, shared, listed, failedUp, sweeps, dead>>

SweepAnswered ==
  /\ swp \in {"ok", "error"}
  /\ swp' = "idle" /\ failedUp' = {} /\ dead' = {}
  /\ UNCHANGED <<put, inStore, registry, aborted, shared, listed, sweeps>>

UploadStep(u) ==
  Register(u) \/ Create(u) \/ Complete(u) \/ UploadFails(u) \/ UploaderAborts(u) \/ Forget(u)

UpNext ==
  \/ \E u \in Upload : UploadStep(u) \/ ForeignDies(u) \/ Load(u) \/ Abort(u)
  \/ OwnDies \/ ListUploads \/ Loaded \/ SweepEnds \/ SweepAnswered

UpSpec == UpInit /\ [][UpNext]_uvars

-----------------------------------------------------------------------------

\* The garbage procedures abort no upload this process is working on, although
\* uploads begin and end between the listing of the bucket, the look into the
\* registry and the abort; except when it uploads one key twice at a time,
\* because the first to end removes the key of both.
OwnUploadsSafe == aborted \cap Own \subseteq shared

\* A garbage request that succeeds has removed every upload that was left
\* behind before it began, by a failed put, a dead process or another process,
\* unless another upload of its key took its place.
SweepCleans ==
  swp = "ok" =>
    \A u \in dead :
      (\A v \in Upload \ {u} : KeyOf[v] # KeyOf[u]) => u \notin inStore
=============================================================================
