---------------------------- MODULE S3Interactor ----------------------------
(***************************************************************************)
(* The state that the requests of a process share in S3StorageInteractor   *)
(* (pkg/storage/s3storage.go): the listing cache (ListCache) and the       *)
(* registry of multipart uploads (Uploads).  No call touches both, so a    *)
(* behaviour is one of either.                                             *)
(***************************************************************************)
EXTENDS ListCache, Uploads

VARIABLE side

s3Vars == <<side, lvars, uvars>>

S3Init == side \in {"cache", "uploads"} /\ ListInit /\ UpInit

CacheStep == side = "cache" /\ ListNext /\ UNCHANGED <<side, uvars>>
UploadsStep == side = "uploads" /\ UpNext /\ UNCHANGED <<side, lvars>>

S3Spec == S3Init /\ [][CacheStep \/ UploadsStep]_s3Vars

-----------------------------------------------------------------------------

S3TypeOK == ListTypeOK /\ UpTypeOK
=============================================================================
