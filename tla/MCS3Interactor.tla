--------------------------- MODULE MCS3Interactor ---------------------------
(* An instance of S3Interactor for TLC.  Listings: the storages of a copy, *)
(* the first of which has a second bucket, which a garbage request lists.  *)
(* Uploads: two of one key and one of another in this process, one more    *)
(* elsewhere.                                                              *)
EXTENDS S3Interactor, TLC

CONSTANTS l1, l2, new, old, bn, bt, bo, k1, k2, d1, d2, u1, u2, u3, o1, n1, n2, n3

MCDirOf == [k \in {k1, k2} |-> IF k = k1 THEN d1 ELSE d2]
MCSymmetry == Permutations({l1, l2}) \cup Permutations({u1, u2})
MCAsk == {[id |-> new, bucket |-> bn, prefix |-> d1, call |-> "ListPath"],
          [id |-> new, bucket |-> bt, prefix |-> Root, call |-> "ListBucketPath"],
          [id |-> old, bucket |-> bo, prefix |-> Root, call |-> "ListPath"]}
MCKeyOf == [u \in {u1, u2, u3, o1} |-> IF u = u3 THEN n2 ELSE IF u = o1 THEN n3 ELSE n1]
=============================================================================
