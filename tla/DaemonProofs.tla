---------------------------- MODULE DaemonProofs ----------------------------
(***************************************************************************)
(* Proofs about what the requests of a process have in common: the state   *)
(* they share in the S3 storage (S3Interactor), that is the registry of    *)
(* multipart uploads, for any uploads and keys, and the listing cache, for *)
(* any storages, objects and times; the processes that take over from one  *)
(* another (Instance), for any number of processes and connections; and    *)
(* the client pool with its two consoles (PgConsole), for any number of    *)
(* connections to the three ports and any size of the sockets.  The three  *)
(* share no state.                                                         *)
(***************************************************************************)
EXTENDS S3Interactor, Daemon, PgConsole, TLAPS


-----------------------------------------------------------------------------
(* Multipart uploads.                                                      *)

\* The types of what the invariants speak of.
UpTypes ==
  /\ put \in [Upload -> {"idle", "over"} \cup Busy]
  /\ inStore \subseteq Upload /\ listed \subseteq Upload /\ failedUp \subseteq Upload
  /\ swp \in {"idle", "load", "abort", "ok", "error"} /\ sweeps \in 0..Sweeps
  /\ dead \subseteq Upload /\ aborted \subseteq Upload /\ shared \subseteq Own

\* The registry has the keys of uploads of this process, and lacks that of an
\* upload in progress only when two of one key have met.
RegistryInv ==
  /\ \A k \in registry : \E u \in Own : put[u] \in Busy /\ KeyOf[u] = k
  /\ \A u \in Own : put[u] \in Busy => KeyOf[u] \in registry \/ u \in shared
  /\ \A u, v \in Own :
       u # v /\ put[u] \in Busy /\ put[v] \in Busy /\ KeyOf[u] = KeyOf[v] => u \in shared

\* An upload is in the store, or known to a garbage request, only after it was
\* registered; one of this process that is taken for failed is over.
FailedInv ==
  /\ \A u \in inStore \cup listed : put[u] \notin {"idle", "registered"}
  /\ \A u \in failedUp \cap Own : put[u] = "over" \/ u \in shared
  /\ \A u, v \in failedUp : KeyOf[u] = KeyOf[v] => u = v

\* The only upload of its key.
Alone(u) == \A v \in Upload \ {u} : KeyOf[v] # KeyOf[u]

\* An upload that was dead when the bucket was listed is gone or still on its
\* way to the abort.
SweepInv ==
  /\ \A u \in dead : put[u] = "over"
  /\ swp \in {"load", "abort", "ok"} =>
       \A u \in dead : Alone(u) => u \notin inStore \/ u \in listed \cup failedUp
  /\ swp \in {"abort", "ok"} => listed = {}
  /\ swp = "ok" => failedUp = {}

UpInv == UpTypes /\ RegistryInv /\ FailedInv /\ SweepInv /\ OwnUploadsSafe

\* The bucket is empty at first.
LEMMA UpInitInv == UpInit => UpInv
<1> SUFFICES ASSUME UpInit PROVE UpInv
  OBVIOUS
<1> USE DEF UpInit
<1>1. UpTypes
  BY UploadsAssumption DEF UpTypes
<1>2. RegistryInv
  BY DEF RegistryInv, Busy, Upload
<1>3. FailedInv /\ SweepInv /\ OwnUploadsSafe
  BY SMTT(60) DEF FailedInv, SweepInv, OwnUploadsSafe
<1> QED
  BY <1>1, <1>2, <1>3 DEF UpInv

\* Every step of a put, a garbage request or a dying process preserves UpInv.
LEMMA UpStepInv == UpInv /\ [UpNext]_uvars => UpInv'
<1> SUFFICES ASSUME UpInv, [UpNext]_uvars PROVE UpInv'
  BY Zenon
<1> USE UploadsAssumption DEF UpInv, UpTypes, RegistryInv, FailedInv, SweepInv,
        OwnUploadsSafe, Busy, Upload, sweepVars
<1>1. ASSUME NEW u \in Upload, Register(u) PROVE UpInv'
  BY <1>1 DEF Register, Alone
<1>2. ASSUME NEW u \in Upload, Create(u) PROVE UpInv'
  BY <1>2 DEF Create
<1>3. ASSUME NEW u \in Upload, Complete(u) PROVE UpInv'
  BY SMTT(60), <1>3 DEF Complete
<1>4. ASSUME NEW u \in Upload, UploadFails(u) PROVE UpInv'
  BY SMTT(60), <1>4 DEF UploadFails
<1>5. ASSUME NEW u \in Upload, UploaderAborts(u) PROVE UpInv'
  BY SMTT(60), <1>5 DEF UploaderAborts
<1>6. ASSUME NEW u \in Upload, Forget(u) PROVE UpInv'
  BY <1>6 DEF Forget
<1>7. CASE OwnDies
  BY Zenon, <1>7 DEF OwnDies
<1>8. ASSUME NEW u \in Upload, ForeignDies(u) PROVE UpInv'
  BY <1>8 DEF ForeignDies
<1>9. CASE ListUploads
  BY <1>9 DEF ListUploads
<1>10. ASSUME NEW u \in Upload, Load(u) PROVE UpInv'
  BY SMTT(60), <1>10 DEF Load, Alone
<1>11. CASE Loaded
  BY Zenon, <1>11 DEF Loaded
<1>12. ASSUME NEW u \in Upload, Abort(u) PROVE UpInv'
  BY <1>12 DEF Abort
<1>13. CASE SweepEnds \/ SweepAnswered
  BY Zenon, <1>13 DEF SweepEnds, SweepAnswered
<1>14. CASE UNCHANGED uvars
  BY <1>14 DEF uvars
<1> QED
  BY Zenon, <1>1, <1>2, <1>3, <1>4, <1>5, <1>6, <1>7, <1>8, <1>9, <1>10, <1>11, <1>12,
     <1>13, <1>14 DEF UpNext, UploadStep

\* The garbage procedures abort no upload that this process is working on,
\* however puts begin and end between the listing of the bucket, the look into
\* the registry and the abort, unless it uploads one key twice at a time.
THEOREM OwnUploadsAreSafe == UpSpec => []OwnUploadsSafe
<1>1. UpInv => OwnUploadsSafe
  BY Zenon DEF UpInv
<1> QED
  BY <1>1, UpInitInv, UpStepInv, PTL DEF UpSpec

\* A garbage request that reports success has removed every upload that was
\* left behind when it listed the bucket and is the only one of its key.
THEOREM SweepIsThorough == UpSpec => []SweepCleans
<1>1. UpInv => SweepCleans
  BY Zenon DEF UpInv, SweepInv, SweepCleans, Alone
<1> QED
  BY <1>1, UpInitInv, UpStepInv, PTL DEF UpSpec

-----------------------------------------------------------------------------
(* The listing cache.                                                      *)

\* What a request asks for.
Asked(r) == r.id \in Storage /\ r.bucket \in BucketsOf(r.id)

\* An entry of the cache: objects that one bucket of its storage held at the
\* moment of the listing, which is at most ListTime before the Time of the entry.
CacheEntry == [objs : SUBSET Key, Time : Nat, of : Nat, from : Bucket]
EntryOK(s, e) ==
  /\ e \in CacheEntry /\ e.of <= now /\ e.Time <= e.of + ListTime
  /\ e.from \in BucketsOf(s)
  /\ e.objs \subseteq hist[e.from][e.of]

\* A map from storages to such entries.
MapOK(m) == DOMAIN m \subseteq Storage /\ \A s \in DOMAIN m : EntryOK(s, m[s])

\* What a goroutine has listed from the store and not yet put into the cache.
Listed(r) ==
  /\ Asked(r) /\ r.of \in 0..now /\ now <= r.of + ListTime
  /\ r.objs \subseteq hist[r.bucket][r.of] \cap Under(r.prefix)

Asking(r) == r.pc = "list" /\ Asked(r)
LookingUp(r) ==
  /\ r.pc = "reading" /\ Asked(r) /\ MapOK(r.buf.map)
  /\ r = [pc |-> "reading", id |-> r.id, bucket |-> r.bucket, prefix |-> r.prefix,
          buf |-> r.buf, torn |-> r.torn]
Listing(r) == r.pc = "putInCache" /\ Listed(r)
Rereading(r) ==
  /\ r.pc = "rereading" /\ Listed(r) /\ MapOK(r.buf.map)
  /\ r = [pc |-> "rereading", id |-> r.id, bucket |-> r.bucket, prefix |-> r.prefix,
          objs |-> r.objs, of |-> r.of, buf |-> r.buf, torn |-> r.torn]
Caching(r) ==
  /\ r.pc \in {"truncate", "write"} /\ Listed(r) /\ MapOK(r.map)
  /\ r = [pc |-> r.pc, id |-> r.id, bucket |-> r.bucket, prefix |-> r.prefix,
          objs |-> r.objs, of |-> r.of, map |-> r.map]
Replied(r) ==
  /\ r.pc = "answered" /\ r.id \in Storage /\ r.from \in BucketsOf(r.id) /\ r.of \in 0..now
  /\ r.objs \subseteq hist[r.from][r.of] \cap Under(r.prefix)
  /\ r.at <= r.of + Day + ListTime

\* The state of one goroutine.
ReqOK(r) ==
  \/ r = Idle \/ Asking(r) \/ LookingUp(r) \/ Listing(r) \/ Rereading(r)
  \/ Caching(r) \/ Replied(r)

\* A goroutine's listing, in memory or in the file, is always one of a moment
\* in the past; it is no older than ListTime until it is in the file.
ListInv ==
  /\ now \in Nat
  /\ hist \in [Bucket -> [0..now -> SUBSET Key]]
  /\ MapOK(cache.map)
  /\ DOMAIN req = Lister
  /\ \A l \in Lister : ReqOK(req[l])

LEMMA BucketsAre ==
  ASSUME NEW s PROVE BucketsOf(s) \subseteq Bucket
BY Zenon, ListCacheAssumption DEF BucketsOf

\* Time only adds to the history: what was listed stays true.
LEMMA TickKeeps ==
  ASSUME ListInv, Tick
  PROVE  /\ now' = now + 1 /\ hist' \in [Bucket -> [0..now' -> SUBSET Key]]
         /\ \A b \in Bucket, t \in 0..now : hist'[b][t] = hist[b][t]
<1>1. PICK b \in Changing, k \in Key : \E o \in {Held(b), Held(b) \cup {k}, Held(b) \ {k}} :
       hist' = [c \in Bucket |->
                  [t \in 0..now' |->
                     IF t <= now THEN hist[c][t] ELSE IF c = b THEN o ELSE Held(c)]]
  BY Zenon DEF Tick
<1>2. PICK o \in {Held(b), Held(b) \cup {k}, Held(b) \ {k}} :
       hist' = [c \in Bucket |->
                  [t \in 0..now' |->
                     IF t <= now THEN hist[c][t] ELSE IF c = b THEN o ELSE Held(c)]]
  BY Zenon, <1>1
<1>3. now' = now + 1 /\ now \in Nat /\ b \in Bucket
  BY ListCacheAssumption DEF Tick, ListInv
<1>4. o \subseteq Key /\ \A c \in Bucket : Held(c) \subseteq Key
  BY <1>3 DEF ListInv, Held
<1>5. \A c \in Bucket, t \in 0..now' :
        hist'[c][t] = IF t <= now THEN hist[c][t] ELSE IF c = b THEN o ELSE Held(c)
  BY Zenon, <1>2
<1>6. \A c \in Bucket, t \in 0..now : hist'[c][t] = hist[c][t]
  BY <1>3, <1>5
<1>7. \A c \in Bucket : hist'[c] \in [0..now' -> SUBSET Key]
  <2> SUFFICES ASSUME NEW c \in Bucket PROVE hist'[c] \in [0..now' -> SUBSET Key]
    OBVIOUS
  <2>1. hist'[c] = [t \in 0..now' |->
                     IF t <= now THEN hist[c][t] ELSE IF c = b THEN o ELSE Held(c)]
    BY <1>2
  <2>2. \A t \in 0..now : hist[c][t] \subseteq Key
    BY Zenon DEF ListInv
  <2> QED
    BY <1>3, <1>4, <2>1, <2>2
<1> QED
  BY Zenon, <1>2, <1>3, <1>6, <1>7

\* So entries and listings that were true stay true when time passes.
LEMMA TickMap ==
  ASSUME ListInv, Tick, NEW m, MapOK(m)
  PROVE  MapOK(m)'
BY TickKeeps, BucketsAre DEF MapOK, EntryOK, CacheEntry, ListInv

LEMMA ListInitInv ==
  ListInit => ListInv
<1> SUFFICES ASSUME ListInit PROVE ListInv
  OBVIOUS
<1>1. hist \in [Bucket -> [0..now -> SUBSET Key]]
  BY DEF ListInit
<1>2. MapOK(cache.map)
  BY DEF ListInit, Empty, NoMap, MapOK
<1> QED
  BY <1>1, <1>2 DEF ListInit, ListInv, ReqOK

\* What is said of maps and goroutines depends on the clock and the storages
\* only.
LEMMA ListStill ==
  ASSUME UNCHANGED <<now, hist>>
  PROVE  (\A m : MapOK(m)' <=> MapOK(m)) /\ (\A q : ReqOK(q)' <=> ReqOK(q))
<1>1. \A s, e : EntryOK(s, e)' <=> EntryOK(s, e)
  BY Zenon DEF EntryOK
<1>2. \A m : MapOK(m)' <=> MapOK(m)
  BY Zenon, <1>1 DEF MapOK
<1>3. \A q : Listed(q)' <=> Listed(q)
  BY Zenon DEF Listed
<1>4. \A q : (Asking(q)' <=> Asking(q)) /\ (Replied(q)' <=> Replied(q))
  BY Zenon DEF Asking, Replied
<1>5. \A q : (Listing(q)' <=> Listing(q)) /\ (LookingUp(q)' <=> LookingUp(q))
  BY Zenon, <1>2, <1>3 DEF Listing, LookingUp
<1>6. \A q : (Rereading(q)' <=> Rereading(q)) /\ (Caching(q)' <=> Caching(q))
  BY Zenon, <1>2, <1>3 DEF Rereading, Caching
<1> QED
  BY Zenon, <1>2, <1>4, <1>5, <1>6 DEF ReqOK

\* The place where a goroutine is tells which of the cases holds.
LEMMA ListWhere ==
  ASSUME NEW r, ReqOK(r)
  PROVE  /\ r.pc = "list" => Asking(r)
         /\ r.pc = "reading" => LookingUp(r)
         /\ r.pc = "putInCache" => Listing(r)
         /\ r.pc = "rereading" => Rereading(r)
         /\ r.pc \in {"truncate", "write"} => Caching(r)
         /\ r.pc = "answered" => Replied(r)
<1>1. r = Idle => r.pc = "idle"
  BY DEF Idle
<1>2. (Asking(r) => r.pc = "list") /\ (LookingUp(r) => r.pc = "reading")
  BY Zenon DEF Asking, LookingUp
<1>3. (Listing(r) => r.pc = "putInCache") /\ (Rereading(r) => r.pc = "rereading")
  BY Zenon DEF Listing, Rereading
<1>4. Caching(r) => r.pc \in {"truncate", "write"}
  BY Zenon DEF Caching
<1>5. Replied(r) => r.pc = "answered"
  BY Zenon DEF Replied
<1>6. \/ r = Idle \/ Asking(r) \/ LookingUp(r) \/ Listing(r) \/ Rereading(r)
      \/ Caching(r) \/ Replied(r)
  BY Zenon DEF ReqOK
<1> QED
  BY Zenon, <1>1, <1>2, <1>3, <1>4, <1>5, <1>6

\* A torn read is still one that began with a content of the file.
LEMMA TornOK ==
  ASSUME NEW r, ReqOK(r)
  PROVE  ReqOK(Torn(r))
<1> DEFINE q == [r EXCEPT !.torn = TRUE]
<1>1. CASE r.pc = "reading"
  <2>1. LookingUp(r)
    BY Zenon, <1>1, ListWhere
  <2>2. q = [pc |-> "reading", id |-> r.id, bucket |-> r.bucket, prefix |-> r.prefix,
             buf |-> r.buf, torn |-> TRUE]
    <3>1. PICK i, b, p, u, t : r = [pc |-> "reading", id |-> i, bucket |-> b, prefix |-> p,
                                    buf |-> u, torn |-> t]
      BY Zenon, <2>1 DEF LookingUp
    <3>2. \A v : [r EXCEPT !.torn = v] =
                  [pc |-> "reading", id |-> r.id, bucket |-> r.bucket, prefix |-> r.prefix,
                   buf |-> r.buf, torn |-> v]
      BY <3>1
    <3> QED
      BY Zenon, <3>2
  <2> HIDE DEF q
  <2>3. LookingUp(q)
    BY Zenon, <2>1, <2>2 DEF LookingUp, Asked
  <2> QED
    BY Zenon, <1>1, <2>3 DEF Torn, Reading, ReqOK, q
<1>2. CASE r.pc = "rereading"
  <2>1. Rereading(r)
    BY Zenon, <1>2, ListWhere
  <2>2. q = [pc |-> "rereading", id |-> r.id, bucket |-> r.bucket, prefix |-> r.prefix,
             objs |-> r.objs, of |-> r.of, buf |-> r.buf, torn |-> TRUE]
    <3>1. PICK i, b, p, x, o, u, t :
            r = [pc |-> "rereading", id |-> i, bucket |-> b, prefix |-> p, objs |-> x, of |-> o,
                 buf |-> u, torn |-> t]
      BY Zenon, <2>1 DEF Rereading
    <3>2. \A v : [r EXCEPT !.torn = v] =
                  [pc |-> "rereading", id |-> r.id, bucket |-> r.bucket, prefix |-> r.prefix,
                   objs |-> r.objs, of |-> r.of, buf |-> r.buf, torn |-> v]
      BY <3>1
    <3> QED
      BY Zenon, <3>2
  <2> HIDE DEF q
  <2>3. Rereading(q)
    BY Zenon, <2>1, <2>2 DEF Rereading, Listed, Asked
  <2> QED
    BY Zenon, <1>2, <2>3 DEF Torn, Reading, ReqOK, q
<1>3. CASE r.pc \notin Reading
  BY Zenon, <1>3 DEF Torn
<1> QED
  BY Zenon, <1>1, <1>2, <1>3 DEF Reading

\* What a read returns, as long as no mixture of contents can be decoded.
LEMMA ContentsOK ==
  ASSUME ~Mixes, NEW r, MapOK(r.buf.map), NEW c \in Contents(r)
  PROVE  MapOK(c.map)
<1>1. c = r.buf \/ c = Broken(1)
  BY Zenon DEF Contents, Mixture
<1>2. Broken(1).map = NoMap
  BY DEF Broken
<1>3. MapOK(NoMap)
  BY DEF MapOK, NoMap
<1> QED
  BY Zenon, <1>1, <1>2, <1>3

\* A step that leaves the clock and the buckets alone, and takes one goroutine
\* from one of these states to another, preserves the invariant.
LEMMA ListMove ==
  ASSUME ListInv, NEW l \in Lister, NEW r,
         UNCHANGED <<now, hist>>, req' = [req EXCEPT ![l] = r] \/ Tear(l, r),
         MapOK(cache'.map), ReqOK(r)
  PROVE  ListInv'
<1>1. MapOK(cache.map)' /\ \A q : ReqOK(q)' <=> ReqOK(q)
  BY Zenon, ListStill
<1>2. DOMAIN req' = Lister
  BY DEF ListInv, Tear
<1>3. ASSUME NEW i \in Lister PROVE ReqOK(req[i])'
  <2>1. req'[i] = r \/ req'[i] = req[i] \/ req'[i] = Torn(req[i])
    BY DEF ListInv, Tear
  <2>2. ReqOK(req[i])
    BY Zenon DEF ListInv
  <2> QED
    BY Zenon, <1>1, <2>1, <2>2, TornOK
<1>4. now' \in Nat /\ hist' \in [Bucket -> [0..now' -> SUBSET Key]]
  BY Zenon DEF ListInv
<1> QED
  BY Zenon, <1>1, <1>2, <1>3, <1>4 DEF ListInv

\* An answer from a listing that is not older than the duration of one.
LEMMA AnswerOK ==
  ASSUME NEW r, Listed(r), now \in Nat
  PROVE  Replied(Answer(r, r.objs, r.bucket, r.of))
<1> DEFINE q == Answer(r, r.objs, r.bucket, r.of)
<1>1. /\ q.pc = "answered" /\ q.id = r.id /\ q.prefix = r.prefix /\ q.objs = r.objs
      /\ q.of = r.of /\ q.at = now /\ q.from = r.bucket
  BY Zenon DEF Answer
<1>2. now <= r.of + Day + ListTime
  BY ListCacheAssumption DEF Listed
<1> HIDE DEF q
<1>3. Replied(q)
  BY Zenon, <1>1, <1>2 DEF Replied, Listed, Asked
<1> QED
  BY Zenon, <1>3 DEF q

LEMMA ListStepInv ==
  ASSUME ~Mixes
  PROVE  ListInv /\ [ListNext]_lvars => ListInv'
<1> SUFFICES ASSUME ListInv, [ListNext]_lvars PROVE ListInv'
  OBVIOUS
<1> USE ListCacheAssumption
<1>t. now \in Nat /\ hist \in [Bucket -> [0..now -> SUBSET Key]]
  BY DEF ListInv
<1>1. CASE Tick
  <2>m. \A m : MapOK(m) => MapOK(m)'
    BY Zenon, <1>1, TickMap
  <2>1. now' \in Nat /\ now' = now + 1 /\ req' = req /\ cache' = cache
    BY <1>t, <1>1 DEF Tick
  <2>2. MapOK(cache.map)'
    BY <2>1, <2>m DEF ListInv
  <2>3. ASSUME NEW r, Listed(r), now < r.of + ListTime PROVE Listed(r)'
    <3>1. /\ Asked(r) /\ r.of \in 0..now
          /\ r.objs \subseteq hist[r.bucket][r.of] \cap Under(r.prefix)
      BY Zenon, <2>3 DEF Listed
    <3>2. r.of \in 0..now' /\ now' <= r.of + ListTime
      BY <1>t, <2>1, <2>3, <3>1
    <3>3. hist'[r.bucket][r.of] = hist[r.bucket][r.of]
      BY Zenon, <1>1, <3>1, TickKeeps, BucketsAre DEF Asked
    <3> QED
      BY Zenon, <3>1, <3>2, <3>3 DEF Listed
  <2>4. ASSUME NEW l \in Lister PROVE ReqOK(req[l])'
    <3>1. req[l].pc \in {"putInCache", "rereading", "truncate", "write"} => now < req[l].of + ListTime
      BY <1>1 DEF Tick
    <3>2. CASE req[l] = Idle \/ Asking(req[l])
      BY Zenon, <2>1, <3>2 DEF ReqOK, Asking, Idle
    <3>3. CASE LookingUp(req[l])
      <4>1. LookingUp(req[l])'
        BY Zenon, <2>1, <2>m, <3>3 DEF LookingUp
      <4> QED
        BY Zenon, <4>1 DEF ReqOK
    <3>4. CASE Listing(req[l])
      <4>1. Listing(req[l])'
        BY Zenon, <2>1, <2>3, <3>1, <3>4 DEF Listing
      <4> QED
        BY Zenon, <4>1 DEF ReqOK
    <3>5. CASE Rereading(req[l])
      <4>1. Rereading(req[l])'
        BY Zenon, <2>1, <2>m, <2>3, <3>1, <3>5 DEF Rereading
      <4> QED
        BY Zenon, <4>1 DEF ReqOK
    <3>6. CASE Caching(req[l])
      <4>1. Caching(req[l])'
        BY Zenon, <2>1, <2>m, <2>3, <3>1, <3>6 DEF Caching
      <4> QED
        BY Zenon, <4>1 DEF ReqOK
    <3>7. CASE Replied(req[l])
      <4>1. hist'[req[l].from][req[l].of] = hist[req[l].from][req[l].of]
        BY Zenon, <1>1, <3>7, TickKeeps, BucketsAre DEF Replied
      <4>2. req[l].of \in 0..now'
        BY <1>t, <2>1, <3>7 DEF Replied
      <4>3. Replied(req[l])'
        BY Zenon, <2>1, <3>7, <4>1, <4>2 DEF Replied
      <4> QED
        BY Zenon, <4>3 DEF ReqOK
    <3> QED
      BY Zenon, <3>2, <3>3, <3>4, <3>5, <3>6, <3>7 DEF ListInv, ReqOK
  <2> QED
    BY Zenon, <1>1, <2>1, <2>2, <2>4, TickKeeps DEF ListInv
<1>2. CASE Restarted
  <2>1. UNCHANGED <<now, hist, cache>> /\ req' = [l \in Lister |-> Idle]
    BY Zenon, <1>2 DEF Restarted
  <2>2. MapOK(cache.map)' /\ ReqOK(Idle)'
    BY Zenon, <2>1, ListStill DEF ListInv, ReqOK
  <2>3. DOMAIN req' = Lister /\ \A l \in Lister : req'[l] = Idle
    BY Zenon, <2>1
  <2> QED
    BY Zenon, <2>1, <2>2, <2>3 DEF ListInv
<1>3. ASSUME NEW l \in Lister, NEW a \in Ask, ListPath(l, a) PROVE ListInv'
  <2> DEFINE p == [pc |-> "reading", id |-> a.id, bucket |-> a.bucket, prefix |-> a.prefix,
                   buf |-> cache, torn |-> FALSE]
             q == [pc |-> "list", id |-> a.id, bucket |-> a.bucket, prefix |-> a.prefix]
  <2>1. a.id \in Storage /\ a.bucket \in BucketsOf(a.id)
    BY Zenon DEF BucketsOf
  <2>2. LookingUp(p) /\ Asking(q)
    BY Zenon, <2>1 DEF LookingUp, Asking, Asked, ListInv
  <2>3. UNCHANGED <<now, hist, cache>> /\ (req' = [req EXCEPT ![l] = p] \/ req' = [req EXCEPT ![l] = q])
    BY Zenon, <1>3 DEF ListPath
  <2> HIDE DEF p, q
  <2>4. ReqOK(p) /\ ReqOK(q) /\ MapOK(cache'.map)
    BY Zenon, <2>2, <2>3 DEF ReqOK, ListInv
  <2> QED
    BY Zenon, <2>3, <2>4, ListMove
<1>4. ASSUME NEW l \in Lister, ReadCache(l) PROVE ListInv'
  <2> DEFINE r == req[l]
  <2>1. LookingUp(r)
    BY Zenon, <1>4, ListWhere DEF ReadCache, ListInv
  <2>2. PICK c \in Contents(r) :
          req' = [req EXCEPT ![l] = IF c.ok /\ r.id \in DOMAIN c.map /\ Fresh(c.map[r.id])
                                    THEN FromCache(r, c.map[r.id]) ELSE ToStore(r)]
    BY Zenon, <1>4 DEF ReadCache
  <2>3. UNCHANGED <<now, hist, cache>> /\ MapOK(cache'.map)
    BY Zenon, <1>4 DEF ReadCache, ListInv
  <2>4. MapOK(c.map)
    BY Zenon, <2>1, ContentsOK DEF LookingUp
  <2> DEFINE e == c.map[r.id]
  <2>5. CASE r.id \in DOMAIN c.map /\ Fresh(e) /\ req' = [req EXCEPT ![l] = FromCache(r, e)]
    <3>1. EntryOK(r.id, e)
      BY Zenon, <2>4, <2>5 DEF MapOK
    <3>2. Matching(r.id, r.prefix, e.objs) \subseteq hist[e.from][e.of] \cap Under(r.prefix)
      BY Zenon, <3>1 DEF EntryOK, Matching
    <3>3. e.of \in 0..now /\ now <= e.of + Day + ListTime
      <4>1. PICK t \in Nat, o \in Nat : t = e.Time /\ o = e.of
        BY Zenon, <3>1 DEF EntryOK, CacheEntry
      <4>2. o <= now /\ t <= o + ListTime /\ t + Day >= now
        BY Zenon, <2>5, <3>1, <4>1 DEF EntryOK, Fresh
      <4>3. o \in 0..now /\ now <= o + Day + ListTime
        BY SMTT(60), <1>t, <4>2
      <4> QED
        BY ZenonT(60), <4>1, <4>3
    <3>4. Replied(FromCache(r, e))
      BY Zenon, <1>t, <2>1, <3>1, <3>2, <3>3 DEF FromCache, Answer, Replied, LookingUp, Asked, EntryOK
    <3>5. ReqOK(FromCache(r, e))
      BY Zenon, <3>4 DEF ReqOK
    <3> HIDE DEF r, e
    <3> QED
      BY Zenon, <2>3, <2>5, <3>5, ListMove
  <2>6. CASE req' = [req EXCEPT ![l] = ToStore(r)]
    <3>1. Asking(ToStore(r))
      BY Zenon, <2>1 DEF ToStore, Asking, Asked, LookingUp
    <3>2. ReqOK(ToStore(r))
      BY Zenon, <3>1 DEF ReqOK
    <3> HIDE DEF r
    <3> QED
      BY Zenon, <2>3, <2>6, <3>2, ListMove
  <2> HIDE DEF r
  <2> QED
    BY Zenon, <2>2, <2>5, <2>6
<1>5. ASSUME NEW l \in Lister, ListBucketPath(l) PROVE ListInv'
  <2> DEFINE r == req[l]
             q == [pc |-> "putInCache", id |-> r.id, bucket |-> r.bucket, prefix |-> r.prefix,
                   objs |-> Held(r.bucket) \cap Under(r.prefix), of |-> now]
  <2>1. Asking(r)
    BY Zenon, <1>5, ListWhere DEF ListBucketPath, ListInv
  <2>2. ReqOK(q) /\ ReqOK(Idle)
    <3>1. /\ q.pc = "putInCache" /\ q.id = r.id /\ q.bucket = r.bucket /\ q.prefix = r.prefix
          /\ q.of = now /\ q.objs = Held(r.bucket) \cap Under(r.prefix)
      OBVIOUS
    <3> HIDE DEF q
    <3>2. now \in 0..now /\ now <= now + ListTime
      BY SMTT(60), <1>t
    <3>3. Listing(q)
      BY Zenon, <2>1, <3>1, <3>2 DEF Asking, Asked, Listing, Listed, Held
    <3> QED
      BY Zenon, <3>3 DEF ReqOK
  <2>3. req' = [req EXCEPT ![l] = q] \/ req' = [req EXCEPT ![l] = Idle]
    BY SMTT(60), <1>5 DEF ListBucketPath
  <2> HIDE DEF q
  <2> QED
    BY Zenon, <1>5, <2>2, <2>3, ListMove DEF ListBucketPath, ListInv
<1>11. ASSUME NEW l \in Lister, OpenForPut(l) PROVE ListInv'
  <2> DEFINE r == req[l]
             q == [pc |-> "rereading", id |-> r.id, bucket |-> r.bucket, prefix |-> r.prefix,
                   objs |-> r.objs, of |-> r.of, buf |-> cache, torn |-> FALSE]
  <2>1. Listing(r)
    BY Zenon, <1>11, ListWhere DEF OpenForPut, ListInv
  <2>2. Rereading(q)
    BY Zenon, <2>1 DEF Listing, Listed, Asked, Rereading, ListInv
  <2>3. req' = [req EXCEPT ![l] = q] /\ UNCHANGED <<now, hist, cache>>
    BY Zenon, <1>11 DEF OpenForPut
  <2> HIDE DEF q
  <2> QED
    BY Zenon, <2>2, <2>3, ListMove DEF ListInv, ReqOK
<1>6. ASSUME NEW l \in Lister, ReadForPut(l) PROVE ListInv'
  <2> DEFINE r == req[l]
             n == [objs |-> r.objs, Time |-> now, of |-> r.of, from |-> r.bucket]
             m(c) == [s \in DOMAIN c.map \cup {r.id} |-> IF s = r.id THEN n ELSE c.map[s]]
             q(c) == [pc |-> "truncate", id |-> r.id, bucket |-> r.bucket, prefix |-> r.prefix,
                      objs |-> r.objs, of |-> r.of, map |-> m(c)]
  <2>1. Rereading(r)
    BY ZenonT(60), <1>6, ListWhere DEF ReadForPut, ListInv
  <2>2. PICK c \in Contents(r) :
          req' = [req EXCEPT ![l] = q(c)] \/ req' = [req EXCEPT ![l] = Answer(r, r.objs, r.bucket, r.of)]
    BY ZenonT(60), <1>6 DEF ReadForPut
  <2>3. MapOK(m(c))
    <3>1. EntryOK(r.id, n)
      <4>1. /\ r.of \in 0..now /\ now <= r.of + ListTime /\ r.objs \subseteq hist[r.bucket][r.of]
            /\ r.objs \subseteq Under(r.prefix) /\ r.bucket \in BucketsOf(r.id)
        BY Zenon, <2>1 DEF Rereading, Listed, Asked
      <4>2. r.objs \subseteq Key /\ r.of \in Nat /\ r.of <= now /\ r.bucket \in Bucket
        BY <1>t, <4>1, BucketsAre DEF Under
      <4> QED
        BY Zenon, <1>t, <4>1, <4>2 DEF EntryOK, CacheEntry
    <3>2. MapOK(c.map) /\ r.id \in Storage
      BY Zenon, <2>1, ContentsOK DEF Rereading, Listed, Asked
    <3> HIDE DEF n, r
    <3> QED
      BY SMTT(60), <3>1, <3>2 DEF MapOK
  <2> HIDE DEF m
  <2>4. Caching(q(c)) /\ Replied(Answer(r, r.objs, r.bucket, r.of))
    <3>1. Caching(q(c))
      BY Zenon, <2>1, <2>3 DEF Rereading, Listed, Asked, Caching
    <3> QED
      BY ZenonT(60), <1>t, <2>1, <3>1, AnswerOK DEF Rereading
  <2>5. UNCHANGED <<now, hist, cache>> /\ MapOK(cache'.map)
    BY ZenonT(60), <1>6 DEF ReadForPut, ListInv
  <2>6. ReqOK(q(c)) /\ ReqOK(Answer(r, r.objs, r.bucket, r.of))
    BY Zenon, <2>4 DEF ReqOK
  <2> HIDE DEF q, r
  <2> QED
    BY ZenonT(60), <2>2, <2>5, <2>6, ListMove
<1>7. ASSUME NEW l \in Lister, Truncate(l) PROVE ListInv'
  <2> DEFINE r == req[l]
             q == [r EXCEPT !.pc = "write"]
  <2>1. Caching(r)
    BY Zenon, <1>7, ListWhere DEF Truncate, ListInv
  <2>2. q = [pc |-> "write", id |-> r.id, bucket |-> r.bucket, prefix |-> r.prefix,
             objs |-> r.objs, of |-> r.of, map |-> r.map]
    BY <2>1 DEF Caching
  <2>3. Caching(q)
    BY <2>1, <2>2 DEF Caching, Listed, Asked
  <2>4. MapOK(cache'.map)
    BY <1>7 DEF Truncate, Empty, NoMap, MapOK
  <2>5. Tear(l, q)
    BY Zenon, <1>7 DEF Truncate
  <2> HIDE DEF q
  <2> QED
    BY Zenon, <1>7, <2>3, <2>4, <2>5, ListMove DEF Truncate, ReqOK
<1>8. ASSUME NEW l \in Lister, Write(l) PROVE ListInv'
  <2> DEFINE r == req[l]
  <2>1. Caching(r)
    BY Zenon, <1>8, ListWhere DEF Write, ListInv
  <2>2. Replied(Answer(r, r.objs, r.bucket, r.of))
    BY Zenon, <1>t, <2>1, AnswerOK DEF Caching
  <2>3. cache'.map = NoMap \/ cache'.map = r.map
    BY <1>8 DEF Write, Content, Broken
  <2>4. MapOK(cache'.map)
    BY ZenonT(60), <2>1, <2>3 DEF Caching, MapOK, NoMap
  <2> QED
    BY ZenonT(60), <1>8, <2>2, <2>4, ListMove DEF Write, ReqOK
<1>9. ASSUME NEW l \in Lister, Return(l) PROVE ListInv'
  BY ZenonT(60), <1>9, ListMove DEF Return, ListInv, ReqOK
<1>10. CASE UNCHANGED lvars
  <2>1. now' = now /\ hist' = hist /\ cache' = cache /\ req' = req
    BY Zenon, <1>10 DEF lvars
  <2> QED
    BY Zenon, <2>1, ListStill DEF ListInv
<1> QED
  BY Zenon, <1>1, <1>2, <1>3, <1>4, <1>5, <1>6, <1>7, <1>8, <1>9, <1>10, <1>11 DEF ListNext, ListStep

\* ListPath and ListBucketPath with the cache file, for every number of
\* goroutines, storages, buckets and objects, whoever rewrites the file during
\* a read and wherever the process dies: a listing has only objects that one
\* bucket of the storage held under the prefix at one moment, at most a day and
\* the duration of a listing ago.  The condition: a read that another goroutine
\* tears apart returns the content it began with or nothing that can be decoded.
THEOREM ListingIsSound ==
  ~Mixes => (ListSpec => []ListingSound)
<1> SUFFICES ASSUME ~Mixes PROVE ListSpec => []ListingSound
  OBVIOUS
<1>1. ListInv => ListingSound
  <2>1. \A r : Replied(r) => /\ r.from \in BucketsOf(r.id)
                              /\ r.objs \subseteq hist[r.from][r.of] \cap Under(r.prefix)
                              /\ r.at <= r.of + Day + ListTime
    BY Zenon DEF Replied
  <2> QED
    BY Zenon, <2>1, ListWhere DEF ListInv, ListingSound
<1>2. ListInv /\ [ListNext]_lvars => ListInv'
  BY ListStepInv
<1> QED
  BY <1>1, <1>2, ListInitInv, PTL DEF ListSpec

\* The shared state of S3StorageInteractor behaves as the two specifications
\* these theorems are about.
LEMMA S3Parts ==
  S3Spec => ListSpec /\ UpSpec
<1>1. S3Init => ListInit /\ UpInit
  BY Zenon DEF S3Init
<1>2. [CacheStep \/ UploadsStep]_s3Vars => [ListNext]_lvars /\ [UpNext]_uvars
  BY DEF CacheStep, UploadsStep, s3Vars, lvars, uvars
<1> QED
  BY <1>1, <1>2, PTL DEF S3Spec, ListSpec, UpSpec

-----------------------------------------------------------------------------
(* Processes.                                                              *)

\* From net.Listen on a process has the socket, until its signal goroutine is
\* past the Close of it.
Bound(i, s) ==
  pc[i] \in IF s = "main" THEN {"main=", "ic", "ic=", "ready", "wait"} ELSE {"ic=", "ready", "wait"}
Kept(i, s) ==
  sig[i] \in IF s = "main" THEN {"waiting", "got"} ELSE {"waiting", "got", "closedMain"}

SocketInv == \A i \in Inst, s \in Sock : Bound(i, s) /\ Kept(i, s) => s \in open[i]

\* The context is cancelled by the signal goroutine alone, and only a process
\* that was ready when the signal came may pass for one that was not early.
StopInv ==
  /\ \A i \in Inst : pc[i] = "off" => sig[i] = "waiting"
  /\ \A i \in ctx : sig[i] # "waiting"
  /\ \A i \in Inst : sig[i] # "waiting" /\ Alive(i) /\ pc[i] \notin {"ready", "wait", "waited"} => i \in early

\* A connection is counted when its goroutine begins; once Wait has returned,
\* what was counted before is at its end.
CountInv ==
  /\ \A c \in Link : link[c].counted => link[c].st \in {"served", "lost"}
  /\ \A i \in Inst, c \in Link :
       pc[i] = "waited" /\ link[c].at = i /\ link[c].counted => link[c].st # "served"

InstInv == InstTypeOK /\ SocketInv /\ StopInv /\ CountInv /\ CountedServed

\* The changes of one connection.
LinkState == {"none", "queued", "accepted", "served", "done", "lost"}
LinkType == [at : Inst \cup {NoFile}, on : Sock, counted : BOOLEAN, st : LinkState]

LEMMA LinkChange ==
  /\ NoLink \in LinkType
  /\ NoLink.st = "none" /\ ~NoLink.counted
  /\ \A r \in LinkType, x \in LinkState :
       /\ [r EXCEPT !.st = x] \in LinkType
       /\ [r EXCEPT !.st = x].st = x /\ [r EXCEPT !.st = x].counted = r.counted
       /\ [r EXCEPT !.st = x].at = r.at /\ [r EXCEPT !.st = x].on = r.on
BY Zenon DEF NoLink, LinkType, LinkState, Sock

LEMMA LinkTyped ==
  InstInv => link \in [Link -> LinkType]
BY Zenon DEF InstInv, InstTypeOK, LinkType, LinkState

LEMMA InstInitInv ==
  InstInit => InstInv
BY InstanceAssumption DEF InstInit, InstInv, InstTypeOK, SocketInv, StopInv, CountInv,
   CountedServed, Bound, Kept, Alive, Exited, Sock, NoLink

\* The end of a process keeps the invariant when it costs no counted
\* connection without a crash or an early signal.
LEMMA ExitKeeps ==
  ASSUME InstInv, NEW i \in Inst, NEW how \in Exited, Exit(i, how), Alive(i),
         how = "crashed" \/ i \in early \/ pc[i] = "waited"
  PROVE  InstInv'
<1> USE DEF InstInv
<1>l. link' \in [Link -> LinkType]
  BY Zenon, LinkChange, LinkTyped DEF Exit, LinkState
<1>1. InstTypeOK'
  BY Zenon, <1>l DEF InstTypeOK, Exit, Exited, LinkType, LinkState
<1>2. SocketInv'
  BY SMTT(60) DEF InstTypeOK, Exit, SocketInv, Bound, Kept, Exited
<1>3. StopInv'
  BY DEF InstTypeOK, Exit, StopInv, Alive, Exited
<1>4. CountInv'
  BY SMTT(60) DEF InstTypeOK, Exit, CountInv, NoLink
<1>5. CountedServed'
  BY DEF InstTypeOK, Exit, CountInv, CountedServed, Alive, Exited, NoLink
<1> QED
  BY Zenon, <1>1, <1>2, <1>3, <1>4, <1>5

\* Refused connections are no longer counted.
LEMMA LinkForgotten ==
  ASSUME CountInv, CountedServed, UNCHANGED <<pc, early>>,
         \A c \in Link : link'[c] = link[c] \/ link'[c] = NoLink
  PROVE  CountInv' /\ CountedServed'
<1>1. NoLink.st = "none" /\ ~NoLink.counted
  BY DEF NoLink
<1>2. \A c \in Link : link'[c].counted => link'[c] = link[c]
  BY Zenon, <1>1
<1>3. CountInv'
  BY Zenon, <1>2 DEF CountInv
<1>4. CountedServed'
  BY Zenon, <1>2 DEF CountedServed
<1> QED
  BY Zenon, <1>3, <1>4

LEMMA InstStepInv ==
  InstInv /\ [InstNext]_instVars => InstInv'
<1> SUFFICES ASSUME InstInv, [InstNext]_instVars PROVE InstInv'
  OBVIOUS
<1> USE InstanceAssumption
<1>1. ASSUME NEW i \in Inst, Start(i) PROVE InstInv'
  <2>1. InstTypeOK'
    BY Zenon, <1>1 DEF InstInv, InstTypeOK, Start
  <2>2. SocketInv'
    <3> SUFFICES ASSUME NEW j \in Inst, NEW t \in Sock
                 PROVE  (Bound(j, t) /\ Kept(j, t) => t \in open[j])'
      BY Zenon DEF SocketInv
    <3>1. pc' = [pc EXCEPT ![i] = "main"] /\ UNCHANGED <<open, sig>> /\ DOMAIN pc = Inst
      BY Zenon, <1>1 DEF InstInv, InstTypeOK, Start
    <3>2. CASE j = i
      BY <3>1, <3>2 DEF Bound
    <3>3. CASE j # i
      BY Zenon, <3>1, <3>3 DEF InstInv, SocketInv, Bound, Kept
    <3> QED
      BY Zenon, <3>2, <3>3
  <2>3. StopInv'
    BY <1>1 DEF InstInv, InstTypeOK, StopInv, Start, Alive, Exited
  <2>4. CountInv' /\ CountedServed'
    BY SMTT(60), <1>1 DEF InstInv, InstTypeOK, CountInv, CountedServed, Start
  <2> QED
    BY Zenon, <2>1, <2>2, <2>3, <2>4 DEF InstInv
<1>2. ASSUME NEW i \in Inst, NEW s \in Sock, Listen(i, s) PROVE InstInv'
  <2>1. InstTypeOK'
    BY SMTT(60), <1>2 DEF InstInv, InstTypeOK, Listen, Sock
  <2> QED
    BY <1>2, <2>1 DEF InstInv, InstTypeOK, SocketInv, StopInv, CountInv, CountedServed, Listen,
       Bound, Kept, Alive, Exited, Sock
<1>3. ASSUME NEW i \in Inst, NEW s \in Sock, Dispatch(i, s) PROVE InstInv'
  <2>1. InstTypeOK'
    BY Zenon, <1>3 DEF InstInv, InstTypeOK, Dispatch, Sock
  <2> QED
    BY <1>3, <2>1 DEF InstInv, InstTypeOK, SocketInv, StopInv, CountInv, CountedServed, Dispatch,
       Bound, Kept, Alive, Exited, Sock
<1>4. ASSUME NEW i \in Inst, GiveUp(i) PROVE InstInv'
  <2>1. Alive(i) /\ i \in early
    BY ZenonT(60), <1>4 DEF GiveUp, InstInv, StopInv, Alive, Exited, Sock
  <2> QED
    BY Zenon, <1>4, <2>1, ExitKeeps DEF GiveUp, Exited
<1>5. ASSUME NEW i \in Inst, Stopping(i) PROVE InstInv'
  BY <1>5 DEF InstInv, InstTypeOK, SocketInv, StopInv, CountInv, CountedServed, Stopping,
     Bound, Kept, Alive, Exited
<1>6. ASSUME NEW i \in Inst, Wait(i) \/ Finish(i) PROVE InstInv'
  <2>1. CASE Wait(i)
    BY <2>1 DEF InstInv, InstTypeOK, SocketInv, StopInv, CountInv, CountedServed, Wait,
       Bound, Kept, Alive, Exited
  <2>2. CASE Finish(i)
    BY Zenon, <2>2, ExitKeeps DEF Finish, Alive, Exited
  <2> QED
    BY Zenon, <1>6, <2>1, <2>2
<1>7. ASSUME NEW i \in Inst, Crash(i) PROVE InstInv'
  BY ZenonT(60), <1>7, ExitKeeps DEF Crash, Exited
<1>8. ASSUME NEW i \in Inst, Signal(i) PROVE InstInv'
  BY <1>8 DEF InstInv, InstTypeOK, SocketInv, StopInv, CountInv, CountedServed, Signal,
     Bound, Kept, Alive, Exited
<1>9. ASSUME NEW i \in Inst, NEW s \in Sock, CloseListener(i, s) PROVE InstInv'
  <2>l. link' \in [Link -> LinkType]
    <3>1. link' = link \/ Close(i, s)
      BY Zenon, <1>9 DEF CloseListener
    <3> QED
      BY Zenon, <3>1, LinkChange, LinkTyped DEF Close
  <2>f. /\ file' \in [Sock -> Inst \cup {NoFile}] /\ open' \in [Inst -> SUBSET Sock]
        /\ \A j \in Inst : \A t \in open'[j] : file'[t] = j
    <3>1. CASE UNCHANGED <<file, open>>
      BY Zenon, <3>1 DEF InstInv, InstTypeOK
    <3>2. CASE Close(i, s)
      BY <3>2 DEF InstInv, InstTypeOK, Close
    <3> QED
      BY Zenon, <1>9, <3>1, <3>2 DEF CloseListener
  <2>1. InstTypeOK'
    BY ZenonT(60), <1>9, <2>l, <2>f DEF InstInv, InstTypeOK, CloseListener, LinkType, LinkState
  <2>2. SocketInv'
    BY <1>9 DEF InstInv, InstTypeOK, SocketInv, CloseListener, Close, Bound, Kept, Sock
  <2>3. StopInv'
    BY ZenonT(60), ZenonT(60), <1>9 DEF InstInv, InstTypeOK, StopInv, CloseListener, Alive
  <2>4. CountInv' /\ CountedServed'
    <3>1. UNCHANGED <<pc, early>> /\ (link' = link \/ Close(i, s))
      BY Zenon, <1>9 DEF CloseListener
    <3>2. \A c \in Link : link'[c] = link[c] \/ link'[c] = NoLink
      BY Zenon, <3>1 DEF Close
    <3> QED
      BY Zenon, <3>1, <3>2, LinkForgotten DEF InstInv
  <2> QED
    BY Zenon, <2>1, <2>2, <2>3, <2>4 DEF InstInv
<1>10. ASSUME NEW i \in Inst, NEW s \in Sock, AcceptLoopEnds(i, s) PROVE InstInv'
  <2>1. UNCHANGED <<file, open, var, pc, sig, ctx, early>>
    BY <1>10 DEF InstInv, InstTypeOK, AcceptLoopEnds, Close
  <2>l. link' \in [Link -> LinkType]
    BY Zenon, <1>10, LinkChange, LinkTyped DEF AcceptLoopEnds, Close, LinkState
  <2>2. InstTypeOK'
    BY Zenon, <1>10, <2>1, <2>l DEF InstInv, InstTypeOK, AcceptLoopEnds, Sock, LinkType, LinkState
  <2>3. CountInv' /\ CountedServed'
    <3>1. \A c \in Link : link'[c] = link[c] \/ link'[c] = NoLink
      BY Zenon, <1>10 DEF AcceptLoopEnds, Close
    <3> QED
      BY Zenon, <2>1, <3>1, LinkForgotten DEF InstInv
  <2> QED
    BY Zenon, <2>1, <2>2, <2>3 DEF InstInv, SocketInv, StopInv, Bound, Kept, Alive
<1>11. ASSUME NEW c \in Link, LinkStep(c) \/ \E s \in Sock : Connect(c, s) PROVE InstInv'
  <2>1. UNCHANGED <<file, open, var, loop, pc, sig, ctx, early>>
    BY Zenon, <1>11 DEF LinkStep, Accept, Serve, LinkServed, Connect
  <2>2. PICK r \in LinkType :
          /\ link' = [link EXCEPT ![c] = r]
          /\ r.counted => r.st = "served" /\ pc[r.at] # "waited"
          /\ r.st # "lost"
    <3>1. link[c] \in LinkType /\ link \in [Link -> LinkType]
      BY LinkTyped
    <3>2. CASE Accept(c)
      <4> DEFINE r == [link[c] EXCEPT !.st = "accepted"]
      <4>1. link' = [link EXCEPT ![c] = r] /\ ~link[c].counted
        BY <3>1, <3>2 DEF Accept, InstInv, CountInv
      <4>2. r \in LinkType /\ r.st = "accepted" /\ ~r.counted
        BY <3>1, <4>1 DEF LinkType, LinkState
      <4> HIDE DEF r
      <4> QED
        BY Zenon, <4>1, <4>2
    <3>3. CASE Serve(c)
      <4> DEFINE r == [link[c] EXCEPT !.st = "served",
                                      !.counted = pc[link[c].at] # "waited"]
      <4>1. link' = [link EXCEPT ![c] = r]
        BY Zenon, <3>3 DEF Serve
      <4>2. r \in LinkType /\ r.st = "served" /\ r.counted = (pc[r.at] # "waited")
        BY Zenon, <3>1 DEF LinkType, LinkState
      <4> HIDE DEF r
      <4> QED
        BY Zenon, <4>1, <4>2
    <3>4. CASE LinkServed(c)
      <4> DEFINE r == [NoLink EXCEPT !.st = "done"]
      <4>1. link' = [link EXCEPT ![c] = r]
        BY <3>4 DEF LinkServed
      <4>2. r \in LinkType /\ r.st = "done" /\ ~r.counted
        BY Zenon DEF NoLink, LinkType, LinkState, Sock
      <4> HIDE DEF r
      <4> QED
        BY Zenon, <4>1, <4>2
    <3>5. ASSUME NEW s \in Sock, Connect(c, s)
          PROVE  \E r \in LinkType :
                   /\ link' = [link EXCEPT ![c] = r]
                   /\ r.counted => r.st = "served" /\ pc[r.at] # "waited"
                   /\ r.st # "lost"
      <4> DEFINE r == [at |-> file[s], on |-> s, counted |-> FALSE, st |-> "queued"]
      <4>1. r \in LinkType
        BY Zenon DEF InstInv, InstTypeOK, LinkType, LinkState
      <4> QED
        BY ZenonT(60), <3>5, <4>1 DEF Connect
    <3> QED
      BY Zenon, <1>11, <3>2, <3>3, <3>4, <3>5 DEF LinkStep
  <2>3. link' \in [Link -> LinkType] /\ CountInv' /\ CountedServed'
    BY Zenon, <2>1, <2>2, LinkTyped DEF InstInv, CountInv, CountedServed
  <2> QED
    BY Zenon, <2>1, <2>3 DEF InstInv, InstTypeOK, SocketInv, StopInv, Bound, Kept, Alive, LinkType, LinkState
<1>12. CASE UNCHANGED instVars
  BY Zenon, <1>12 DEF instVars, InstInv, InstTypeOK, SocketInv, StopInv, CountInv, CountedServed,
     Bound, Kept, Alive
<1> QED
  BY Zenon, <1>1, <1>2, <1>3, <1>4, <1>5, <1>6, <1>7, <1>8, <1>9, <1>10, <1>11, <1>12
     DEF InstNext, RunStep, SignalStep

\* Run of pkg/core/core.go: whatever number of processes start, stop and crash
\* in whatever order, and although every one of them closes each listener
\* twice, the paths of a process that is ready and was not told to stop lead
\* to it.
THEOREM ReadyIsReachable ==
  InstSpec => []ReadyReachable
<1>1. InstInv => ReadyReachable
  BY Zenon DEF InstInv, InstTypeOK, SocketInv, Bound, Kept, ReadyReachable
<1> QED
  BY <1>1, InstInitInv, InstStepInv, PTL DEF InstSpec

\* Run and DispatchServer: a process that was told to stop when it was ready
\* exits only after the connections counted before its Wait returned are at
\* their end, unless it crashes.
THEOREM CountedAreServed ==
  InstSpec => []CountedServed
<1>1. InstInv => CountedServed
  BY DEF InstInv
<1> QED
  BY <1>1, InstInitInv, InstStepInv, PTL DEF InstSpec

\* The listeners of the whole daemon behave as Instance says.
LEMMA DaemonListeners ==
  DaemonSpec => InstSpec
<1>1. DaemonInit => InstInit
  BY Zenon DEF DaemonInit
<1>2. [Listeners \/ Debug]_daemonVars => [InstNext]_instVars
  BY Zenon DEF Listeners, Debug, daemonVars, instVars
<1> QED
  BY <1>1, <1>2, PTL DEF DaemonSpec, InstSpec

-----------------------------------------------------------------------------
(* The client pool and its consoles.                                       *)

StatFields == {"pc", "left", "lines", "failed", "unread", "peer"}
SessionFields == {"pc", "msg", "infos", "arr", "cb", "answer"}

\* The mutex of the pool is held over several steps by those who visit it, and
\* so by one of them at a time.
MutexInv ==
  /\ mu \in {Free} \cup Stat \cup Psql
  /\ DOMAIN stat = Stat /\ DOMAIN psql = Psql
  /\ \A w \in Stat : DOMAIN stat[w] = StatFields /\ (mu = w <=> stat[w].pc = "visit")
  /\ \A w \in Psql : DOMAIN psql[w] = SessionFields /\ (mu = w <=> psql[w].pc = "visit")

\* Each client of the pool has its line or is still to get it.
StatInv ==
  \A w \in Stat :
    /\ stat[w].pc # "visit" => stat[w].lines = {}
    /\ stat[w].pc = "visit" => stat[w].failed \/ stat[w].lines \cup stat[w].left = pool

Header == [ptr : Conn \cup {Nil}, len : Nat, cap : Nat]
Callback == [at : {"load", "store"}, h : Header, todo : SUBSET (Words \cup {"slot"})]

\* The callbacks of SHOW CLIENTS, when p is the pool.
CallbacksOK(s, p) ==
  /\ DOMAIN s.cb = p
  /\ \A c \in p : s.cb[c] \in Callback /\ (s.cb[c].at = "store" => s.cb[c].h.len # 0)

\* A client is, in whichever array it is, at the place after as many elements as
\* its callback has found.
ElementOK(s, p, e, i) == e = Nil \/ (e \in p /\ s.cb[e].at = "store" /\ s.cb[e].h.len = i)
ArraysOK(s, p) ==
  \A d \in DOMAIN s.arr :
    /\ s.arr[d] \in Seq(Conn \cup {Nil})
    /\ \A i \in 1..Len(s.arr[d]) : ElementOK(s, p, s.arr[d][i], i)

\* A callback that has stored the length leaves one that is not zero.
InfosOK(s, p) ==
  /\ s.infos \in Header
  /\ s.infos.len = 0 => \A c \in p : s.cb[c].at = "load" \/ "len" \in s.cb[c].todo

Visiting(s, p) == CallbacksOK(s, p) /\ ArraysOK(s, p) /\ InfosOK(s, p)

ShowInv == \A w \in Psql : psql[w].pc = "visit" => Visiting(psql[w], pool)

PoolInv == pool \subseteq Conn

ConsoleInv == MutexInv /\ PoolInv /\ StatInv /\ ShowInv

-----------------------------------------------------------------------------
(* The statistics connections.                                             *)

\* Whoever holds the mutex keeps the pool as it is.
LEMMA PoolKept ==
  ASSUME MutexInv, [PgNext]_pgVars, pool' # pool
  PROVE  mu = Free /\ UNCHANGED <<mu, stat, psql>>
<1>1. ASSUME NEW w \in Psql PROVE ~SessionStep(w)
  <2>1. ~StartupStep(w) /\ ~AuthStep(w) /\ ~Simple(w) /\ ~CopyPanics(w) /\ ~ShowStats(w)
    BY Zenon DEF StartupStep, AuthStep, Simple, CopyPanics, Lost, ShowStats, poolVars
  <2>2. ~ShowClients(w) /\ ~ShowClientsReturns(w)
    BY Zenon DEF ShowClients, ShowClientsReturns, Lost
  <2>3. \A c : ~LoadInfos(w, c) /\ ~GrowInfos(w, c) /\ ~StoreInfos(w, c) /\ ~StoreClient(w, c)
    BY Zenon DEF LoadInfos, GrowInfos, StoreInfos, StoreClient, Lost, poolVars
  <2> QED
    BY Zenon, <2>1, <2>2, <2>3 DEF SessionStep
<1>2. ASSUME NEW w \in Psql PROVE ~Dial(w) /\ ~HangUp(w) /\ ~Die(w) /\ \A m : ~Send(w, m)
  BY Zenon DEF Dial, HangUp, Die, Lost, Send, poolVars
<1>3. pool' = pool => FALSE
  OBVIOUS
<1>4. ~UNCHANGED pgVars
  BY Zenon, <1>3 DEF pgVars, poolVars
<1>5. PoolNext /\ UNCHANGED psql
  BY Zenon, <1>1, <1>2, <1>4 DEF PgNext
<1>6. \E c \in Conn : Put(c) \/ Pop(c)
  BY ZenonT(60), <1>5 DEF PoolNext, ConnStep, Accepted, Served, StatAccepted, StatStep, StatForeach,
     StatReturns, StatCallback, StatRead, StatHangsUp
<1> QED
  BY Zenon, <1>5, <1>6 DEF Put, Pop

\* What a statistics connection may do in a step, and what it does to the mutex.
LEMMA StatMoves ==
  ASSUME MutexInv, StatInv, NEW w \in Stat,
         StatAccepted(w) \/ StatStep(w) \/ StatRead(w) \/ StatHangsUp(w), UNCHANGED psql
  PROVE  MutexInv' /\ StatInv' /\ pool' = pool
<1>0. \A A, B, x : x \in B => (A \cup {x}) \cup (B \ {x}) = A \cup B
  OBVIOUS
<1> USE PoolAssumption, FreeAssumption DEF MutexInv, StatInv, StatFields
<1>1. CASE StatAccepted(w)
  BY <1>1 DEF StatAccepted
<1>2. CASE StatForeach(w)
  <2>1. /\ mu = Free /\ mu' = w /\ pool' = pool /\ stat[w].pc = "lock"
        /\ stat' = [stat EXCEPT ![w] = [stat[w] EXCEPT !.pc = "visit", !.left = pool]]
    BY Zenon, <1>2 DEF StatForeach
  <2>2. DOMAIN stat' = Stat /\ \A v \in Stat : v # w => stat'[v] = stat[v]
    BY Zenon, <2>1
  <2>3. /\ stat'[w].pc = "visit" /\ stat'[w].left = pool /\ stat'[w].lines = stat[w].lines
        /\ stat'[w].failed = stat[w].failed /\ DOMAIN stat'[w] = StatFields
    BY ZenonT(60), <2>1
  <2>4. StatInv'
    BY Zenon, <2>1, <2>2, <2>3
  <2>5. (\A v \in Stat : stat[v].pc # "visit") /\ (\A v \in Psql : psql[v].pc # "visit" /\ v # w)
    BY ZenonT(60), <2>1
  <2>6. \A v \in Stat : DOMAIN stat'[v] = StatFields /\ (mu' = v <=> stat'[v].pc = "visit")
    BY Zenon, <2>1, <2>2, <2>3, <2>5
  <2>7. \A v \in Psql : DOMAIN psql'[v] = SessionFields /\ (mu' = v <=> psql'[v].pc = "visit")
    BY Zenon, <2>1, <2>5
  <2> QED
    BY Zenon, <2>1, <2>2, <2>4, <2>6, <2>7
<1>3. ASSUME NEW c \in Conn, StatCallback(w, c) PROVE MutexInv' /\ StatInv' /\ pool' = pool
  <2>1. UNCHANGED <<pool, mu>> /\ stat[w].pc = "visit" /\ c \in stat[w].left
    BY Zenon, <1>3 DEF StatCallback
  <2>2. CASE stat[w].peer = "closed"
    <3>1. stat' = [stat EXCEPT ![w] = [stat[w] EXCEPT !.left = stat[w].left \ {c}, !.failed = TRUE]]
      BY Zenon, <1>3, <2>2 DEF StatCallback
    <3> QED
      BY <2>1, <3>1
  <2>3. CASE stat[w].peer # "closed"
    <3>1. stat' = [stat EXCEPT ![w] = [stat[w] EXCEPT !.left = stat[w].left \ {c},
                     !.lines = stat[w].lines \cup {c}, !.unread = stat[w].unread + 1]]
      BY <1>3, <2>3 DEF StatCallback
    <3>2. /\ stat'[w].left = stat[w].left \ {c} /\ stat'[w].lines = stat[w].lines \cup {c}
          /\ stat'[w].failed = stat[w].failed /\ stat'[w].pc = stat[w].pc
          /\ DOMAIN stat'[w] = DOMAIN stat[w]
      BY <3>1
    <3>3. DOMAIN stat' = DOMAIN stat /\ \A v \in Stat : v # w => stat'[v] = stat[v]
      BY ZenonT(60), <3>1
    <3>4. stat'[w].lines \cup stat'[w].left = stat[w].lines \cup stat[w].left
      <4> HIDE DEF MutexInv, StatInv
      <4>1. (stat[w].lines \cup {c}) \cup (stat[w].left \ {c}) = stat[w].lines \cup stat[w].left
        BY SMT, <1>0, <2>1
      <4>2. stat'[w].left = stat[w].left \ {c} /\ stat'[w].lines = stat[w].lines \cup {c}
        BY Zenon, <3>2
      <4> QED
        BY SMTT(60), SMT, <4>1, <4>2
    <3>5. MutexInv'
      BY ZenonT(60), <2>1, <3>2, <3>3
    <3> QED
      BY ZenonT(60), ZenonT(60), <2>1, <3>2, <3>3, <3>4, <3>5
  <2> QED
    BY Zenon, <2>2, <2>3
<1>4. CASE StatReturns(w)
  BY <1>4 DEF StatReturns, NoStat
<1>5. CASE StatRead(w)
  BY SMTT(60), <1>5 DEF StatRead
<1>6. CASE StatHangsUp(w)
  BY SMTT(60), <1>6 DEF StatHangsUp
<1> QED
  BY Zenon, <1>1, <1>2, <1>3, <1>4, <1>5, <1>6 DEF StatStep

-----------------------------------------------------------------------------
(* The psql sessions.                                                      *)

\* A step of a session gives it another state, and leaves the others alone.
LEMMA SetOne ==
  ASSUME MutexInv, NEW w \in Psql, NEW s, Set(w, s), DOMAIN s = SessionFields
  PROVE  /\ psql'[w] = s /\ DOMAIN psql' = Psql
         /\ \A v \in Psql : DOMAIN psql'[v] = SessionFields /\ (v # w => psql'[v] = psql[v])
BY Zenon DEF MutexInv, Set

\* A session that neither had nor takes the mutex.
LEMMA SetOutside ==
  ASSUME MutexInv, StatInv, ShowInv, NEW w \in Psql, NEW s, Set(w, s), UNCHANGED <<pool, mu, stat>>,
         DOMAIN s = SessionFields, psql[w].pc # "visit", s.pc # "visit"
  PROVE  MutexInv' /\ StatInv' /\ ShowInv'
<1>1. /\ psql'[w] = s /\ DOMAIN psql' = Psql
      /\ \A v \in Psql : DOMAIN psql'[v] = SessionFields /\ (v # w => psql'[v] = psql[v])
  BY Zenon, SetOne
<1>2. MutexInv'
  BY Zenon, <1>1 DEF MutexInv
<1>3. StatInv'
  BY Zenon DEF StatInv
<1>4. ASSUME NEW v \in Psql, psql'[v].pc = "visit" PROVE v # w /\ psql'[v] = psql[v]
  BY Zenon, <1>1, <1>4
<1>5. ShowInv'
  BY Zenon, <1>1, <1>4 DEF ShowInv
<1> QED
  BY Zenon, <1>2, <1>3, <1>5

\* A session that has the mutex and keeps it.
LEMMA SetInside ==
  ASSUME MutexInv, StatInv, ShowInv, NEW w \in Psql, NEW s, Set(w, s), UNCHANGED <<pool, mu, stat>>,
         DOMAIN s = SessionFields, psql[w].pc = "visit", s.pc = "visit", Visiting(s, pool)
  PROVE  MutexInv' /\ StatInv' /\ ShowInv'
<1>1. /\ psql'[w] = s /\ DOMAIN psql' = Psql
      /\ \A v \in Psql : DOMAIN psql'[v] = SessionFields /\ (v # w => psql'[v] = psql[v])
  BY Zenon, SetOne
<1>2. MutexInv'
  BY Zenon, <1>1 DEF MutexInv
<1>3. StatInv'
  BY Zenon DEF StatInv
<1>4. ASSUME NEW v \in Psql, psql'[v].pc = "visit" PROVE v = w
  BY Zenon, <1>1, <1>4 DEF MutexInv
<1>5. ShowInv'
  BY Zenon, <1>1, <1>4 DEF ShowInv
<1> QED
  BY Zenon, <1>2, <1>3, <1>5

\* The end of the process leaves everything else as it is.
LEMMA LostKeeps ==
  ASSUME ConsoleInv, Lost
  PROVE  MutexInv' /\ StatInv' /\ ShowInv' /\ pool' = pool
BY Zenon DEF Lost, ConsoleInv, MutexInv, StatInv, ShowInv

\* A callback that changes neither an array nor the header.
LEMMA Loads ==
  ASSUME NEW s, NEW t, NEW p, NEW c \in p, NEW v \in Callback, Visiting(s, p), s.cb[c].at = "load",
         t.arr = s.arr, t.infos = s.infos, t.cb = [s.cb EXCEPT ![c] = v],
         v.at = "store" => v.h.len # 0 /\ "len" \in v.todo
  PROVE  Visiting(t, p)
<1>1. DOMAIN t.cb = p /\ t.cb[c] = v /\ \A d \in p : d # c => t.cb[d] = s.cb[d]
  BY Zenon DEF Visiting, CallbacksOK
<1>2. v.at \in {"load", "store"}
  BY Zenon DEF Callback
<1>3. CallbacksOK(t, p)
  BY Zenon, <1>1 DEF Visiting, CallbacksOK
<1>4. \A e, i : ElementOK(s, p, e, i) => ElementOK(t, p, e, i)
  BY <1>1 DEF ElementOK
<1>5. ArraysOK(t, p)
  BY Zenon, <1>4 DEF Visiting, ArraysOK
<1>6. InfosOK(t, p)
  BY Zenon, <1>1, <1>2 DEF Visiting, InfosOK
<1> QED
  BY Zenon, <1>3, <1>5, <1>6 DEF Visiting

\* The callback that loads a word of infos.
LEMMA LoadKeeps ==
  ASSUME ConsoleInv, NEW w \in Psql, NEW c \in Conn, LoadInfos(w, c)
  PROVE  MutexInv' /\ StatInv' /\ ShowInv' /\ pool' = pool
<1>1. PICK s : s = psql[w]
  BY Zenon
<1>2. /\ s.pc = "visit" /\ c \in DOMAIN s.cb /\ s.cb[c].at = "load" /\ UNCHANGED <<pool, mu, stat>>
      /\ DOMAIN s = SessionFields /\ Visiting(s, pool)
  BY Zenon, <1>1 DEF LoadInfos, ConsoleInv, MutexInv, ShowInv, poolVars
<1>3. PICK x \in s.cb[c].todo :
        Set(w, [s EXCEPT !.cb[c] = [at |-> "load", h |-> [s.cb[c].h EXCEPT ![x] = s.infos[x]],
                                    todo |-> s.cb[c].todo \ {x}]])
  BY Zenon, <1>1 DEF LoadInfos
<1>4. PICK v : v = [at |-> "load", h |-> [s.cb[c].h EXCEPT ![x] = s.infos[x]],
                    todo |-> s.cb[c].todo \ {x}]
  BY Zenon
<1>5. PICK t : t = [s EXCEPT !.cb = [s.cb EXCEPT ![c] = v]]
  BY Zenon
<1>6. Set(w, t)
  BY Zenon, <1>3, <1>4, <1>5
<1>7. /\ DOMAIN t = SessionFields /\ t.pc = s.pc /\ t.arr = s.arr /\ t.infos = s.infos
      /\ t.cb = [s.cb EXCEPT ![c] = v]
  BY <1>2, <1>5 DEF SessionFields
<1>8. v \in Callback
  <2>1. s.cb[c] \in Callback /\ s.infos \in Header
    BY Zenon, <1>2 DEF Visiting, CallbacksOK, InfosOK
  <2>2. s.cb[c].h \in Header /\ s.cb[c].todo \subseteq Words \cup {"slot"}
    BY <2>1 DEF Callback
  <2>3. [s.cb[c].h EXCEPT ![x] = s.infos[x]] \in Header
    <3>1. PICK g \in Header, n \in Header : g = s.cb[c].h /\ n = s.infos
      BY Zenon, <2>1, <2>2
    <3>2. [g EXCEPT ![x] = n[x]] \in Header
      <4>1. CASE x = "ptr"
        BY <4>1 DEF Header
      <4>2. CASE x = "len"
        BY <4>2 DEF Header
      <4>3. CASE x = "cap"
        BY <4>3 DEF Header
      <4>4. CASE x = "slot"
        BY <4>4 DEF Header
      <4> QED
        BY Zenon, <2>2, <4>1, <4>2, <4>3, <4>4 DEF Words
    <3> QED
      BY Zenon, <3>1, <3>2
  <2> QED
    BY Zenon, <1>4, <2>2, <2>3 DEF Callback
<1>9. c \in pool
  BY Zenon, <1>2 DEF Visiting, CallbacksOK
<1>10. v.at = "load"
  BY Zenon, <1>4
<1>11. Visiting(t, pool)
  BY ZenonT(60), <1>2, <1>7, <1>8, <1>9, <1>10, Loads
<1> QED
  BY Zenon, <1>1, <1>2, <1>6, <1>7, <1>11, SetInside DEF ConsoleInv

\* The callback that has the header: it appends to the array or to a copy.
LEMMA GrowKeeps ==
  ASSUME ConsoleInv, NEW w \in Psql, NEW c \in Conn, GrowInfos(w, c)
  PROVE  MutexInv' /\ StatInv' /\ ShowInv' /\ pool' = pool
<1>1. PICK s : s = psql[w]
  BY Zenon
<1>2. /\ s.pc = "visit" /\ c \in DOMAIN s.cb /\ s.cb[c].at = "load"
      /\ DOMAIN s = SessionFields /\ Visiting(s, pool)
  BY Zenon, <1>1 DEF GrowInfos, ConsoleInv, MutexInv, ShowInv
<1>3. PICK h, k : h = s.cb[c].h /\ k = Grown(h.len + 1, h.cap)
  BY Zenon
<1>4. c \in pool /\ s.cb[c] \in Callback
  BY Zenon, <1>2 DEF Visiting, CallbacksOK
<1>5. h \in Header /\ h.len \in Nat /\ h.len + 1 \in Nat \ {0} /\ k \in Nat /\ h.len <= k
  <2>1. h \in Header
    BY <1>3, <1>4 DEF Callback
  <2>2. h.len \in Nat /\ h.cap \in Nat
    BY <2>1 DEF Header
  <2> QED
    BY SMTT(60), <1>3, <2>1, <2>2 DEF Grown
<1>6. CASE Lost
  BY Zenon, <1>6, LostKeeps
<1>n. PICK n \in Nat \ {0} : n = h.len + 1
  BY Zenon, <1>5
<1>7. CASE UNCHANGED poolVars /\ Set(w, InPlace(s, c, h))
  <2>1. PICK v : v = [at |-> "store", h |-> [h EXCEPT !.len = n], todo |-> {"len", "slot"}]
    BY Zenon
  <2>2. PICK t : t = [s EXCEPT !.cb = [s.cb EXCEPT ![c] = v]]
    BY Zenon
  <2>3. Set(w, t) /\ UNCHANGED <<pool, mu, stat>>
    BY Zenon, <1>7, <1>n, <2>1, <2>2 DEF poolVars, InPlace
  <2>4. /\ DOMAIN t = SessionFields /\ t.pc = s.pc /\ t.arr = s.arr /\ t.infos = s.infos
        /\ t.cb = [s.cb EXCEPT ![c] = v]
    BY <1>2, <2>2 DEF SessionFields
  <2>5. [h EXCEPT !.len = n] \in Header /\ [h EXCEPT !.len = n].len = n
    BY <1>5, <1>n DEF Header
  <2>6. v \in Callback /\ v.h.len # 0 /\ "len" \in v.todo
    BY Zenon, <2>1, <2>5 DEF Callback, Words
  <2>7. Visiting(t, pool)
    BY SMTT(60), <1>2, <1>4, <2>4, <2>6, Loads
  <2> QED
    BY Zenon, <1>1, <1>2, <2>3, <2>4, <2>7, SetInside DEF ConsoleInv
<1>8. CASE UNCHANGED poolVars /\ Inside(s, h.ptr, h.len) /\ Set(w, Copied(s, c, h, k))
  <2>1. PICK v, a, b : /\ v = [at |-> "store", h |-> [ptr |-> c, len |-> n, cap |-> k],
                               todo |-> Words \cup {"slot"}]
                       /\ a = [i \in 1..k |-> IF i <= h.len THEN s.arr[h.ptr][i] ELSE Nil]
                       /\ b = [d \in DOMAIN s.arr \cup {c} |-> IF d # c THEN s.arr[d] ELSE a]
    BY Zenon
  <2>2. PICK u, t : /\ u = [s EXCEPT !.cb = [s.cb EXCEPT ![c] = v]]
                    /\ t = [s EXCEPT !.arr = b, !.cb = [s.cb EXCEPT ![c] = v]]
    BY Zenon
  <2>3. Set(w, t) /\ UNCHANGED <<pool, mu, stat>>
    BY Zenon, <1>8, <1>n, <2>1, <2>2 DEF poolVars, Copied
  <2>4. /\ DOMAIN t = SessionFields /\ t.pc = s.pc /\ t.arr = b /\ t.infos = s.infos
        /\ t.cb = [s.cb EXCEPT ![c] = v]
        /\ u.arr = s.arr /\ u.infos = s.infos /\ u.cb = [s.cb EXCEPT ![c] = v]
    BY SMTT(60), <1>2, <2>2 DEF SessionFields
  <2>5. v \in Callback /\ v.h.len # 0 /\ "len" \in v.todo
    BY SMTT(60), <1>5, <2>1 DEF Callback, Header, Words
  <2>6. Visiting(u, pool)
    BY SMTT(60), <1>2, <1>4, <2>4, <2>5, Loads
  <2>7. a \in Seq(Conn \cup {Nil}) /\ \A i \in 1..Len(a) : ElementOK(u, pool, a[i], i)
    <3>1. \A i \in 1..h.len : s.arr[h.ptr][i] \in Conn \cup {Nil} /\ ElementOK(u, pool, s.arr[h.ptr][i], i)
      <4>1. CASE h.len = 0
        BY SMTT(60), <4>1
      <4>2. CASE h.ptr \in DOMAIN s.arr /\ h.len <= Len(s.arr[h.ptr])
        <5>1. s.arr[h.ptr] \in Seq(Conn \cup {Nil})
              /\ \A i \in 1..Len(s.arr[h.ptr]) : ElementOK(u, pool, s.arr[h.ptr][i], i)
          BY Zenon, <2>4, <2>6, <4>2 DEF Visiting, ArraysOK
        <5> QED
          BY <1>5, <4>2, <5>1
      <4> QED
        BY Zenon, <1>8, <4>1, <4>2 DEF Inside
    <3>2. ElementOK(u, pool, Nil, 0) /\ \A i : ElementOK(u, pool, Nil, i)
      BY Zenon DEF ElementOK
    <3>3. \A i \in 1..k : a[i] \in Conn \cup {Nil} /\ ElementOK(u, pool, a[i], i)
      <4> SUFFICES ASSUME NEW i \in 1..k PROVE a[i] \in Conn \cup {Nil} /\ ElementOK(u, pool, a[i], i)
        BY Zenon
      <4>1. a[i] = IF i <= h.len THEN s.arr[h.ptr][i] ELSE Nil
        BY Zenon, <2>1
      <4>2. i <= h.len => i \in 1..h.len
        BY <1>5
      <4> QED
        BY Zenon, <3>1, <3>2, <4>1, <4>2
    <3>4. DOMAIN a = 1..k
      BY Zenon, <2>1
    <3>5. a \in [1..k -> Conn \cup {Nil}]
      BY Zenon, <2>1, <3>3, <3>4
    <3>6. a \in Seq(Conn \cup {Nil}) /\ Len(a) = k
      BY <1>5, <3>5
    <3> QED
      BY Zenon, <3>3, <3>6
  <2>8. ArraysOK(t, pool)
    <3>1. \A e, i : ElementOK(u, pool, e, i) => ElementOK(t, pool, e, i)
      BY Zenon, <2>4 DEF ElementOK
    <3>2. DOMAIN b = DOMAIN s.arr \cup {c} /\ b[c] = a /\ \A d \in DOMAIN s.arr : d # c => b[d] = s.arr[d]
      BY Zenon, <2>1
    <3>3. ASSUME NEW d \in DOMAIN b
          PROVE  /\ b[d] \in Seq(Conn \cup {Nil})
                 /\ \A i \in 1..Len(b[d]) : ElementOK(t, pool, b[d][i], i)
      <4>1. CASE d = c
        BY Zenon, <2>7, <3>1, <3>2, <4>1
      <4>2. CASE d # c
        <5>1. d \in DOMAIN u.arr /\ b[d] = u.arr[d]
          BY Zenon, <2>4, <3>2, <3>3, <4>2
        <5> QED
          BY Zenon, <2>6, <3>1, <5>1 DEF Visiting, ArraysOK
      <4> QED
        BY Zenon, <4>1, <4>2
    <3> QED
      BY Zenon, <2>4, <3>3 DEF ArraysOK
  <2>9. Visiting(t, pool)
    <3>1. t.cb = u.cb /\ t.infos = u.infos
      BY Zenon, <2>4
    <3>2. CallbacksOK(t, pool)
      BY Zenon, <2>6, <3>1 DEF Visiting, CallbacksOK
    <3>3. InfosOK(t, pool)
      BY Zenon, <2>6, <3>1 DEF Visiting, InfosOK
    <3> QED
      BY Zenon, <2>8, <3>2, <3>3 DEF Visiting
  <2> QED
    BY Zenon, <1>1, <1>2, <2>3, <2>4, <2>9, SetInside DEF ConsoleInv
<1>9. \/ Lost \/ (UNCHANGED poolVars /\ Set(w, InPlace(s, c, h)))
      \/ UNCHANGED poolVars /\ Inside(s, h.ptr, h.len) /\ Set(w, Copied(s, c, h, k))
  BY Zenon, <1>1, <1>3 DEF GrowInfos
<1> QED
  BY Zenon, <1>6, <1>7, <1>8, <1>9

\* A callback that has something less to store keeps its header, and so the
\* elements their places.
Lessened(s, t, p, c, x) ==
  /\ CallbacksOK(t, p) /\ \A e, i : ElementOK(s, p, e, i) => ElementOK(t, p, e, i)
  /\ s.infos \in Header /\ s.cb[c].h \in Header /\ s.cb[c].h.len # 0
  /\ x # "len" /\ s.infos.len = 0 => \A d \in p : t.cb[d].at = "load" \/ "len" \in t.cb[d].todo

LEMMA Stores ==
  ASSUME NEW s, NEW t, NEW p, NEW c \in p, NEW x, NEW v, Visiting(s, p), s.cb[c].at = "store",
         v = [at |-> "store", h |-> s.cb[c].h, todo |-> s.cb[c].todo \ {x}],
         t.cb = [s.cb EXCEPT ![c] = v]
  PROVE  Lessened(s, t, p, c, x)
<1>2. v.at = "store" /\ v.h = s.cb[c].h /\ v.todo = s.cb[c].todo \ {x}
  BY Zenon
<1>3. DOMAIN t.cb = p /\ t.cb[c] = v /\ \A d \in p : d # c => t.cb[d] = s.cb[d]
  BY Zenon DEF Visiting, CallbacksOK
<1>4. s.cb[c] \in Callback /\ s.cb[c].h.len # 0 /\ s.infos \in Header
  BY Zenon DEF Visiting, CallbacksOK, InfosOK
<1>5. v \in Callback /\ s.cb[c].h \in Header
  BY <1>4 DEF Callback
<1>6. CallbacksOK(t, p)
  BY Zenon, <1>2, <1>3, <1>4, <1>5 DEF Visiting, CallbacksOK
<1>7. ASSUME NEW e, NEW i, ElementOK(s, p, e, i) PROVE ElementOK(t, p, e, i)
  BY Zenon, <1>2, <1>3, <1>7 DEF ElementOK
<1>8. ASSUME x # "len", s.infos.len = 0, NEW d \in p
      PROVE  t.cb[d].at = "load" \/ "len" \in t.cb[d].todo
  <2>1. s.cb[d].at = "load" \/ "len" \in s.cb[d].todo
    BY Zenon, <1>8 DEF Visiting, InfosOK
  <2> QED
    BY <1>2, <1>3, <1>8, <2>1
<1> QED
  BY Zenon, <1>4, <1>5, <1>6, <1>7, <1>8 DEF Lessened

\* The callback that stores a word of the header.
LEMMA StoreKeeps ==
  ASSUME ConsoleInv, NEW w \in Psql, NEW c \in Conn, StoreInfos(w, c)
  PROVE  MutexInv' /\ StatInv' /\ ShowInv' /\ pool' = pool
<1>1. PICK s : s = psql[w]
  BY Zenon
<1>2. /\ s.pc = "visit" /\ c \in DOMAIN s.cb /\ s.cb[c].at = "store" /\ UNCHANGED <<pool, mu, stat>>
      /\ DOMAIN s = SessionFields /\ Visiting(s, pool)
  BY Zenon, <1>1 DEF StoreInfos, ConsoleInv, MutexInv, ShowInv, poolVars
<1>3. PICK x \in s.cb[c].todo \cap Words :
        Set(w, [s EXCEPT !.infos[x] = s.cb[c].h[x],
                         !.cb[c] = [at |-> "store", h |-> s.cb[c].h, todo |-> s.cb[c].todo \ {x}]])
  BY Zenon, <1>1 DEF StoreInfos
<1>4. PICK v, g : /\ v = [at |-> "store", h |-> s.cb[c].h, todo |-> s.cb[c].todo \ {x}]
                  /\ g = [s.infos EXCEPT ![x] = s.cb[c].h[x]]
  BY Zenon
<1>5. PICK t : t = [s EXCEPT !.infos = g, !.cb = [s.cb EXCEPT ![c] = v]]
  BY Zenon
<1>6. Set(w, t)
  BY Zenon, <1>3, <1>4, <1>5
<1>7. /\ DOMAIN t = SessionFields /\ t.pc = s.pc /\ t.arr = s.arr /\ t.infos = g
      /\ t.cb = [s.cb EXCEPT ![c] = v]
  BY <1>2, <1>5 DEF SessionFields
<1>8. c \in pool
  BY Zenon, <1>2 DEF Visiting, CallbacksOK
<1>9. /\ CallbacksOK(t, pool) /\ \A e, i : ElementOK(s, pool, e, i) => ElementOK(t, pool, e, i)
      /\ s.infos \in Header /\ s.cb[c].h \in Header /\ s.cb[c].h.len # 0
      /\ x # "len" /\ s.infos.len = 0 => \A d \in pool : t.cb[d].at = "load" \/ "len" \in t.cb[d].todo
  <2>1. Lessened(s, t, pool, c, x)
    BY Zenon, <1>2, <1>4, <1>7, <1>8, Stores
  <2> QED
    BY Zenon, <2>1 DEF Lessened
<1>10. g \in Header /\ (g.len = 0 => x # "len" /\ s.infos.len = 0)
  <2>1. PICK y \in Header, z \in Header : y = s.infos /\ z = s.cb[c].h
    BY Zenon, <1>9
  <2>2. z.len # 0 /\ g = [y EXCEPT ![x] = z[x]]
    BY Zenon, <1>4, <1>9, <2>1
  <2>3. CASE x = "ptr"
    BY SMTT(60), <2>1, <2>2, <2>3 DEF Header
  <2>4. CASE x = "len"
    BY SMTT(60), <2>1, <2>2, <2>4 DEF Header
  <2>5. CASE x = "cap"
    BY <2>1, <2>2, <2>5 DEF Header
  <2> QED
    BY Zenon, <1>3, <2>3, <2>4, <2>5 DEF Words
<1>11. ArraysOK(t, pool)
  BY Zenon, <1>2, <1>7, <1>9 DEF Visiting, ArraysOK
<1>12. Visiting(t, pool)
  BY Zenon, <1>7, <1>9, <1>10, <1>11 DEF Visiting, InfosOK
<1> QED
  BY Zenon, <1>1, <1>2, <1>6, <1>7, <1>12, SetInside DEF ConsoleInv

\* The callback that stores its client into the array.
LEMMA SlotKeeps ==
  ASSUME ConsoleInv, NEW w \in Psql, NEW c \in Conn, StoreClient(w, c)
  PROVE  MutexInv' /\ StatInv' /\ ShowInv' /\ pool' = pool
<1>1. PICK s : s = psql[w]
  BY Zenon
<1>2. /\ s.pc = "visit" /\ c \in DOMAIN s.cb /\ s.cb[c].at = "store"
      /\ DOMAIN s = SessionFields /\ Visiting(s, pool)
  BY Zenon, <1>1 DEF StoreClient, ConsoleInv, MutexInv, ShowInv
<1>3. CASE Lost
  BY Zenon, <1>3, LostKeeps
<1>4. CASE UNCHANGED poolVars /\ Set(w, Slot(s, c, c))
  <2>1. PICK h : h = s.cb[c].h
    BY Zenon
  <2>2. PICK v, b : /\ v = [at |-> "store", h |-> s.cb[c].h, todo |-> s.cb[c].todo \ {"slot"}]
                    /\ b = [d \in DOMAIN s.arr |->
                              IF d = h.ptr THEN [s.arr[d] EXCEPT ![h.len] = c] ELSE s.arr[d]]
    BY Zenon
  <2>3. PICK t : t = [s EXCEPT !.arr = b, !.cb = [s.cb EXCEPT ![c] = v]]
    BY Zenon
  <2>4. Set(w, t) /\ UNCHANGED <<pool, mu, stat>>
    BY Zenon, <1>4, <2>1, <2>2, <2>3 DEF Slot, poolVars
  <2>5. /\ DOMAIN t = SessionFields /\ t.pc = s.pc /\ t.arr = b /\ t.infos = s.infos
        /\ t.cb = [s.cb EXCEPT ![c] = v]
    BY <1>2, <2>3 DEF SessionFields
  <2>6. c \in pool
    BY Zenon, <1>2 DEF Visiting, CallbacksOK
  <2>7. /\ CallbacksOK(t, pool) /\ \A e, i : ElementOK(s, pool, e, i) => ElementOK(t, pool, e, i)
        /\ s.infos \in Header /\ h \in Header
        /\ s.infos.len = 0 => \A d \in pool : t.cb[d].at = "load" \/ "len" \in t.cb[d].todo
    <3>1. "slot" # "len"
      OBVIOUS
    <3>2. Lessened(s, t, pool, c, "slot")
      BY Zenon, <1>2, <2>2, <2>5, <2>6, Stores
    <3> QED
      BY Zenon, <2>1, <3>1, <3>2 DEF Lessened
  <2>8. ElementOK(t, pool, c, h.len)
    <3>1. t.cb[c] = v
      BY Zenon, <1>2, <2>5
    <3>a. v.at = "store" /\ v.h = h
      BY <2>1, <2>2
    <3>2. t.cb[c].at = "store" /\ t.cb[c].h = h
      BY Zenon, <3>1, <3>a
    <3> QED
      BY Zenon, <2>6, <3>2 DEF ElementOK
  <2>9. ASSUME NEW d \in DOMAIN b
        PROVE  /\ b[d] \in Seq(Conn \cup {Nil})
               /\ \A i \in 1..Len(b[d]) : ElementOK(t, pool, b[d][i], i)
    <3>1. /\ d \in DOMAIN s.arr /\ s.arr[d] \in Seq(Conn \cup {Nil})
          /\ \A i \in 1..Len(s.arr[d]) : ElementOK(t, pool, s.arr[d][i], i)
      BY Zenon, <1>2, <2>2, <2>7, <2>9 DEF Visiting, ArraysOK
    <3>2. CASE d # h.ptr
      BY Zenon, <2>2, <3>1, <3>2
    <3>3. CASE d = h.ptr
      <4>1. PICK a \in Seq(Conn \cup {Nil}) : a = s.arr[d]
        BY Zenon, <3>1
      <4>2. b[d] = [a EXCEPT ![h.len] = c]
        BY Zenon, <2>2, <3>1, <3>3, <4>1
      <4>3. PICK n, S : n = h.len /\ S = Conn \cup {Nil}
        BY Zenon
      <4>4. c \in S /\ a \in Seq(S)
        BY Zenon, <4>1, <4>3
      <4>5. /\ [a EXCEPT ![n] = c] \in Seq(S) /\ Len([a EXCEPT ![n] = c]) = Len(a)
            /\ \A i \in 1..Len(a) : [a EXCEPT ![n] = c][i] = IF i = n THEN c ELSE a[i]
        <5>1. PICK m \in Nat : m = Len(a) /\ a \in [1..m -> S]
          BY <4>4
        <5>2. PICK e : e = [a EXCEPT ![n] = c]
          BY Zenon
        <5>3. e \in [1..m -> S] /\ \A i \in 1..m : e[i] = IF i = n THEN c ELSE a[i]
          BY Zenon, <4>4, <5>1, <5>2
        <5>4. e \in Seq(S) /\ Len(e) = m
          BY <5>3
        <5> QED
          BY Zenon, <5>1, <5>2, <5>3, <5>4
      <4>6. /\ b[d] \in Seq(Conn \cup {Nil}) /\ Len(b[d]) = Len(a)
            /\ \A i \in 1..Len(a) : b[d][i] = IF i = h.len THEN c ELSE a[i]
        BY Zenon, <4>2, <4>3, <4>5
      <4> QED
        BY Zenon, <2>8, <3>1, <4>1, <4>6
    <3> QED
      BY Zenon, <3>2, <3>3
  <2>10. Visiting(t, pool)
    BY Zenon, <2>5, <2>7, <2>9 DEF Visiting, ArraysOK, InfosOK
  <2> QED
    BY Zenon, <1>1, <1>2, <2>4, <2>5, <2>10, SetInside DEF ConsoleInv
<1> QED
  BY Zenon, <1>1, <1>3, <1>4 DEF StoreClient

\* Every other step of a session.
LEMMA SessionKeeps ==
  ASSUME ConsoleInv, NEW w \in Psql,
         \/ Dial(w) \/ HangUp(w) \/ Die(w) \/ CopyPanics(w) \/ StartupStep(w) \/ AuthStep(w)
         \/ Simple(w) \/ ShowStats(w) \/ \E m : Send(w, m)
  PROVE  MutexInv' /\ StatInv' /\ ShowInv' /\ pool' = pool
<1> USE DEF ConsoleInv
<1>f. DOMAIN psql[w] = SessionFields
  BY Zenon DEF MutexInv
<1>g. \A a : /\ DOMAIN Answered(a) = SessionFields /\ Answered(a).pc = "receive"
             /\ DOMAIN [Answered(a) EXCEPT !.pc = "dying"] = SessionFields
             /\ [Answered(a) EXCEPT !.pc = "dying"].pc = "dying"
  BY DEF Answered, NoSession, SessionFields
<1>h. \A p, m, a :
        /\ DOMAIN [psql[w] EXCEPT !.pc = p] = SessionFields
        /\ [psql[w] EXCEPT !.pc = p].pc = p
        /\ DOMAIN [psql[w] EXCEPT !.msg = m] = SessionFields
        /\ [psql[w] EXCEPT !.msg = m].pc = psql[w].pc
        /\ DOMAIN [psql[w] EXCEPT !.msg = m, !.answer = a] = SessionFields
        /\ [psql[w] EXCEPT !.msg = m, !.answer = a].pc = psql[w].pc
        /\ DOMAIN [psql[w] EXCEPT !.msg = m, !.pc = p] = SessionFields
        /\ [psql[w] EXCEPT !.msg = m, !.pc = p].pc = p
  BY SMTT(60), <1>f DEF SessionFields
<1>k. ASSUME UNCHANGED poolVars, NEW s, Set(w, s), DOMAIN s = SessionFields,
             psql[w].pc # "visit", s.pc # "visit"
      PROVE  MutexInv' /\ StatInv' /\ ShowInv' /\ pool' = pool
  <2>1. UNCHANGED <<pool, mu, stat>>
    BY ZenonT(60), <1>k DEF poolVars
  <2> QED
    BY ZenonT(60), <1>k, <2>1, SetOutside
<1>1. CASE Dial(w)
  BY Zenon, <1>1, <1>h, <1>k DEF Dial
<1>2. CASE HangUp(w)
  BY ZenonT(60), ZenonT(60), <1>2, <1>h, <1>k DEF HangUp
<1>3. CASE Die(w) \/ CopyPanics(w)
  BY Zenon, <1>3, LostKeeps DEF Die, CopyPanics
<1>4. CASE StartupStep(w)
  <2>1. PICK p \in {"startup", "auth", "over"} : Set(w, [psql[w] EXCEPT !.msg = "none", !.pc = p])
    BY Zenon, <1>4 DEF StartupStep
  <2>2. PICK s : s = [psql[w] EXCEPT !.msg = "none", !.pc = p]
    OBVIOUS
  <2>3. DOMAIN s = SessionFields /\ s.pc = p
    BY Zenon, <1>h, <2>2
  <2>4. Set(w, s) /\ UNCHANGED poolVars /\ psql[w].pc = "startup"
    BY Zenon, <1>4, <2>1, <2>2 DEF StartupStep
  <2> QED
    BY <1>k, <2>1, <2>3, <2>4
<1>5. CASE AuthStep(w)
  <2>1. PICK s : s = [psql[w] EXCEPT !.msg = "none", !.pc = "receive"]
    OBVIOUS
  <2>2. DOMAIN s = SessionFields /\ s.pc = "receive"
    BY Zenon, <1>h, <2>1
  <2>3. Set(w, s) /\ UNCHANGED poolVars /\ psql[w].pc = "auth"
    BY Zenon, <1>5, <2>1 DEF AuthStep
  <2> QED
    BY Zenon, <1>k, <2>2, <2>3
<1>6. CASE Simple(w)
  <2>1. UNCHANGED poolVars /\ psql[w].pc = "receive"
    BY Zenon, <1>6 DEF Simple
  <2>2. CASE \E a : Set(w, Answered(a))
    BY Zenon, <1>g, <1>k, <2>1, <2>2
  <2>3. CASE Set(w, [Answered("done") EXCEPT !.pc = "dying"])
    BY Zenon, <1>g, <1>k, <2>1, <2>3
  <2>4. CASE Set(w, [psql[w] EXCEPT !.msg = "none"])
    BY Zenon, <1>h, <1>k, <2>1, <2>4
  <2>5. \/ \E a : Set(w, Answered(a))
        \/ Set(w, [Answered("done") EXCEPT !.pc = "dying"])
        \/ Set(w, [psql[w] EXCEPT !.msg = "none"])
    BY Zenon, <1>6 DEF Simple
  <2> QED
    BY Zenon, <2>2, <2>3, <2>4, <2>5
<1>7. CASE ShowStats(w)
  BY Zenon, <1>7, <1>g, <1>k DEF ShowStats
<1>8. ASSUME NEW m, Send(w, m) PROVE MutexInv' /\ StatInv' /\ ShowInv' /\ pool' = pool
  <2>1. psql[w].pc # "visit" /\ UNCHANGED poolVars
        /\ Set(w, [psql[w] EXCEPT !.msg = m, !.answer = "none"])
    BY Zenon, <1>8 DEF Send
  <2>2. PICK s : s = [psql[w] EXCEPT !.msg = m, !.answer = "none"]
    OBVIOUS
  <2>3. DOMAIN s = SessionFields /\ s.pc = psql[w].pc
    BY ZenonT(60), ZenonT(60), <1>h, <2>2
  <2>4. Set(w, s)
    BY Zenon, <2>1, <2>2
  <2> QED
    BY Zenon, <1>k, <2>1, <2>3, <2>4
<1> QED
  BY Zenon, <1>1, <1>2, <1>3, <1>4, <1>5, <1>6, <1>7, <1>8

\* ClientPoolForeach takes the mutex for a session, and gives it back.
LEMMA ShowKeeps ==
  ASSUME ConsoleInv, NEW w \in Psql, ShowClients(w) \/ ShowClientsReturns(w)
  PROVE  MutexInv' /\ StatInv' /\ ShowInv' /\ pool' = pool
<1> USE PoolAssumption, FreeAssumption DEF ConsoleInv
<1>f. DOMAIN psql[w] = SessionFields
  BY SMTT(60) DEF MutexInv
<1>1. CASE ShowClients(w)
  <2>1. PICK v, s : /\ v = [c \in pool |-> [at |-> "load", h |-> NoInfos, todo |-> Words]]
                    /\ s = [psql[w] EXCEPT !.pc = "visit", !.infos = NoInfos, !.arr = << >>, !.cb = v]
    BY Zenon
  <2>2. DOMAIN s = SessionFields /\ s.pc = "visit" /\ s.infos = NoInfos /\ s.arr = << >> /\ s.cb = v
    BY <1>f, <2>1 DEF SessionFields
  <2>3. Set(w, s) /\ mu' = w /\ mu = Free /\ UNCHANGED <<pool, stat>> /\ psql[w].pc = "receive"
    BY Zenon, <1>1, <2>1 DEF ShowClients
  <2>4. /\ psql'[w] = s /\ DOMAIN psql' = Psql
        /\ \A u \in Psql : DOMAIN psql'[u] = SessionFields /\ (u # w => psql'[u] = psql[u])
    BY ZenonT(60), <2>2, <2>3, SetOne
  <2>5. MutexInv'
    BY ZenonT(60), ZenonT(60), <2>2, <2>3, <2>4 DEF MutexInv
  <2>6. Visiting(s, pool)
    <3>1. NoInfos \in Header
      BY DEF NoInfos, Header
    <3>2. [at |-> "load", h |-> NoInfos, todo |-> Words] \in Callback
      BY <3>1 DEF Callback
    <3>c. \A c \in pool : s.cb[c] = [at |-> "load", h |-> NoInfos, todo |-> Words]
      BY Zenon, <2>1, <2>2
    <3>d. DOMAIN s.cb = pool
      BY Zenon, <2>1, <2>2
    <3>e. \A c \in pool : s.cb[c] \in Callback /\ s.cb[c].at = "load"
      BY SMTT(60), <3>2, <3>c
    <3>3. CallbacksOK(s, pool) /\ InfosOK(s, pool)
      BY <2>2, <3>1, <3>d, <3>e DEF CallbacksOK, InfosOK
    <3>4. DOMAIN s.arr = {}
      BY <2>2
    <3> QED
      BY Zenon, <3>3, <3>4 DEF Visiting, ArraysOK
  <2>7. ShowInv'
    BY ZenonT(60), <2>2, <2>3, <2>4, <2>5, <2>6 DEF ShowInv, MutexInv
  <2> QED
    BY Zenon, <2>3, <2>5, <2>7 DEF StatInv
<1>2. CASE ShowClientsReturns(w) /\ ~Lost
  <2>1. DOMAIN Answered("rows") = SessionFields /\ Answered("rows").pc = "receive"
    BY Zenon DEF Answered, NoSession, SessionFields
  <2>2. Set(w, Answered("rows")) /\ mu' = Free /\ psql[w].pc = "visit" /\ UNCHANGED <<pool, stat>>
    BY Zenon, <1>2 DEF ShowClientsReturns
  <2>3. /\ psql'[w] = Answered("rows") /\ DOMAIN psql' = Psql
        /\ \A v \in Psql : DOMAIN psql'[v] = SessionFields /\ (v # w => psql'[v] = psql[v])
    BY ZenonT(60), <2>1, <2>2, SetOne
  <2>4. mu = w
    BY ZenonT(60), <2>2 DEF MutexInv
  <2>5. MutexInv'
    BY ZenonT(60), <2>1, <2>2, <2>3, <2>4 DEF MutexInv
  <2>6. \A v \in Psql : psql'[v].pc # "visit"
    BY Zenon, <2>2, <2>5 DEF MutexInv
  <2>7. ShowInv'
    BY Zenon, <2>6 DEF ShowInv
  <2> QED
    BY Zenon, <2>2, <2>5, <2>7 DEF StatInv
<1> QED
  BY Zenon, <1>1, <1>2, LostKeeps

LEMMA ConsoleStep ==
  ConsoleInv /\ [PgNext]_pgVars => ConsoleInv'
<1> SUFFICES ASSUME ConsoleInv, [PgNext]_pgVars PROVE ConsoleInv'
  OBVIOUS
<1> USE DEF ConsoleInv
<1>1. ASSUME NEW c \in Conn, Accepted(c) \/ ConnStep(c), UNCHANGED psql
      PROVE  PoolInv' /\ UNCHANGED <<mu, stat, psql>>
  BY Zenon, <1>1 DEF Accepted, ConnStep, Put, Served, Pop, PoolInv
<1>2. CASE \E c \in Conn : (Accepted(c) \/ ConnStep(c)) /\ UNCHANGED psql
  <2>1. PoolInv' /\ UNCHANGED <<mu, stat, psql>>
    BY Zenon, <1>1, <1>2
  <2>2. pool' # pool => mu = Free
    BY Zenon, PoolKept
  <2>3. mu = Free => (\A w \in Stat : stat[w].pc # "visit") /\ (\A w \in Psql : psql[w].pc # "visit")
    BY Zenon, FreeAssumption DEF MutexInv
  <2>4. MutexInv' /\ StatInv' /\ ShowInv'
    BY ZenonT(60), <2>1, <2>2, <2>3 DEF MutexInv, StatInv, ShowInv
  <2> QED
    BY Zenon, <2>1, <2>4
<1>3. ASSUME NEW w \in Stat, StatAccepted(w) \/ StatStep(w) \/ StatRead(w) \/ StatHangsUp(w),
             UNCHANGED psql
      PROVE  ConsoleInv'
  <2>1. MutexInv' /\ StatInv' /\ pool' = pool
    BY Zenon, <1>3, StatMoves
  <2> QED
    BY ZenonT(60), <1>3, <2>1 DEF ShowInv, PoolInv
<1>4. ASSUME NEW w \in Psql,
             \/ Dial(w) \/ HangUp(w) \/ Die(w) \/ SessionStep(w)
             \/ \E m \in Startup \cup Query \cup {"password", "extended"} : Send(w, m)
      PROVE  ConsoleInv'
  <2>1. MutexInv' /\ StatInv' /\ ShowInv' /\ pool' = pool
    BY ZenonT(60), <1>4, SessionKeeps, LoadKeeps, GrowKeeps, StoreKeeps, SlotKeeps, ShowKeeps DEF SessionStep
  <2> QED
    BY <2>1 DEF PoolInv
<1>5. CASE UNCHANGED pgVars
  BY ZenonT(60), <1>5 DEF pgVars, poolVars, MutexInv, PoolInv, StatInv, ShowInv
<1> QED
  BY ZenonT(60), <1>2, <1>3, <1>4, <1>5 DEF PgNext, PoolNext

LEMMA ConsoleInit ==
  PgInit => ConsoleInv
<1> SUFFICES ASSUME PgInit PROVE ConsoleInv
  BY SMTT(60)
<1>1. \A w \in Stat : DOMAIN NoStat = StatFields /\ NoStat.pc = "none" /\ NoStat.lines = {}
  BY Zenon DEF NoStat, StatFields
<1>2. DOMAIN NoSession = SessionFields /\ NoSession.pc = "none"
  BY DEF NoSession, SessionFields
<1>3. \A w \in Stat \cup Psql : w # Free
  BY FreeAssumption
<1> QED
  BY Zenon, <1>1, <1>2, <1>3 DEF PgInit, PoolInit, ConsoleInv, MutexInv, PoolInv, StatInv, ShowInv

\* ProcessShow, SHOW CLIENTS: although the callbacks append to infos without
\* synchronisation, word by word, what is shown, if anything is, is a list of
\* clients of the pool, none twice, and not empty unless the pool is, for any
\* number of clients and consoles.
THEOREM ShowIsSound == PgSpec => []ShowSound
<1>1. ConsoleInv => ShowSound
  <2> SUFFICES ASSUME ConsoleInv, NEW w \in Psql,
                      psql[w].pc = "visit", Done(psql[w]), Readable(psql[w])
               PROVE  LET i == Rows(psql[w]) IN
                      /\ \A k \in DOMAIN i : i[k] \in pool /\ \A l \in DOMAIN i : i[k] = i[l] => k = l
                      /\ pool # {} => i # << >>
    BY Zenon DEF ShowSound
  <2>1. PICK s : s = psql[w]
    OBVIOUS
  <2>2. CallbacksOK(s, pool) /\ ArraysOK(s, pool) /\ InfosOK(s, pool) /\ Done(s) /\ Readable(s)
    BY ZenonT(60), <2>1 DEF ConsoleInv, ShowInv, Visiting
  <2>3. s.infos.len \in Nat
    BY <2>2 DEF InfosOK, Header
  <2>4. PICK i : i = Rows(s)
    OBVIOUS
  <2>5. DOMAIN i = 1..s.infos.len /\ \A k \in DOMAIN i : i[k] = s.arr[s.infos.ptr][k] /\ i[k] # Nil
    BY Zenon, <2>2, <2>4 DEF Rows, Readable
  <2>6. ASSUME NEW k \in DOMAIN i PROVE i[k] \in pool /\ s.cb[i[k]].h.len = k
    <3>1. s.infos.len # 0
      BY <2>3, <2>5, <2>6
    <3>2. s.infos.ptr \in DOMAIN s.arr /\ s.infos.len <= Len(s.arr[s.infos.ptr])
      BY Zenon, <2>2, <3>1 DEF Readable, Inside
    <3>3. PICK a \in Seq(Conn \cup {Nil}) : a = s.arr[s.infos.ptr]
      BY Zenon, <2>2, <3>2 DEF ArraysOK
    <3>4. k \in 1..Len(a)
      BY <2>3, <2>5, <2>6, <3>2, <3>3
    <3>5. ElementOK(s, pool, i[k], k)
      BY Zenon, <2>2, <2>5, <2>6, <3>2, <3>3, <3>4 DEF ArraysOK
    <3> QED
      BY Zenon, <2>5, <2>6, <3>5 DEF ElementOK
  <2>7. pool # {} => i # << >>
    <3> SUFFICES ASSUME NEW c \in pool PROVE i # << >>
      BY Zenon
    <3>1. s.cb[c].at = "store" /\ s.cb[c].todo = {}
      BY Zenon, <2>2 DEF Done, CallbacksOK
    <3>2. s.infos.len # 0
      BY Zenon, <2>2, <3>1 DEF InfosOK
    <3>3. 1 \in DOMAIN i
      BY <2>3, <2>5, <3>2
    <3> QED
      BY <3>3
  <2> QED
    BY Zenon, <2>1, <2>4, <2>6, <2>7
<1> QED
  BY <1>1, ConsoleInit, ConsoleStep, PTL DEF PgSpec

\* The statistics server (ClientPoolForeach in pkg/clientpool): an answer in
\* which no write failed has a line for each client of the pool and for no
\* other, for any number of clients and any size of the socket.
THEOREM StatisticsAreWhole == PgSpec => StatWhole
<1>1. ConsoleInv /\ [PgNext]_pgVars
        => [\A w \in Stat : stat[w].pc = "visit" /\ stat'[w].pc = "over" /\ ~stat[w].failed
              => stat[w].lines = pool]_poolVars
  <2> SUFFICES ASSUME ConsoleInv, [PgNext]_pgVars, NEW w \in Stat,
                      stat[w].pc = "visit", stat'[w].pc = "over", ~stat[w].failed
               PROVE  stat[w].lines = pool
    BY SMTT(60) DEF poolVars
  <2>1. stat[w].lines \cup stat[w].left = pool
    BY ZenonT(60) DEF ConsoleInv, StatInv
  <2>2. stat[w].left = {}
    <3>a. stat' # stat
      BY Zenon
    <3>b. ~UNCHANGED pgVars
      BY Zenon, <3>a DEF pgVars, poolVars
    <3>c. ASSUME NEW c \in Conn, Accepted(c) \/ ConnStep(c) PROVE FALSE
      BY Zenon, <3>a, <3>c DEF Accepted, ConnStep, Put, Served, Pop
    <3>d. ASSUME NEW p \in Psql, SessionStep(p) PROVE FALSE
      <4>1. CASE StartupStep(p) \/ AuthStep(p) \/ Simple(p) \/ CopyPanics(p) \/ ShowStats(p)
        BY Zenon, <3>a, <4>1 DEF StartupStep, AuthStep, Simple, CopyPanics, Lost, ShowStats, poolVars
      <4>2. CASE ShowClients(p) \/ ShowClientsReturns(p)
        BY Zenon, <3>a, <4>2 DEF ShowClients, ShowClientsReturns, Lost, poolVars
      <4>3. ASSUME NEW c \in Conn,
                   LoadInfos(p, c) \/ GrowInfos(p, c) \/ StoreInfos(p, c) \/ StoreClient(p, c)
            PROVE  FALSE
        BY Zenon, <3>a, <4>3 DEF LoadInfos, GrowInfos, StoreInfos, StoreClient, Lost, poolVars
      <4> QED
        BY Zenon, <3>d, <4>1, <4>2, <4>3 DEF SessionStep
    <3>e. ASSUME NEW p \in Psql,
                 \/ Dial(p) \/ HangUp(p) \/ Die(p)
                 \/ \E m \in Startup \cup Query \cup {"password", "extended"} : Send(p, m)
          PROVE  FALSE
      BY Zenon, <3>a, <3>e DEF Dial, HangUp, Die, Lost, Send, poolVars
    <3>1. PICK v \in Stat : StatAccepted(v) \/ StatStep(v) \/ StatRead(v) \/ StatHangsUp(v)
      BY ZenonT(60), <3>b, <3>c, <3>d, <3>e DEF PgNext, PoolNext
    <3>2. DOMAIN stat = Stat /\ DOMAIN stat[w] = StatFields /\ DOMAIN stat[v] = StatFields
      BY DEF ConsoleInv, MutexInv
    <3>3. CASE StatReturns(v)
      BY Zenon, <3>2, <3>3 DEF StatReturns
    <3>4. ASSUME NEW c \in Conn, StatCallback(v, c) PROVE FALSE
      BY Zenon, <3>2, <3>4 DEF StatCallback, StatFields
    <3>5. CASE StatForeach(v)
      BY Zenon, <3>2, <3>5 DEF StatForeach, StatFields
    <3>6. CASE StatAccepted(v) \/ StatRead(v) \/ StatHangsUp(v)
      BY <3>2, <3>6 DEF StatAccepted, StatRead, StatHangsUp, StatFields
    <3> QED
      BY ZenonT(60), <3>1, <3>3, <3>4, <3>5, <3>6 DEF StatStep
  <2> QED
    BY Zenon, <2>1, <2>2
<1> QED
  BY <1>1, ConsoleInit, ConsoleStep, PTL DEF PgSpec, StatWhole
=============================================================================
