------------------------------ MODULE ListCache ------------------------------
(***************************************************************************)
(* Listing a storage with the cache file of bucket_cache_path: ListPath,   *)
(* ListBucketPath, putInCache and readCache of pkg/storage/s3storage.go.   *)
(* Requests run concurrently and share the file without a lock; objects    *)
(* come and go.  A storage has several buckets and one entry.  Of the      *)
(* content of the file the model keeps the map it encodes, its length, and *)
(* whether it can be decoded at all.                                       *)
(***************************************************************************)
EXTENDS Integers, FiniteSets, FiniteSetsExt

CONSTANTS
  Lister,         \* goroutines that list
  Storage,        \* storages, by ID()
  Bucket,         \* their buckets
  Key,            \* objects
  Root,           \* the empty prefix
  DirOf,          \* the directory of each object, which is a prefix too
  Ask,            \* the requests: storage id, bucket, prefix, and the function called
  StoragePrefix,  \* the storages with a storage_prefix
  Changing,       \* the buckets whose objects change
  Mixes,          \* whether a mixture of two contents of the file may be valid JSON
  Day,            \* how long an entry is used, in ticks
  ListTime,       \* the longest time from a listing to the end of its putInCache
  MaxTime,        \* bound on the clock
  MaxAsked        \* bound on the requests

ASSUME ListCacheAssumption ==
  /\ Day \in Nat /\ ListTime \in Nat /\ MaxTime \in Nat /\ MaxAsked \in Nat
  /\ StoragePrefix \subseteq Storage /\ Changing \subseteq Bucket /\ Mixes \in BOOLEAN
  /\ \A a \in Ask : a.id \in Storage /\ a.bucket \in Bucket

VARIABLES
  now,     \* the clock
  hist,    \* what each bucket held at each tick
  cache,   \* the cache file
  req,     \* where each goroutine is, and what it knows
  asked    \* requests so far

lvars == <<now, hist, cache, req, asked>>

Held(b) == hist[b][now]
BucketsOf(s) == {a.bucket : a \in {c \in Ask : c.id = s}}
Under(p) == IF p = Root THEN Key ELSE {k \in Key : DirOf[k] = p}

\* A map from storage ids to entries: what was listed, the Time of the entry,
\* and, not in the file, of when and from which bucket the listing is.
NoMap == [s \in {} |-> 0]
Length(m) == 1 + Cardinality(DOMAIN m) + MapThenSumSet(LAMBDA s : Cardinality(m[s].objs), DOMAIN m)

\* The file: a map and its length, or content that is no JSON.
Empty == [ok |-> FALSE, map |-> NoMap, len |-> 0]
Content(m) == [ok |-> TRUE, map |-> m, len |-> Length(m)]
Broken(n) == [ok |-> FALSE, map |-> NoMap, len |-> n]

Idle == [pc |-> "idle"]

ListInit ==
  /\ now = 0
  /\ hist = [b \in Bucket |-> [t \in {0} |-> Key]]
  /\ cache = Empty /\ asked = 0
  /\ req = [l \in Lister |-> Idle]

-----------------------------------------------------------------------------
(* The surroundings.                                                       *)

\* Time passes, and an object may be created or deleted.
Tick ==
  /\ now < MaxTime /\ now' = now + 1
  /\ \A l \in Lister :
       req[l].pc \in {"putInCache", "rereading", "truncate", "write"} => now < req[l].of + ListTime
  /\ \E b \in Changing, k \in Key : \E o \in {Held(b), Held(b) \cup {k}, Held(b) \ {k}} :
       hist' = [c \in Bucket |->
                  [t \in 0..now' |->
                     IF t <= now THEN hist[c][t] ELSE IF c = b THEN o ELSE Held(c)]]
  /\ UNCHANGED <<cache, req, asked>>

\* The process dies and is started again; the file stays as it is.
Restarted ==
  /\ \E l \in Lister : req[l] # Idle
  /\ req' = [l \in Lister |-> Idle]
  /\ UNCHANGED <<now, hist, cache, asked>>

-----------------------------------------------------------------------------
(* io.ReadAll reads the file in pieces.                                    *)

Reading == {"reading", "rereading"}

\* What another goroutine does to the file tears the reads in progress.
Torn(r) == IF r.pc \in Reading THEN [r EXCEPT !.torn = TRUE] ELSE r
Tear(l, r) == req' = [i \in Lister |-> IF i = l THEN r ELSE Torn(req[i])]

\* What a read returns: the content at its beginning, or, when the file was
\* truncated or written meanwhile, a part of it with something behind.
Entry == [objs : SUBSET Key, Time : 0..now, of : 0..now, from : Bucket]
Mixture == IF Mixes THEN UNION {{Content(m) : m \in [S -> Entry]} : S \in SUBSET Storage} ELSE {}
Contents(r) ==
  {r.buf} \cup IF r.torn /\ r.buf # Empty THEN {Broken(1)} \cup Mixture ELSE {}

-----------------------------------------------------------------------------
(* ListPath and ListBucketPath with useCache.                              *)

\* ListPath opens the cache and begins to read it; the delete handlers call
\* ListBucketPath, which does not, for one bucket after the other.
ListPath(l, a) ==
  /\ req[l].pc = "idle" /\ asked < MaxAsked
  /\ asked' = asked + 1
  /\ req' = [req EXCEPT ![l] =
       IF a.call = "ListPath"
       THEN [pc |-> "reading", id |-> a.id, bucket |-> a.bucket, prefix |-> a.prefix,
             buf |-> cache, torn |-> FALSE]
       ELSE [pc |-> "list", id |-> a.id, bucket |-> a.bucket, prefix |-> a.prefix]]
  /\ UNCHANGED <<now, hist, cache>>

\* The paths in the cache have lost the storage_prefix, the prefix that is
\* looked for has not.
Matching(s, p, objs) == IF s \in StoragePrefix THEN {} ELSE objs \cap Under(p)

Fresh(e) == e.Time + Day >= now

Answer(r, objs, from, of) ==
  [pc |-> "answered", id |-> r.id, bucket |-> r.bucket, prefix |-> r.prefix,
   objs |-> objs, from |-> from, of |-> of, at |-> now]
FromCache(r, e) == Answer(r, Matching(r.id, r.prefix, e.objs), e.from, e.of)
ToStore(r) == [pc |-> "list", id |-> r.id, bucket |-> r.bucket, prefix |-> r.prefix]

\* Faulty variant: an entry of any age.
ReadCacheAnyAge(l) ==
  LET r == req[l] IN
  /\ r.pc = "reading"
  /\ \E c \in Contents(r) :
       req' = [req EXCEPT ![l] = IF c.ok /\ r.id \in DOMAIN c.map
                                 THEN FromCache(r, c.map[r.id]) ELSE ToStore(r)]
  /\ UNCHANGED <<now, hist, cache, asked>>

\* readCache: a file that cannot be read or decoded, or has no entry of less
\* than a day for the storage, sends ListPath to the store.
ReadCache(l) ==
  LET r == req[l] IN
  /\ r.pc = "reading"
  /\ \E c \in Contents(r) :
       req' = [req EXCEPT ![l] = IF c.ok /\ r.id \in DOMAIN c.map /\ Fresh(c.map[r.id])
                                 THEN FromCache(r, c.map[r.id]) ELSE ToStore(r)]
  /\ UNCHANGED <<now, hist, cache, asked>>

\* ListObjectsV2 of the bucket, or its error.
ListBucketPath(l) ==
  LET r == req[l] IN
  /\ r.pc = "list"
  /\ \/ req' = [req EXCEPT ![l] =
          [pc |-> "putInCache", id |-> r.id, bucket |-> r.bucket, prefix |-> r.prefix,
           objs |-> Held(r.bucket) \cap Under(r.prefix), of |-> now]]
     \/ req' = [req EXCEPT ![l] = Idle]
  /\ UNCHANGED <<now, hist, cache, asked>>

\* putInCache begins to read the file.
OpenForPut(l) ==
  LET r == req[l] IN
  /\ r.pc = "putInCache"
  /\ req' = [req EXCEPT ![l] =
       [pc |-> "rereading", id |-> r.id, bucket |-> r.bucket, prefix |-> r.prefix,
        objs |-> r.objs, of |-> r.of, buf |-> cache, torn |-> FALSE]]
  /\ UNCHANGED <<now, hist, cache, asked>>

\* The entry of the storage is replaced, whichever bucket was listed; content
\* that cannot be decoded stays.
ReadForPut(l) ==
  LET r == req[l] IN
  /\ r.pc = "rereading"
  /\ \E c \in Contents(r) :
       req' = [req EXCEPT ![l] =
         IF c.ok \/ c = Empty
         THEN [pc |-> "truncate", id |-> r.id, bucket |-> r.bucket, prefix |-> r.prefix,
               objs |-> r.objs, of |-> r.of,
               map |-> [s \in DOMAIN c.map \cup {r.id} |->
                          IF s = r.id
                          THEN [objs |-> r.objs, Time |-> now, of |-> r.of, from |-> r.bucket]
                          ELSE c.map[s]]]
         ELSE Answer(r, r.objs, r.bucket, r.of)]
  /\ UNCHANGED <<now, hist, cache, asked>>

Truncate(l) ==
  /\ req[l].pc = "truncate"
  /\ cache' = Empty
  /\ Tear(l, [req[l] EXCEPT !.pc = "write"])
  /\ UNCHANGED <<now, hist, asked>>

\* Write from the beginning of the file: over content that another goroutine
\* has written since, the tail of which remains when it was longer.  A write
\* that fails leaves a part.
Write(l) ==
  LET r == req[l] IN
  /\ r.pc = "write"
  /\ \/ cache' = IF cache.len > Length(r.map) THEN Broken(cache.len) ELSE Content(r.map)
     \/ cache' = Broken(Max({cache.len, 1}))
  /\ Tear(l, Answer(r, r.objs, r.bucket, r.of))
  /\ UNCHANGED <<now, hist, asked>>

\* The caller has its listing.
Return(l) ==
  /\ req[l].pc = "answered"
  /\ req' = [req EXCEPT ![l] = Idle]
  /\ UNCHANGED <<now, hist, cache, asked>>

ListStep(l) ==
  \/ ReadCache(l) \/ ListBucketPath(l) \/ OpenForPut(l) \/ ReadForPut(l)
  \/ Truncate(l) \/ Write(l) \/ Return(l)

ListNext ==
  \/ Tick \/ Restarted
  \/ \E l \in Lister : ListStep(l) \/ \E a \in Ask : ListPath(l, a)

ListSpec == ListInit /\ [][ListNext]_lvars

-----------------------------------------------------------------------------

ListTypeOK ==
  /\ now \in 0..MaxTime /\ asked \in 0..MaxAsked
  /\ cache.len \in Nat /\ DOMAIN cache.map \subseteq Storage
  /\ cache.ok => cache.len = Length(cache.map)
  /\ \A l \in Lister : req[l].pc \in
       {"idle", "list", "putInCache", "truncate", "write", "answered"} \cup Reading

\* Every listing, from the store or the cache, contains only objects that one
\* bucket of this storage held under the prefix at one moment, a day and the
\* duration of a listing ago at most (the time of an entry is that of its
\* putInCache), whoever rewrites the file during a read and wherever the
\* process dies.
ListingSound ==
  \A l \in Lister :
    LET r == req[l] IN
    r.pc = "answered" =>
      /\ r.from \in BucketsOf(r.id)
      /\ r.objs \subseteq hist[r.from][r.of] \cap Under(r.prefix)
      /\ r.at <= r.of + Day + ListTime

\* What does not hold.  A listing is of the bucket that was asked for.
ListingOfItsBucket ==
  \A l \in Lister : req[l].pc = "answered" => req[l].from = req[l].bucket

\* A listing is complete: it has everything the bucket held under the prefix at
\* the moment of the listing behind it.
ListingComplete ==
  \A l \in Lister :
    LET r == req[l] IN
    r.pc = "answered" => hist[r.from][r.of] \cap Under(r.prefix) \subseteq r.objs
=============================================================================
