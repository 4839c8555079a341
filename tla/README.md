# yproxy in TLA+

yproxy is the daemon through which the yezzey extension of Greenplum/Cloudberry
keeps table files in an object store. This directory holds TLA+ models of its
operations, TLC configurations that check them on small instances, and TLAPS
proofs of the main properties. `PROJECT.json` maps every definition to the lines
it models and lists runs, mutants, hazards, findings and theorems. Paths below
are relative to the repository; `ia` stands for `pkg/proc/interaction.go` and
`dh` for `pkg/proc/delete_handler.go`.

## 1. The system

| part | code | state it keeps or changes |
|---|---|---|
| instance | `Run`, `DispatchServer` in `pkg/core/core.go` | socket files shared with other yproxy processes, listeners, active connections; one goroutine per connection, no mutual exclusion between requests |
| debug server | `pkg/core/pprof.go`, signals in `core.go` | a server with a timer under a mutex |
| client pool, console | `pkg/clientpool`, `pkg/core/pg`, the statistics port | the connections, under a mutex |
| wire protocol | `pkg/message`, `pkg/io/proto_reader.go` | bytes on a socket |
| dispatch and client | `ProcConn` in ia, `cmd/client/main.go` | one request per connection and its answers |
| cat | `ProcessCatExtended`, `pkg/proc/yio/yrreader.go` | position in the object, retry counter, the stream to the client |
| put | `ProcessPutExtended` | a pipe between a receiver goroutine and the upload |
| copy | `ProcessCopyExtended`, `ListFilesToCopy` | files still to copy, failed files, a shared `err` |
| vacuum garbage | `ProcessDeleteExtended`, `HandleDeleteGarbage` in dh | what was listed and read, files to remove, failed files |
| trash | `HandleDelete2Prefix`, `HandleUntrashifyFile` in dh | the same for objects under `trash/` |
| obsolete | `ProcessCollectObsolete`, `ProcessDeleteObsolete` in ia | rows of the expire hint, files moved to trash |
| object store | `pkg/storage` | objects with a LastMod; the registry of multipart uploads; the listing cache file |
| database access | `pkg/database` | reads `yezzey_virtual_index` and `yezzey_expire_hint`, changes the latter |
| backups | `pkg/backups` | reads the sentinels of wal-g backups |
| session pool, limiter, crypter | `pkg/storage/sessionpool.go`, `pkg/proc/yio/limiter`, `pkg/crypt` | see section 8 |

What makes it hard: handlers decide on answers of three other systems (store,
database, backups) that were given at different times, while database sessions,
backups and other handlers go on; every call may fail, or succeed with its
answer lost; the process may die between any two calls; failed operations are
repeated in passes; a move on S3 is a copy and a delete; goroutines of one
request share variables and wait for each other at pipes; processes hand their
sockets over while connections are open. What must be right: no table loses a
file, no backup loses a file it needs, nothing disappears unless somebody asked
for it, a reply of success is true, and every request ends. The hazards, each at
the line where it bites, are in `PROJECT.json`.

## 2. Modules

| module | models | composed from |
|---|---|---|
| `Cluster` | the surroundings: clock, WAL position, store (`reg` and `trash`), the two index tables, backups, and the sessions that write, commit, abort and drop files; the store operations `SScopyObject`, `DeleteObject`, `Rename` | |
| `Vacuum` | the vacuum of garbage files, one call per step | `Cluster` |
| `Trash` | untrashify and prefix delete | `Cluster` |
| `GarbageSystem` | the three garbage procedures as requests on one store | `Vacuum`, `Trash` |
| `Obsolete` | collecting and deleting obsolete files | `Cluster` |
| `RetryReader` | cat: the retrying reader and the loop over it | implements `ReliableRead` |
| `PutPipeline` | put: client, receiver goroutine, pipe, upload | implements `AtomicPut` |
| `Copy` | copy between installations: goroutines, passes, requests | |
| `ReliableRead`, `AtomicPut` | what cat and put promise, in a few actions each | |
| `Connection` | one connection serves a cat, a put or a copy | `RetryReader`, `PutPipeline`, `Copy` |
| `Message` | `Encode` and `Decode` of every message type, as operators on bytes | |
| `Wire` | messages as a byte stream, and `ReadPacket` | `Message`; implements `Channel` |
| `Channel` | what the two ends of a connection may rely on: whole messages, in order | |
| `Requests` | a request from the command line to the answer: client, socket, `ProcConn` and the replies of every handler | |
| `Protocol` | the two layers | `Wire`, `Requests` |
| `Instance` | processes that take over from one another | |
| `DebugServer` | signals, and the debug server they start | |
| `Daemon` | what `Run` starts and signals do | `Instance`, `DebugServer` |
| `ClientPool` | the pool, connections that enter and leave, the statistics port | |
| `PgConsole` | the psql port on the pool | `ClientPool` |
| `ListCache` | listing with `bucket_cache_path` | |
| `Uploads` | the registry of multipart uploads and the abort of failed ones | |
| `S3Interactor` | the state requests share in the S3 storage | `ListCache`, `Uploads` |
| `VacuumProofs`, `GarbageProofs`, `ObsoleteProofs`, `ConnectionProofs`, `DaemonProofs`, `RequestsProofs`, `CodecProofs`, `WireProofs` | theorems | `Vacuum`, `GarbageSystem`, `Obsolete`, `Connection`, `S3Interactor`, `Daemon` and `PgConsole`, `Requests`, `Message`, `Wire` |
| `MC*` | instances for TLC | |

`GarbageSystem`, `PgConsole` and `Wire` over `Message` are compositions of parts
that work on common state. `Connection`, `Protocol`, `Daemon` and `S3Interactor`
put parts side by side that share no variable in the code either: a behaviour is
one of either part, chosen at the start, and one run checks them together.

In every module a definition called a *faulty variant* is a changed version of
the action below it; the specification does not use it, the mutants of
`PROJECT.json` do.

**Cluster.** A file is a model value; an object is its LastMod in ticks, or
`NoObj`. `Stamp` truncates a LastMod to `Gran` ticks, as S3 does to seconds. A
writer begins an upload, completes it and commits at most `WriteTime` ticks
after it began, or aborts and leaves the object behind. On a file system the
object is visible from the beginning, on S3 from the completion, when LastMod
may be any instant of the upload (a multipart object has that of its
initiation). `DropRow` removes a file from the virtual index and records the LSN
in the expire hint in one transaction. `RetireBackup` never removes the newest
backup. One bucket, one database, one segment. These actions are external to
the repository and taken from how its queries and calls use them.

**Vacuum.** `vpc` names the next call: list and read the sentinels
(`GetFirstLSN`), list the store, read the expire hint, read the virtual index
and decide (`FilesToDelete`), list multipart uploads, then passes over
`fileList` by `Workers` workers, each moving a file (copy, delete; or rename) or
deleting it with crazy drop. Failed files go to the next pass, up to `MaxRetry`.
`CallFails` is the error return of each call, `Crash` the death of the process.
Multipart uploads are listed and aborted by steps with no effect on objects.

`Disturb` switches on four things the code does not defend against, so that the
conditions under which a property holds are visible: `rows` (a result set ends
early and `rows.Err()` is not read), `sentinel` (an unreadable sentinel is
skipped), `retire` (retention between listing and reading the sentinels), `drop`
(a DROP between the two index queries). It is `{}` in the passing runs.

**Trash, GarbageSystem.** A prefix delete selects listed objects whose age
exceeds `Retention` and deletes them in passes; untrashify lists `trash/` and
moves everything back. `Overlap` names the pairs of procedures that may be
active at the same time. The code excludes none; the runs show which pairs are
safe.

**Obsolete.** A collection lists the store, reads both indexes, asks for the
current LSN and inserts one row per unknown file. A deletion reads both indexes
and the backups, then for each old enough row deletes the rows of the file and
moves it. The expire hint has no unique key, so a file may have several rows
(`collected` are those a collection has inserted). A listing is that of the store
or, from the cache, an older one, and a read of the expire hint may end early.
`WritersOverlap` says whether a collection may begin while a listed object's
writer is uncommitted; `Disturb` switches on reads of the virtual index that end
early and sentinels that cannot be read.

**RetryReader.** A byte is its position. A step is one `Restart`, or one `Read`
of the underlying stream with its outcome: bytes, end of file (with or without
bytes), or an error. `HalfReads` says whether an error may come with bytes.

**PutPipeline.** Messages are counted. A `Write` to the pipe offers data and
returns when it has been read. The head and the end of the OpenPGP envelope are
writes of their own. `Limiter` and `Burst` say whether one `Write` passes a
whole message. `inPlace` is the back end: S3 shows an object when its upload is
complete, the file storage creates the file at once and writes it as the data
come (`CreateFile`, `WriteFile`). An upload that fails may have been completed,
its answer being lost.

**Copy.** The semaphore is a set of slots. A slot's goroutine makes its
server-side copy, or streams (reader, decrypter and upload in one step with the
outcomes they can produce together), assigns the shared `err`, and in a later
step tests it. Senders whose upload has failed stay behind and may still report
a file, the one that has their index in the list of the current pass
(`LateFailure`). `masked` and `stale` record which files have lost an error: by
the `err` of another goroutine, or because a part of them counted as copied.

**Message, Wire.** A byte is a number below 256, a string a sequence of bytes
without 0, an integer `W` bytes (8 in the code). `Encode` and `Decode` of a type
are two definitions, translated each from its own function, including offsets,
flags and the place of the settings; beside them stands the set of the messages
of that type, with the range of each field (`Messages` is all of them). Loops
over settings and objects are recursive functions on their index. `Wire` writes
a message or, when the writer dies, a part of it; `ReadSome` takes any part of
what is there, as a read inside `io.ReadFull` may; `LengthRead` and `BodyRead`
are the two halves of `ReadPacket`, with the limit `MaxMsgLen`. The code's
panics on slices out of range do not arise for packets that `Encode` made. The
two obsolete requests (`Unpaired`) are the exception to all this: their `Encode`
writes two strings behind their lengths, their `Decode` reads two numbers and two
strings ended by 0. `Encode` is not called in the repository, the requests come
from the database extension.

**Requests.** `unsent`, `seen` and `res` (what `listFunc` has collected) belong
to the client, `spc`, `op`, `result` and `out` to the goroutine of the
connection; the socket holds `Cap` messages each way, and a write blocks when it
is full. `Request` says what each command writes, `Verdict` what it makes of the
answers, `Handler` what each request may come to and which answers follow, in
order. A handler's work on the store is one step here: the modules about it say
what happens inside. `Other` are the requests that yp-client does not make.
`sealable` is FALSE for a put that asks for encryption where there is no working
key: its receiver goroutine returns before it reads (ia:121-131), nobody closes
the pipe, and only a failure of the store ends the request. The other early ends
of the receiver are a message that is not data and a connection that is gone,
which end the data like a CopyDone (`PutEnds`), and a failed write, which follows
a failure of `PutFileToDest`. Either process may die at any point.

**Instance.** `Run` waits for each path to be free, listens, starts an accept
loop and is ready after the second; the signal goroutine closes each listener
whose variable it sees set, cancels the context, and `Run` waits for the counted
connections. A connection is queued in the kernel, accepted, and counted when its
goroutine begins. The file at a path goes with the first `Close` only, and stays
when the process dies.

**DebugServer.** Countdowns are numbered in the order of their `ServeFor` calls;
they are equally long, so they run out in that order. `Shutdown` holds the mutex
until requests to the debug server are answered, and the signal goroutine may
wait for it in `ServeFor`. The channel of signals has room for one.

**ClientPool, PgConsole.** `mu` is the pool's mutex where it is held over several
steps: by a statistics client, whose callbacks write to a socket of `StatCap`
lines, and by SHOW CLIENTS, whose callbacks append to the slice `infos` without
synchronisation. An `append` loads the three words of the header one by one, in
any order, keeps the array or makes one of its own, and stores the words it has
changed and the element, again one by one. So a callback may work with a header
of which one word is older than another, and the slice in the end may have
elements that are nil, or claim more than its array has; writing the rows of such
a slice, or an access outside an array, ends the process (`Lost`), and so does an
option of COPY with a value of the wrong type (`CopyPanics`). The growth of the
array (`Grown`) is that of small slices, without rounding to size classes. The
other operations are one step that needs the mutex free. `Stuck` describes a
statistics client that does not read.

**ListCache.** The cache file is a map from storages to entries with its length,
or content that does not decode. Both readers take the content at the beginning
of their read, unless another goroutine truncates or writes the file before they
are through: then what they have may also be no JSON, or, with `Mixes`, any map
that happens to decode. `putInCache` reads, truncates and writes in three steps;
a write over longer content, or one that fails, leaves no JSON. A storage has
several buckets and one entry; `ListPath` asks the cache and then the bucket of
its tablespace, the garbage procedures call `ListBucketPath` for each bucket,
which only writes the cache. `hist` remembers what each bucket held at each tick,
so that a listing can be compared with the moment it is of.

**Uploads.** `PutFileToDest` registers its key, uploads in parts or at once, and
removes the key at the end; a garbage request lists the uploads of the bucket,
looks each up in the registry in a later step, works on its files, and aborts the
rest. `Foreign` are uploads of other processes, which have registries of their
own.

`Vacuum` and `Trash` list by `ListBucketPath`, or untrashify by `ListPath` with
`bucket_cache_path` not set, so that a listing is that of the store; `ListCache`
says what a listing is when it is set.

## 3. Runs

All passing runs explore the whole state space of their instance.

| run | instance | what it shows |
|---|---|---|
| `VacuumS3` | 2 files (symmetric), 2 workers, 2 passes, S3, LastMod every 2 ticks, writers up to 1 tick, window 3 | `LiveFilesKept`, `PitrFilesKept`, `HonestReply`, `GarbageCollected`, `NothingLost`: tables and backups keep their files, a success reply is true, garbage really goes, and a move loses nothing |
| `GarbageS3` | 1 file, S3, writers up to 1 tick, window 2, retention 1, untrashify and prefix delete may overlap | `UntrashifyRestores`, `LostOnlyOnPurpose`, `RetentionHonoured` for all sequences of the three procedures |
| `GarbageFs` | the same on the file system, fair | `LiveFilesKept`, `LostOnlyOnPurpose`, and `EveryRequestEnds`, `TrashRequestsEnd` although every call may fail |
| `Obsolete` | 1 file, S3, a collection and a deletion at once, LSNs up to 5, stale listings and short reads of the expire hint | `UsefulFilesStay`, `ObsoleteNotLost` |
| `Connection` | cat: 10 bytes, offset 2, buffer of 3, 4 tries; put: up to 4 messages, plain or encrypted; to either back end; copy: 2 files, 2 goroutines, 2 passes, 2 requests; fair | `ImplementsReliableRead` and `ImplementsAtomicPut` (refinements): what reaches a client of cat is always a prefix of the object and "complete" only when it is all of it; a put to S3 shows nothing before the stream is over and then all that came, one to a file a growing beginning of it, and ReadyForQuery stands for everything sent, unless the connection was cut. `CopyAccounted`: success means that every live file is whole, or lost its error in one of two known ways. `CatEnds`, `PutEnds`, `CopyEnds` |
| `Protocol` | every message type with the strings, numbers, flags and settings its layout tells apart, followed by a second message; every command and request, sockets of 2 messages, 4 packets of input, up to 5 objects in chunks of 2, puts that can be encrypted and that cannot; fair | `Faithful`: a message is decoded as what was encoded, however its bytes arrive. `ImplementsChannel` (refinement): messages come whole and in order, cut ones not at all, and the end only behind the last. `Arrives`: whole ones do come. `ExitHonest`: exit status 0 is true, except for cat. `ReplyOrder`, and `RequestEnds` for all that can be encrypted |
| `Daemon` | 2 processes, 1 connection, 1 crash; 4 calls of `ServeFor`; fair | `ReadyReachable`, `CountedServed`, `StopExits`, `Handover`: processes take over from one another without losing what they counted; `DebugEnds`, `StopTaken`: the debug server goes down and does not keep the process from stopping |
| `Console` | 2 connections, 1 statistics client, 1 psql session, fair | `StatWhole`, `ShowSound`: what is reported of the pool is true, if anything is; `ConnLeaves`, `QueryAnswered`: nobody waits for ever for the pool's mutex, unless a statistics client does not read |
| `S3Interactor` | 2 goroutines listing 3 buckets of 2 storages, 3 requests, 3 ticks, a day of 1 tick, torn reads that do not decode; 3 uploads of 2 keys here and 1 elsewhere, 2 garbage requests | `ListingSound`: a listing has only objects that one bucket of this storage held at one moment, a day and the time of a listing ago at most; `OwnUploadsSafe`, `SweepCleans`: garbage procedures abort what was left behind and no upload of their own process |
| `VacuumDrop` | violated: `PitrFilesKept` | a DROP between the two queries of `GetVirtualExpireIndex` hides a file from both, and it is removed although a backup needs it |
| `RetryReaderLost` | violated: `NoGaps` | bytes that come with an error are counted and not delivered |
| `CopyErrRace` | violated: `CopyComplete` | two goroutines share `err`; one's success hides the other's failure |

Every module has a type invariant, which also bounds its counters and queues.
Only that of `Vacuum` is part of a run; the others (`SysTypeOK`, `ObsTypeOK`,
`ConnTypeOK`, `ProtoTypeOK`, `DaemonTypeOK`, `PgTypeOK`, `S3TypeOK`) hold on the
instances above and can be added to the configurations.

**Bounds.** Files do not interact except through the lists of a pass and the
worker slots, so two files with two workers show every interference of workers;
one file suffices for the races of procedures over it. Two passes contain a
file that fails and is retried, and one that exhausts its retries. `MaxTime` 3
or 4 leaves room for an upload before, a listing within and a commit after the
window; `MaxLsn` 3 for a backup, a drop and a further backup in each order, 5 in
`Obsolete` for a row that is older than a backup, which is older than the drop.
`Gran` 2 makes truncated and exact stamps differ. For cat the offset is
inside a buffer and the length no multiple of it. Clocks and LSNs stop at their
bounds, which restricts sessions only; the handlers never wait for them.

In `Protocol` an integer has `W` = 2 bytes, so that numbers of one and of two
bytes differ, and `MaxMsgLen` = 35 lies inside the sizes of the messages sent. A
put's input and the list's answers are longer than the socket's buffers, so that
both sides block, and 5 objects are no multiple of the chunk. In `Daemon` two
processes show a handover and, with a crash, the file left behind; a third would
wait like the second. Four `ServeFor` calls contain a reset before and one after
the countdown has run out, and a second server. In `Console` two connections are
enough for callbacks to overwrite each other, to mix their headers and to find an
array too short, and `StatCap` 1 for a callback to wait. In `Connection` two
goroutines and two files let one's success hide the other's failure, and a second
request finds what the first has left. In `S3Interactor` two goroutines rewrite
the cache file over each other, and a tick is a day, so that entries age; two uploads of one key, one of another,
and one of another process are the cases that the registry tells apart.

`Obsolete` and the garbage runs check for deadlock. The others describe
processes, sessions and requests that may be over, and do not.

**Fairness.** Weak fairness of a handler's steps: the goroutine of a connection
is scheduled, and each call to the store or database returns, successfully or
not. A client of put ends its stream sooner or later (there is no timeout in the
code), and a failing store is not required to fail. In `Protocol` both processes
run while they live. In `Daemon` the goroutines of each process run, connections
come to their end, countdowns run out and requests to the debug server are
answered. `Console` has strong fairness of each goroutine, because a `sync.Mutex`
hands itself to a waiter that has waited long enough, and a goroutine that waits
for it is enabled only now and then. Nothing is assumed of requests arriving,
statistics clients reading, sessions, signals or crashes.

## 4. Where the code and its promises differ

The three violated runs above are findings with a quoted promise. Further
disagreements show when a property is checked on another instance:

- `VacuumS3` with `Disturb = {"rows"}` violates `LiveFilesKept`; with
  `{"sentinel"}`, `{"retire"}`, or `InitBackups = {}` it violates
  `PitrFilesKept`.
- `dh:468` tests `LastMod.After(start - window)`; with a window of 0 a file
  stamped at the very start is removed, while the repository's README promises
  to skip files "at or after" it.
- `GarbageS3` with `{"vacuum", "untrashify"}` in `Overlap` violates
  `LostOnlyOnPurpose`: a vacuum and an untrashify of one file, each past its
  copy, delete each other's (`dh:89`, `dh:65`).
- `GarbageS3` with `{"vacuum", "delete2"}` in `Overlap` violates
  `RetentionHonoured`: the delete is by name, the age that of the listing. So
  does the file system back end, where a rename keeps the modification time.
- `Obsolete` with `WritersOverlap = TRUE` violates `UsefulFilesStay`: neither
  procedure looks at the age of a file, and of two rows of a file the last one
  read decides. So does `Disturb = {"rows"}`, where a collection takes files in
  use for unknown, and `{"sentinel"}`, where a younger backup counts as the
  oldest.
- `Connection` with `HasCrypter = FALSE` violates `PutEnds`: an encrypted put
  without a working crypter is left by its receiver goroutine, which closes
  nothing, and never answers (`ia:121`, `ia:129`). `RequestEnds` in `Protocol`
  excepts this case (`sealable`), and fails without the exception.
- `Connection` with `Limiter = TRUE` and `Burst < Sz` violates
  `ImplementsAtomicPut`: the limiter writes a part, the receiver closes the pipe
  as if all was well, and ReadyForQuery follows.
- `Connection` with `CopyComplete` as an invariant is violated also with
  `Concurrency = 1`: a path of which a failed copy left a part counts as copied
  in the next request.
- A put to the file storage truncates and fills the file under its name, leaves
  a part of it after a failure (`filestorage.go:94`) and does not close it. On
  both back ends a connection that breaks in the middle of the data ends them
  like a CopyDone (`ia:155`): what came is stored as if it were all.
  `AtomicPut` promises no more than that.
- `Encode` and `Decode` of the two obsolete requests disagree
  (`obsolete_message.go:32`, `:55`); `Faithful` excepts them.
- `ActiveServed` (`Instance`) does not hold in `Daemon`: a connection that is
  accepted and not yet counted when `Run` waits (`core.go:213`), and every one of
  a process told to stop before it was ready, is cut, while
  `tests/graceful_restart.sh:37` has the old instance "serving active
  connections".
- `FullDuration` (`DebugServer`) does not hold in `Daemon`: a countdown that has
  run out while `ServeFor` reset its timer (`pprof.go:36`) ends the server that
  the next call was told is up.
- `ListingOfItsBucket` (`ListCache`) does not hold in `S3Interactor`: the entry
  of a storage is that of the bucket listed last, and answers for another.
  `ListingComplete` does not hold when a `ListPath` of the root is added to `Ask`:
  the entry of a narrower prefix answers a request for a wider one.
  `ListingSound` fails with `Mixes = TRUE`: a read of the cache file between the
  truncation and the write of another goroutine may join the pieces of two texts,
  and nothing in the code tells a mixture that decodes from a whole.
- `Handover` (`Instance`) excludes processes that die, or are told to stop before
  they are ready: their socket file stays and the next process waits for ever
  (`core.go:195`).
- A sender of a copy that is left behind when its upload fails indexes the list
  of files of a later pass, or an emptied one, and may panic (`ia:395`); in `Copy`
  that is a `Crash`.

The properties themselves name more: cat takes any end of the connection for the
end of the file (`ExitHonest`); SHOW CLIENTS may leave clients out, or end the
process (`ShowSound`, `QueryAnswered`); and an upload that another process is
working on, or one of two of the same key, may be aborted (`OwnUploadsSafe`).

## 5. Theorems

Proved with TLAPS for every value of the constants that satisfies the `ASSUME`s
of the modules: any set of files, any number of workers, retries, messages,
processes, connections, ticks, LSNs. A condition in front of a theorem is one
under which the runs are passing too; section 4 says what happens without it.
Every inductive invariant below was first checked by TLC on the instance of the
run.

`VacuumProofs`:

- `TypeCorrect`: `Spec => []TypeOK`. Inductive with `vpc = "pass" =>
  retryCount < MaxRetry`.
- `LiveFilesAreKept`: if `WriteTime + Gran <= Window` and results are complete,
  `[]LiveFilesKept`. `LiveFilesKept` says nothing of files about to commit, so
  the inductive invariant `LiveInv` adds: `WriterInv` (an object of a writer is
  no older than the beginning of its upload less `Gran`, in the store and in the
  listing), `PassInv` (only chosen files are worked on), `ChosenInv` (a chosen
  file is not in the index, and its writer, if any, is past `WriteTime`) and
  `PresentInv` (files in use or still able to commit exist). The sum of
  `WriteTime` and `Gran` is what a configured `protection_window` has to cover.
- `PitrFilesAreKept`: with also `Disturb = {}`, `CheckBackup`, `HasHint` and a
  backup at the start, `[]PitrFilesKept`. The invariant adds what the handler
  has read (`ReadInv`: the LSN it holds is not above any backup's; `LsnInv`: all
  LSNs are below the WAL position) and `SpareInv` (a chosen file expired before
  every backup).
- `NothingIsLost`: `Spec => NothingLost`, without conditions. The invariant says
  that a file copied and not yet deleted is in trash.
- `RepliesAreHonest`: `Spec => []HonestReply`, whatever the window and the
  disturbances: a chosen file is still to be worked on or gone from the regular
  tree, and nobody writes it again.
- `GarbageIsCollected`: `Spec => []GarbageCollected`. `DecidedInv`: from the
  decision on, every listed file that is old enough and in no index is chosen.
  The two indexes are read at different times; it holds because a file that
  leaves the virtual index gets a row in the expire hint, and none is taken out
  during a vacuum.

`GarbageProofs`, about the three procedures on one store:

- `LiveFilesAreKeptTogether`: the window condition is enough in any overlap. An
  untrashify brings old objects back, so the invariant adds to `LiveInv` that an
  object in trash is no older than the upload of its file either
  (`TrashWriterInv`).
- `UntrashifyIsHonest`: if no vacuum runs beside an untrashify, a success means
  that all it listed is back. `RestoreInv`: what is listed and no longer to be
  moved is in the regular tree; only a vacuum could take it away.
- `NothingIsLostTogether`: if a vacuum runs beside neither of the others,
  `LostOnlyOnPurpose`. Both `CopiedInv` of the vacuum and `RestoreInv` speak of
  a copy the other procedure could remove, which is why they must not overlap.
- `RetentionIsHonoured`: on S3, with no vacuum beside a prefix delete. LastMod
  has lost a fraction, so the invariant compares stamps (`RetentionInv`), and a
  lemma on multiples of `Gran` gives that stamps more than the retention apart
  belong to instants that are, too.

`ObsoleteProofs`:

- `UsefulFilesAreKept`: `~WritersOverlap /\ Disturb = {} => (ObsSpec =>
  []UsefulFilesStay)`. The invariant is about what each procedure holds while the
  sessions go on: rows are of files that no session will bring back, with an LSN
  not below that of their drop (`CollectInv`); backups a deletion has not listed
  are younger than the drops it knows of, and files with a row below the first
  LSN are of no use to any backup (`DeleteInv`).
- `ObsoleteIsNotLost`: `ObsSpec => ObsoleteNotLost`, without conditions.

`ConnectionProofs`, about the streaming handlers:

- `TypeCorrect`, `BytesInOrder` (`InOrder`, also with `HalfReads`),
  `CatIsComplete` (`NoGaps` without `HalfReads`) and `CatIsReliable`: without
  `HalfReads`, `Spec => ImplementsReliableRead`, for every length, offset, buffer
  and retry limit. The invariant: an open stream stands at `offsetReached`, the
  bytes delivered lie before it and are exactly those from `StartOffset` on. The
  refinement maps `delivered` and `pc` to the abstract variables; a `Restart` is
  a stutter, a read with bytes or the end a `Deliver`, the last failure a `Fail`,
  and the invariant makes the delivered bytes the prefix that `Deliver` asks for.
- `PutIsAtomic`: `Whole => (PutSpec => ImplementsAtomicPut)`. `PipeInv` says
  where a message is between receiver, pipe and upload, and that the receiver
  closes its end only behind the last message and the end of the envelope; so
  the step in which the upload to S3 sees the end of the pipe is the abstract
  `Store`, a step of the file that of `Write`, and all others are steps of the
  client, the answer or stutter.
- `CopyIsAccounted`: `CopySpec => []CopyAccounted`, without conditions, for any
  number of goroutines, files, passes and requests. In a pass every live file is
  whole, in this pass's or the next one's list, in the hands of a goroutine that
  will store or report it, or in `masked` or `stale`.
- `ConnHandlers`: a behaviour of `Connection` is one of each handler, so all
  this holds of `ConnSpec`.

`DaemonProofs`, about the state that all requests of a process share:

- Of `S3Interactor`: `OwnUploadsAreSafe` and `SweepIsThorough` from `RegistryInv`
  (the registry lacks the key of an upload in progress only when two of one key
  have met), `FailedInv` (an upload of this process that is taken for failed is
  over) and `SweepInv` (what was dead at the listing is gone or on its way to the
  abort). `ListingIsSound`: `~Mixes => (ListSpec => []ListingSound)`. Every
  listing, in a goroutine's memory, in the file or in what was read from it, is
  one of a bucket of its storage at a moment in the past, no more than `ListTime`
  older than the time written beside it; a lemma carries this over to a longer
  history.
- Of `Daemon`: `ReadyIsReachable` from `SocketInv` (a process has a socket from
  `Listen` on until its signal goroutine is past the `Close` of it), and
  `CountedAreServed` from `StopInv` (who cancels the context, and who was early)
  and `CountInv`.
- Of `PgConsole`: `ShowIsSound` and `StatisticsAreWhole` from `MutexInv` (who
  visits the pool holds the mutex, so the pool stays as it is), `StatInv` (each
  client has its line or is still to get it) and `ShowInv`: a client stands, in
  whichever array it has been written or copied to, at the place that its
  callback has found for it, hence in none twice; and the length of `infos` is
  not 0 once a callback has stored one. A header may be a mixture, and an element
  still nil: of these the property does not speak.
- `S3Parts` and `DaemonListeners` do for `S3Spec` and `DaemonSpec` what
  `ConnHandlers` does for `ConnSpec`.

`RequestsProofs`: `RepliesAreOrdered` and `ExitIsHonest`. What yproxy has said,
on the client's side, in the socket and still to be written (`Said`), changes in
two ways only: the outcome is said, once, or the end of it is lost (`SaidMoves`).
So a fact about the answers of every handler (`OutcomesHonest`) becomes
`ReplyOrder` and `DoneInv`: ReadyForQuery is only said of what was done. `PutInv`
counts the packets of a put (taken, in the socket and unsent they are all of the
input, with one CopyDone behind them), `ListInv` what a list has collected; that
the chunks add up to the number of objects found is `ChunkSums`.

`CodecProofs`: `RoundTrip`, for every message in `Messages` and every `W`:
`Body` is a sequence of four bytes or more, and, the `Unpaired` types apart,
`Decode` makes `Meaning` of it, which is the message itself but for the word that
Gool adds and the unused end of a CopyData buffer. The parts it is made of, each a lemma:

- `Uint64` undoes `PutUint64` for all that `W` bytes hold, by way of the value of
  the first `i` bytes being `n \div 256^(W - i)`;
- what each field reads, wherever in a body it stands and whatever stands behind
  it: a number, a string ended by 0, a string behind its length;
- `GetSettings` and `ObjectInfos` undo their loops: after `k` rounds they have
  the first `k` settings or objects and stand at the end of their bytes. The
  second stops at the end of the body, so its lemma also says that it has not
  come to the end before.

Each is an induction on a number of bytes or rounds. The library's induction
rules take a predicate as parameter and cannot be used; instead the set of
counterexamples is formed, and has a least element if it has any
(`NatLessThanWellFounded`, `WFMin`).

`WireProofs`, for any messages, any limit and any cutting of the stream:

- `PacketsAreCutClean`: `WireSpec => []CutClean`. The invariant lays the frames
  of the plan out in all that was ever written (`Layout`), says how much of that
  there is (`Extent`: whole frames while the writer lives, then part of one more)
  and that the bytes not yet read are those of the layout from the reader's
  place on (`Bytes`). A lemma for each thing that happens to the stream carries
  this over: a frame is written, the writer closes or dies in one, bytes are
  read, a frame has been read. `Delivered`, `Asked` and `Filled` tie the state of
  `ReadPacket` to it; `Stopped` says why it failed.
- `PacketsAreVerbatim`: packet `i` is the body of message `i`, byte for byte.
- `PacketsAreFaithful`: so, with `RoundTrip`, `WireSpec => []Faithful`.
- `StreamIsChannel`: `WireSpec => ImplementsChannel`. `Send` is the channel's
  `Write`, `Close` its `HangUp`, `BodyRead` its `Read`, and what ends
  `ReadPacket` its `End`; a read of some bytes is a stutter. That the packet is
  the right one and the end does not come too early is the invariant above.

`WireAssumption` asks that a plan is a sequence of `Messages`, whose lengths fit
into `W` bytes, and that the limit does, too.

Only model-checked:

- all liveness: it needs fairness and ENABLED, which the prover does not know;
- the three violated runs, where a counterexample is the result.

## 6. Running

    tlc -workers 2 -config VacuumS3.cfg MCVacuum
    tlapm VacuumProofs.tla

The configuration's module is `MCVacuum` for `Vacuum*`, `MCGarbage` for
`Garbage*`, `MCRetryReader` for `RetryReaderLost`, `MCCopy` for `CopyErrRace`,
`MCPgConsole` for `Console`, and `MC` with the name of the configuration for the
others. The longest runs, `Connection` and `S3Interactor`, take two to four
minutes on two cores, the others up to a minute and a half; `CodecProofs` and
`WireProofs` take eleven to twelve minutes, `DaemonProofs` five, the other proofs
one and a half to four.

## 7. Plan

1. A store that changes by whole requests as an abstract specification of
   `Vacuum` and `Trash`.
2. The garbage procedures on listings from the cache.

## 8. Not modelled

- The session pool and the discovery of endpoints (`pkg/storage/sessionpool.go`):
  the semaphore is released before a session is used and only delays its
  creation, which the models take as part of a call; discovery is I/O with a
  fallback.
- The descriptors that `ListPath` and `PutFileToDest` of the file storage leave
  open.
- The fields of a client (type, offset, path) that SHOW CLIENTS reads while its
  connection changes them: no property depends on their values.
- Lexer and grammar of the console (`pkg/core/parser`): generated. What a query
  parses to is a constant of `PgConsole`; so are the figures that SHOW STATS
  computes from its digests.
- Metrics, logging, systemd notification: output only. Configuration: its values
  are constants, reading the files is I/O.
- Cryptography and what a short write does inside an OpenPGP writer: a library.
- The pages of a listing: the store's answer is one step.
- The comparison of versions in `pkg/database`: `HasHint` says on which side of
  it the extension is.
- `PatchFile` of the S3 storage and the encoders of the obsolete messages have
  no caller; `cmd/yfuzzer` and `pkg/mock` are test tools.
- Time in the rate limiter (`WaitN`).
