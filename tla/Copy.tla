-------------------------------- MODULE Copy --------------------------------
(***************************************************************************)
(* ProcessCopyExtended (pkg/proc/interaction.go): copying the files of     *)
(* another installation's storage into this one, several at a time, the    *)
(* failed ones again in up to MaxRetry passes, and asking for the same     *)
(* copy again later.                                                       *)
(***************************************************************************)
EXTENDS Integers, FiniteSets

CONSTANTS
  File,         \* the files of the old storage
  Live,         \* those in the virtual index
  Concurrency,  \* copy_storage_concurrency
  MaxRetry,     \* passes over the files that failed (10 in the code)
  ServerSide,   \* ssCopy: keys equal or nothing to re-encrypt
  Optimize,     \* storage_optimize_copy: skip what is not live
  Requests      \* bound on the copy requests

ASSUME CopyAssumption ==
  /\ Live \subseteq File
  /\ Concurrency \in Nat \ {0}
  /\ MaxRetry \in Nat \ {0}
  /\ ServerSide \in BOOLEAN /\ Optimize \in BOOLEAN
  /\ Requests \in Nat

VARIABLES
  dst,      \* what the new storage holds of a file
  cpc,       \* where the request is
  count,    \* requests so far
  metas,    \* objectMetas of this pass, with multiplicity
  todo,     \* those without a goroutine yet
  task,     \* the goroutine in each slot of the semaphore
  err,      \* the variable err that the goroutines share
  failed,   \* the list of failed files, with multiplicity
  leaked,   \* senders whose PutFileToDest has failed and that still read
  retryCount,
  stale,    \* history: files this request has not copied because a part exists
  masked    \* history: those whose error another goroutine has overwritten

cvars == <<dst, cpc, count, metas, todo, task, err, failed, leaked, retryCount, stale, masked>>
reqVars == <<cpc, count, metas, retryCount, stale>>

Slot == 1..Concurrency
\* A goroutine: "free", at its server-side copy, at its stream, or about to
\* look at err after an upload of its own that has succeeded or not.
Free == [at |-> "free"]
Task == {Free} \cup [at : {"server", "stream", "checkNil", "checkError"}, file : File]
None == [f \in File |-> 0]

CopyTypeOK ==
  /\ dst \in [File -> {"none", "part", "whole"}]
  /\ cpc \in {"idle", "pass", "ok", "error"}
  /\ count \in 0..Requests
  /\ metas \in [File -> Nat] /\ todo \in [File -> Nat]
  /\ task \in [Slot -> Task]
  /\ err \in {"nil", "error"}
  /\ failed \in [File -> Nat]
  /\ leaked \in Nat
  /\ retryCount \in 0..MaxRetry
  /\ stale \subseteq File /\ masked \subseteq File

CopyInit ==
  /\ dst = [f \in File |-> "none"]
  /\ cpc = "idle" /\ count = 0
  /\ metas = None /\ todo = None /\ task = [s \in Slot |-> Free]
  /\ err = "nil" /\ failed = None /\ leaked = 0 /\ retryCount = 0
  /\ stale = {} /\ masked = {}

-----------------------------------------------------------------------------

\* ListFilesToCopy: a path that exists in the new storage counts as copied.
ToCopy == {f \in File : (Optimize => f \in Live) /\ dst[f] = "none"}

\* A confirmed request, a dry run, or one that is refused or cannot list.
ProcessCopy ==
  /\ cpc = "idle" /\ count < Requests
  /\ count' = count + 1
  /\ \/ /\ cpc' = "pass" /\ retryCount' = 1
        /\ metas' = [f \in File |-> IF f \in ToCopy THEN 1 ELSE 0] /\ todo' = metas'
        /\ stale' = {f \in File : dst[f] = "part"}
     \/ cpc' \in {"idle", "error"} /\ UNCHANGED <<metas, todo, retryCount, stale>>
  /\ UNCHANGED <<dst, task, err, failed, leaked, masked>>

\* The loop starts a goroutine when the semaphore lets it.
StartTask(s, f) ==
  /\ cpc = "pass" /\ task[s] = Free /\ todo[f] > 0
  /\ todo' = [todo EXCEPT ![f] = @ - 1]
  /\ task' = [task EXCEPT ![s] =
                [at |-> IF ServerSide THEN "server" ELSE "stream", file |-> f]]
  /\ UNCHANGED <<reqVars, dst, err, failed, leaked, masked>>

Fail(f) == failed' = [failed EXCEPT ![f] = @ + 1]

\* What an operation that reports an error may leave behind: a lost answer of
\* S3 hides a whole object, a file is created before it is written.
Leftover(f) == \E d \in {dst[f], "part", "whole"} : dst' = [dst EXCEPT ![f] = d]

\* CopyObject.  When it fails the file is streamed instead; err stays as it
\* is, the error is a variable of the inner block.
ServerSideCopy(s) ==
  /\ task[s].at = "server"
  /\ \/ /\ dst' = [dst EXCEPT ![task[s].file] = "whole"]
        /\ task' = [task EXCEPT ![s] = Free]
     \/ /\ task' = [task EXCEPT ![s].at = "stream"]
        /\ Leftover(task[s].file)
  /\ UNCHANGED <<reqVars, todo, err, failed, leaked, masked>>

\* The decrypter cannot be set up.
DecryptFails(s) ==
  /\ task[s].at = "stream"
  /\ Fail(task[s].file)
  /\ task' = [task EXCEPT ![s] = Free]
  /\ UNCHANGED <<reqVars, dst, todo, err, leaked, masked>>

\* Faulty variant: a sender that fails does not report the file.
StreamUnreported(s) ==
  /\ task[s].at = "stream"
  /\ dst' = [dst EXCEPT ![task[s].file] = "part"]
  /\ err' = "nil"
  /\ task' = [task EXCEPT ![s].at = "checkNil"]
  /\ UNCHANGED <<reqVars, todo, failed, leaked, masked>>

\* PutFileToDest over the pipe.  The sender delivers everything, or reports
\* the file and closes the pipe as well, so that what came through is stored;
\* when the store fails the sender is left behind.  The result goes to err.
Stream(s) ==
  LET f == task[s].file IN
  /\ task[s].at = "stream"
  /\ \/ /\ dst' = [dst EXCEPT ![f] = "whole"] /\ err' = "nil"
        /\ UNCHANGED <<failed, leaked>>
     \/ /\ Fail(f)
        /\ dst' = [dst EXCEPT ![f] = "part"] /\ err' = "nil"
        /\ UNCHANGED leaked
     \/ /\ err' = "error"
        /\ \/ leaked' = leaked + 1 /\ UNCHANGED failed
           \/ Fail(f) /\ UNCHANGED leaked
        /\ Leftover(f)
  /\ task' = [task EXCEPT ![s].at = IF err' = "nil" THEN "checkNil" ELSE "checkError"]
  /\ UNCHANGED <<reqVars, todo, masked>>

\* Only then the goroutine tests err, which another may have written.
CheckErr(s) ==
  LET f == task[s].file IN
  /\ task[s].at \in {"checkNil", "checkError"}
  /\ IF err = "error" THEN Fail(f) ELSE UNCHANGED failed
  /\ masked' = IF err = "nil" /\ task[s].at = "checkError" THEN masked \cup {f} ELSE masked
  /\ task' = [task EXCEPT ![s] = Free]
  /\ UNCHANGED <<reqVars, dst, todo, err, leaked>>

\* A sender that was left behind fails to read its source.  It reports what
\* has its index in the list of the current pass, its own file or another; an
\* index beyond the list is a panic, which is a Crash.
LateFailure(f) ==
  /\ cpc = "pass" /\ leaked > 0 /\ metas[f] > 0
  /\ leaked' = leaked - 1
  /\ Fail(f)
  /\ UNCHANGED <<reqVars, dst, todo, task, err, masked>>

\* Faulty variant: the passes are not counted.
EndPassUncounted ==
  /\ cpc = "pass" /\ todo = None /\ \A s \in Slot : task[s] = Free
  /\ metas' = failed /\ todo' = failed /\ failed' = None
  /\ cpc' = IF failed = None THEN "ok" ELSE "pass"
  /\ UNCHANGED <<dst, count, task, err, leaked, retryCount, stale, masked>>

\* wg.Wait returns: the failed files make the next pass, or the last error.
EndPass ==
  /\ cpc = "pass" /\ todo = None /\ \A s \in Slot : task[s] = Free
  /\ metas' = failed /\ failed' = None
  /\ \/ /\ failed = None
        /\ cpc' = "ok" /\ UNCHANGED <<todo, retryCount>>
     \/ /\ failed # None /\ retryCount < MaxRetry
        /\ todo' = failed /\ retryCount' = retryCount + 1 /\ UNCHANGED cpc
     \/ /\ failed # None /\ retryCount = MaxRetry
        /\ cpc' = "error" /\ UNCHANGED <<todo, retryCount>>
  /\ UNCHANGED <<dst, count, task, err, leaked, stale, masked>>

\* The client has its answer.  A sender that is still there reports to nobody,
\* or brings the process down, between requests or during one (Crash).
Reply ==
  /\ cpc \in {"ok", "error"}
  /\ cpc' = "idle" /\ retryCount' = 0 /\ leaked' = 0 /\ metas' = None
  /\ err' = "nil" /\ stale' = {} /\ masked' = {}
  /\ UNCHANGED <<dst, count, todo, task, failed>>

\* The process dies; the new storage keeps what it has.
Crash ==
  /\ cpc = "pass"
  /\ cpc' = "idle"
  /\ metas' = None /\ todo' = None /\ task' = [s \in Slot |-> Free]
  /\ err' = "nil" /\ failed' = None /\ leaked' = 0 /\ retryCount' = 0
  /\ stale' = {} /\ masked' = {}
  /\ UNCHANGED <<dst, count>>

CopyWork ==
  \/ \E s \in Slot :
       \/ \E f \in File : StartTask(s, f)
       \/ ServerSideCopy(s)
       \/ DecryptFails(s)
       \/ Stream(s)
       \/ CheckErr(s)
  \/ EndPass
  \/ Reply

CopyNext ==
  \/ ProcessCopy
  \/ CopyWork
  \/ \E f \in File : LateFailure(f)
  \/ Crash

CopySpec == CopyInit /\ [][CopyNext]_cvars

-----------------------------------------------------------------------------

(* When a copy "finished successfully" (interaction.go:451) every live     *)
(* file of the old storage is in the new one, in full: whatever failed on  *)
(* the way was carried from pass to pass.                                  *)
CopyComplete == cpc = "ok" => \A f \in Live : dst[f] = "whole"

(* What is left of that with several goroutines and several requests: when *)
(* a copy "finished successfully", a live file that is not in the new      *)
(* storage in full has lost its error in one of two ways.  Its failed      *)
(* upload was followed, before the test of the shared err, by a successful *)
(* one; or a part of it was there when the request began and counted as    *)
(* copied.  Nothing else is forgotten from pass to pass, whatever fails.   *)
CopyAccounted ==
  cpc = "ok" => \A f \in Live : dst[f] = "whole" \/ f \in masked \/ f \in stale

(* Every copy request is answered, although every file may fail in every   *)
(* pass and more files may be reported than were copied.                   *)
CopyEnds == cpc = "pass" ~> cpc # "pass"

=============================================================================
