---------------------------- MODULE PutPipeline ----------------------------
(***************************************************************************)
(* ProcessPutExtended (pkg/proc/interaction.go): a receiver goroutine      *)
(* reads CopyData messages and writes them, encrypted if asked for, into   *)
(* an io.Pipe; PutFileToDest reads the other end until it sees the end of  *)
(* the stream.  A Write to the pipe returns when its bytes have been read. *)
(* S3 shows the object when the upload is complete, the file storage       *)
(* creates the file and writes it in place.                                *)
(***************************************************************************)
EXTENDS Integers

CONSTANTS
  Messages,    \* bound on the CopyData messages a client sends
  Sz,          \* size of one of them
  HasCrypter,  \* a GPG key is configured and can encrypt
  Limiter,     \* enable_rate_limiter
  Burst        \* storage_rate_limit, the burst of the limiter

ASSUME PutAssumption ==
  /\ Messages \in Nat
  /\ Sz \in Nat /\ Burst \in Nat
  /\ HasCrypter \in BOOLEAN /\ Limiter \in BOOLEAN

VARIABLES
  inPlace, \* the storage is a file storage
  kind,   \* msg.Encrypt: a "plain" or a "gpg" stream
  cl,     \* the client: sending, or how it ended the stream
  sent,   \* messages it has sent
  rpc,    \* the receiver goroutine
  taken,  \* messages the receiver has read
  pipe,   \* what a Write in progress offers
  wend,   \* the write end of the pipe
  rend,   \* the read end of the pipe, closed when the handler returns
  upc,    \* the handler: in PutFileToDest, in wg.Wait, or its outcome
  body,   \* messages PutFileToDest has read in full
  tail,   \* how much of the rest it has read: envelope, cut message
  object  \* messages in the object under its name, NoObj before it exists

pvars == <<inPlace, kind, cl, sent, rpc, taken, pipe, wend, rend, upc, body, tail,
          object>>
clVars == <<inPlace, kind, cl, sent>>
recVars == <<rpc, taken>>
putVars == <<upc, body, tail, object>>

NoObj == -1
End == {"open", "closed"}
Encrypt == kind = "gpg"
\* Whether msg.Data passes the limiter in one Write.
Whole == ~ Limiter \/ Sz <= Burst

PutTypeOK ==
  /\ inPlace \in BOOLEAN
  /\ kind \in {"plain", "gpg"}
  /\ cl \in {"sending", "done", "stray", "gone"}
  /\ sent \in 0..Messages
  /\ rpc \in {"begin", "opening", "read", "writing", "closing", "sealing",
              "exited"}
  /\ taken \in 0..sent
  /\ pipe \in {"none", "head", "data", "seal"}
  /\ wend \in End /\ rend \in End
  /\ upc \in {"put", "wait", "ready", "failed"}
  /\ body \in 0..taken
  /\ tail \in {"none", "open", "sealed", "cut"}
  /\ object \in {NoObj} \cup 0..Messages

\* What a short write does inside the OpenPGP writer is not modelled.
PutInit ==
  /\ inPlace \in BOOLEAN
  /\ kind \in IF Limiter THEN {"plain"} ELSE {"plain", "gpg"}
  /\ cl = "sending" /\ sent = 0
  /\ rpc = "begin" /\ taken = 0
  /\ pipe = "none" /\ wend = "open" /\ rend = "open"
  /\ upc = "put" /\ body = 0 /\ tail = "none" /\ object = NoObj

-----------------------------------------------------------------------------
(* The client.                                                             *)

SendCopyData ==
  /\ cl = "sending" /\ sent < Messages
  /\ sent' = sent + 1
  /\ UNCHANGED <<inPlace, kind, cl, recVars, pipe, wend, rend, putVars>>

\* CopyDone, some other message, or a closed connection.
EndStream ==
  /\ cl = "sending"
  /\ cl' \in {"done", "stray", "gone"}
  /\ UNCHANGED <<inPlace, kind, sent, recVars, pipe, wend, rend, putVars>>

-----------------------------------------------------------------------------
(* The receiver goroutine.                                                 *)

\* Without a crypter it returns at once and closes nothing.
StartReceiver ==
  /\ rpc = "begin"
  /\ rpc' = IF ~ Encrypt THEN "read"
            ELSE IF HasCrypter THEN "opening" ELSE "exited"
  /\ pipe' = IF Encrypt /\ HasCrypter THEN "head" ELSE "none"
  /\ UNCHANGED <<clVars, taken, wend, rend, putVars>>

\* Encrypt has written the head of the envelope, or failed to.
EnvelopeOpened ==
  /\ rpc = "opening"
  /\ \/ pipe = "none" /\ rpc' = "read"
     \/ pipe # "none" /\ rend = "closed" /\ rpc' = "exited"
  /\ pipe' = "none"
  /\ UNCHANGED <<clVars, taken, wend, rend, putVars>>

\* Faulty variant: the end of the stream overtakes what was sent before it.
ReadPacketDrops ==
  /\ rpc = "read"
  /\ \/ /\ taken < sent
        /\ taken' = taken + 1 /\ pipe' = "data" /\ rpc' = "writing"
     \/ /\ cl # "sending" \/ upc = "failed"
        /\ rpc' = "closing" /\ UNCHANGED <<taken, pipe>>
  /\ UNCHANGED <<clVars, wend, rend, putVars>>

\* ReadPacket returns the next message, or the loop ends: the client has
\* ended the stream, or it is gone, and what was still on its way with it, or
\* ProcConn has closed the connection.
ReadPacket ==
  /\ rpc = "read"
  /\ \/ /\ taken < sent
        /\ taken' = taken + 1 /\ pipe' = "data" /\ rpc' = "writing"
     \/ /\ (taken = sent /\ cl # "sending") \/ cl = "gone" \/ upc = "failed"
        /\ rpc' = "closing" /\ UNCHANGED <<taken, pipe>>
  /\ UNCHANGED <<clVars, wend, rend, putVars>>

\* ww.Write has returned: everything was read, or too little, or the read
\* end is closed.  All but the first end the loop.
WriteReturns ==
  /\ rpc = "writing"
  /\ \/ pipe = "none" /\ rpc' = IF Whole THEN "read" ELSE "closing"
     \/ pipe # "none" /\ rend = "closed" /\ rpc' = "closing"
  /\ pipe' = "none"
  /\ UNCHANGED <<clVars, taken, wend, rend, putVars>>

\* The deferred function: ww.Close(), which for an encrypted stream writes
\* the end of the envelope.
CloseWriter ==
  /\ rpc = "closing"
  /\ \/ /\ ~ Encrypt
        /\ rpc' = "exited" /\ wend' = "closed" /\ UNCHANGED pipe
     \/ /\ Encrypt
        /\ rpc' = "sealing" /\ pipe' = "seal" /\ UNCHANGED wend
  /\ UNCHANGED <<clVars, taken, rend, putVars>>

\* Faulty variant: it closes the envelope and not the pipe.
EnvelopeSealedOnly ==
  /\ rpc = "sealing"
  /\ pipe = "none" \/ rend = "closed"
  /\ pipe' = "none" /\ rpc' = "exited"
  /\ UNCHANGED <<clVars, taken, wend, rend, putVars>>

\* It closes the pipe itself only if that has succeeded.
EnvelopeSealed ==
  /\ rpc = "sealing"
  /\ \/ pipe = "none" /\ wend' = "closed"
     \/ pipe # "none" /\ rend = "closed" /\ UNCHANGED wend
  /\ pipe' = "none" /\ rpc' = "exited"
  /\ UNCHANGED <<clVars, taken, rend, putVars>>

-----------------------------------------------------------------------------
(* The handler: PutFileToDest, wg.Wait and the replies.                    *)

\* os.Create, which leaves an empty file under the name.
CreateFile ==
  /\ upc = "put" /\ inPlace /\ object = NoObj
  /\ object' = 0
  /\ UNCHANGED <<clVars, recVars, pipe, wend, rend, upc, body, tail>>

\* A Read of the pipe; io.Copy writes to the file what it has read before.
PutReads ==
  /\ upc = "put" /\ pipe # "none"
  /\ inPlace => object = body
  /\ body' = IF pipe = "data" /\ Whole THEN body + 1 ELSE body
  /\ \/ pipe = "head" /\ tail' = "open"
     \/ pipe = "data" /\ tail' = IF Whole THEN tail ELSE "cut"
     \/ pipe = "seal" /\ tail' = "sealed"
  /\ pipe' = "none"
  /\ UNCHANGED <<clVars, recVars, wend, rend, upc, object>>

WriteFile ==
  /\ upc = "put" /\ inPlace /\ object # NoObj /\ object < body
  /\ object' = object + 1
  /\ UNCHANGED <<clVars, recVars, pipe, wend, rend, upc, body, tail>>

\* The end of the stream: the upload is completed, the file is written.
EndOfPipe == pipe = "none" /\ wend = "closed" /\ (inPlace => object = body)
PutSucceeds ==
  /\ upc = "put" /\ EndOfPipe
  /\ upc' = "wait"
  /\ object' = body
  /\ UNCHANGED <<clVars, recVars, pipe, wend, rend, body, tail>>

\* The store refuses, or its answer to the completed upload is lost; a file
\* stays as it is.  The handler returns the error and its deferred calls close
\* both ends of the pipe and the connection.
PutFails ==
  /\ upc = "put"
  /\ object' \in {object} \cup IF EndOfPipe THEN {body} ELSE {}
  /\ upc' = "failed" /\ wend' = "closed" /\ rend' = "closed"
  /\ UNCHANGED <<clVars, recVars, pipe, body, tail>>

\* wg.Wait returns and the client is told, if it is still there.
ReplyReady ==
  /\ upc = "wait" /\ rpc = "exited"
  /\ upc' \in {"ready", "failed"}
  /\ rend' = "closed" /\ wend' = "closed"
  /\ UNCHANGED <<clVars, recVars, pipe, body, tail, object>>

-----------------------------------------------------------------------------

PutClient == SendCopyData \/ EndStream

Receiver ==
  \/ StartReceiver
  \/ EnvelopeOpened
  \/ ReadPacket
  \/ WriteReturns
  \/ CloseWriter
  \/ EnvelopeSealed

PutWork == CreateFile \/ PutReads \/ WriteFile \/ PutSucceeds \/ ReplyReady
Put == PutWork \/ PutFails

PutOver == upc \in {"ready", "failed"} /\ rpc = "exited"

PutNext ==
  \/ PutClient
  \/ Receiver
  \/ Put
  \/ PutOver /\ UNCHANGED pvars

PutSpec == PutInit /\ [][PutNext]_pvars

-----------------------------------------------------------------------------

(* The two goroutines, the pipe and the envelope together are a put in one *)
(* step to S3: no object before the client has ended its stream, none that *)
(* lacks a message or the end of its envelope, unless the connection was   *)
(* cut, and no ReadyForQuery without it.  A file grows under its name from *)
(* the start and stays as it is after a failure; ReadyForQuery stands for  *)
(* a whole one as well.                                                    *)
Atomic == INSTANCE AtomicPut WITH
  NoObject <- NoObj,
  end <- IF cl \in {"done", "stray"} THEN "done" ELSE IF cl = "gone" THEN "cut" ELSE "open",
  object <- IF /\ object # NoObj /\ Encrypt /\ tail # "sealed"
               /\ inPlace => upc \in {"wait", "ready"}
            THEN -2 ELSE object,
  reply <- IF upc \in {"ready", "failed"} THEN upc ELSE "none"
ImplementsAtomicPut == Atomic!Spec

=============================================================================
