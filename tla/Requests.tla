------------------------------ MODULE Requests ------------------------------
(***************************************************************************)
(* A request from the command line to the answer: the commands of          *)
(* yp-client (cmd/client/main.go), a socket that holds Cap messages each   *)
(* way, and ProcConn with its handlers (pkg/proc/interaction.go).  What a  *)
(* handler does to the storage is in the modules about it; here it         *)
(* succeeds or fails, and what counts is what the command makes of it.     *)
(* Either process may die.                                                 *)
(***************************************************************************)
EXTENDS Integers, Sequences

CONSTANTS
  Cap,        \* messages a socket buffer holds
  Input,      \* packets of data put reads from its input, and of the file of cat
  MaxObjects, \* bound on the objects a listing finds
  ChunkSize   \* objects in one answer of LIST (1000 in the code)

ASSUME RequestsAssumption ==
  /\ Cap \in Nat \ {0} /\ ChunkSize \in Nat \ {0}
  /\ Input \in Nat /\ MaxObjects \in Nat

VARIABLES
  cmd,       \* the command, or the type of a request of another client
  sealable,  \* what a put of it asks to encrypt can be: there is a key and it works
  exit,      \* how the client ended: "none" while it runs
  unsent,    \* what it still has to write
  seen,      \* the answers it has read
  res,       \* objects listFunc has collected, to print them in the end
  toServer, toClient,  \* the socket
  spc,       \* where the connection's goroutine in yproxy is
  req,       \* the type of the request
  taken,     \* packets of data the put has taken
  op,        \* what came of the operation
  result,    \* what it amounts to: packets stored, objects listed
  out        \* answers still to be written

reqVars == <<cmd, sealable, exit, unsent, seen, res, toServer, toClient, spc, req, taken, op, result, out>>
client == <<cmd, sealable, exit, unsent, seen, res>>

-----------------------------------------------------------------------------
(* The client                                                              *)

Msg(t) == [type |-> t, n |-> 0]
Data(k) == [i \in 1..k |-> [type |-> "CopyData", n |-> 1]]
RFQ == Msg("ReadyForQuery")
Error == Msg("Error")

\* What a command writes before it reads.
Request(c) ==
  CASE c = "cat" -> <<Msg("CatV2")>>
    [] c = "copy" -> <<Msg("CopyV2")>>
    [] c = "put" -> <<Msg("PutV3")>> \o Data(Input) \o <<Msg("CopyDone")>>
    [] c = "list" -> <<Msg("List")>>
    [] c = "delete" -> <<Msg("Delete")>>
    [] c = "deleteTrash" -> <<Msg("Delete2")>>
    [] c = "untrash" -> <<Msg("Untrashify")>>
    [] c \in {"gool", "interconnect"} -> <<Msg("Gool")>>
    [] c = "Gool" -> <<Msg("Gool"), Msg("Gool")>>
    [] c \in {"Put", "PutV2"} -> <<Msg(c)>> \o Data(Input) \o <<Msg("CopyDone")>>
    [] OTHER -> <<Msg(c)>>

Command == {"cat", "copy", "put", "list", "delete", "deleteTrash", "untrash", "gool"}
\* Requests of other clients (the database extension).  "Patch" has no handler,
\* "Gool" comes with the second packet ProcMotion reads, "interconnect" is a
\* gool on the interconnect socket.
Other == {"Cat", "Put", "PutV2", "ListV2", "Copy", "CollectObsolete", "DeleteObsolete",
          "Patch", "Gool", "interconnect"}

\* The answers a command waits for, one after the other.
Expect(types) ==
  LET want == [i \in DOMAIN types |-> Msg(types[i])]
      Begun == \E n \in 0..Len(want) : seen = SubSeq(want, 1, n)
  IN IF seen = want THEN "ok" ELSE IF Begun THEN "none" ELSE "error"

\* What each command makes of the answers so far: its exit, or "none" to go on.
catFunc == "none"
copyFunc == Expect(<<"CopyComplete", "ReadyForQuery">>)
putFunc == Expect(<<"PutComplete", "ReadyForQuery">>)
sendDeleteChunkRequest == Expect(<<"ReadyForQuery">>)
sendDeleteTrashRequest == Expect(<<"ReadyForQuery">>)
untrashifyFunc == Expect(<<"ReadyForQuery">>)
goolFunc == Expect(<<"ReadyForQuery">>)

listFunc ==
  LET last == seen[Len(seen)]
  IN IF seen = << >> \/ last.type = "ObjectMeta" THEN "none"
     ELSE IF last = RFQ THEN "ok" ELSE "error"

Verdict ==
  CASE cmd = "copy" -> copyFunc
    [] cmd = "put" -> putFunc
    [] cmd = "list" -> listFunc
    [] cmd = "delete" -> sendDeleteChunkRequest
    [] cmd = "deleteTrash" -> sendDeleteTrashRequest
    [] cmd = "untrash" -> untrashifyFunc
    [] cmd \in {"gool", "interconnect"} -> goolFunc
    [] OTHER -> catFunc          \* the other clients read until the end, too

\* The connection as the two processes see it: the client closes when it is
\* over, yproxy when ProcConn returns.
ClientOpen == exit = "none"
ServerOpen == spc # "closed"

\* con.Write: it blocks while the buffer is full and fails when yproxy has
\* closed.
ClientWrite ==
  /\ exit = "none" /\ unsent # << >> /\ ServerOpen /\ Len(toServer) < Cap
  /\ toServer' = Append(toServer, unsent[1])
  /\ unsent' = Tail(unsent)
  /\ UNCHANGED <<cmd, sealable, exit, seen, res, toClient, spc, req, taken, op, result, out>>

ClientWriteFails ==
  /\ exit = "none" /\ unsent # << >> /\ ~ServerOpen
  /\ exit' = "error"
  /\ UNCHANGED <<cmd, sealable, unsent, seen, res, toServer, toClient, spc, req, taken, op, result, out>>

\* ReadPacket returns an answer (io.Copy: some bytes).
ClientRead ==
  /\ exit = "none" /\ unsent = << >> /\ Verdict = "none" /\ toClient # << >>
  /\ seen' = Append(seen, toClient[1])
  /\ res' = IF cmd = "list" THEN res + toClient[1].n ELSE res
  /\ toClient' = Tail(toClient)
  /\ UNCHANGED <<cmd, sealable, exit, unsent, toServer, spc, req, taken, op, result, out>>

\* The connection ends.  To cat it is the end of the file.
ClientReadFails ==
  /\ exit = "none" /\ unsent = << >> /\ Verdict = "none"
  /\ toClient = << >> /\ ~ServerOpen
  /\ exit' = IF cmd \in Command \ {"cat"} THEN "error" ELSE "ok"
  /\ UNCHANGED <<cmd, sealable, unsent, seen, res, toServer, toClient, spc, req, taken, op, result, out>>

ClientReturns ==
  /\ exit = "none" /\ unsent = << >> /\ Verdict # "none"
  /\ exit' = Verdict
  /\ UNCHANGED <<cmd, sealable, unsent, seen, res, toServer, toClient, spc, req, taken, op, result, out>>

ClientDies ==
  /\ exit = "none" /\ exit' = "killed"
  /\ UNCHANGED <<cmd, sealable, unsent, seen, res, toServer, toClient, spc, req, taken, op, result, out>>

-----------------------------------------------------------------------------
(* The handlers: what may come of the operation, what it amounts to and    *)
(* the answers, in order.  An error that is only logged has no answer.     *)

Outcome(o, n, answers) == [op |-> o, result |-> n, answers |-> answers]

\* The storage or the decryption may fail anywhere in the file.
ProcessCatExtended ==
  {Outcome("done", Input, Data(Input))}
    \cup {Outcome("failed", k, Data(k)) : k \in 0..Input}

ProcessListExtended ==
  LET Chunks(n) ==
        [i \in 1..((n + ChunkSize - 1) \div ChunkSize) |->
           [type |-> "ObjectMeta",
            n |-> IF i * ChunkSize <= n THEN ChunkSize ELSE n % ChunkSize]]
  IN {Outcome("done", n, Chunks(n) \o <<RFQ>>) : n \in 0..MaxObjects}
       \cup {Outcome("failed", 0, <<Error>>)}

\* replyKV: CopyV2 asks for the key version.  A storage that cannot be set up
\* and keys that cannot be compared are only logged.
ProcessCopyExtended(replyKV) ==
  {Outcome("done", 0, (IF replyKV THEN <<Msg("CopyComplete")>> ELSE << >>) \o <<RFQ>>),
   Outcome("failed", 0, <<Error>>), Outcome("failed", 0, << >>)}

\* Faulty variant: the handler goes on after the error reply.
ProcessDeleteGoesOn == {Outcome("done", 0, <<RFQ>>), Outcome("failed", 0, <<Error, RFQ>>)}

ProcessDeleteExtended == {Outcome("done", 0, <<RFQ>>), Outcome("failed", 0, <<Error>>)}
ProcessDelete2Extended == {Outcome("done", 0, <<RFQ>>), Outcome("failed", 0, <<Error>>)}
ProcessUntrashify == {Outcome("done", 0, <<RFQ>>), Outcome("failed", 0, <<Error>>)}

\* One error per file that could not be added, and no ReadyForQuery.
ProcessCollectObsolete ==
  {Outcome(IF k = 0 THEN "done" ELSE "failed", k, [i \in 1..k |-> Error])
     : k \in 0..MaxObjects}

ProcessDeleteObsolete == {Outcome("done", 0, << >>), Outcome("failed", 0, << >>)}

Handler(t) ==
  CASE t \in {"Cat", "CatV2"} -> ProcessCatExtended
    [] t \in {"List", "ListV2"} -> ProcessListExtended
    [] t = "Copy" -> ProcessCopyExtended(FALSE)
    [] t = "CopyV2" -> ProcessCopyExtended(TRUE)
    [] t = "Delete" -> ProcessDeleteExtended
    [] t = "Delete2" -> ProcessDelete2Extended
    [] t = "Untrashify" -> ProcessUntrashify
    [] t = "CollectObsolete" -> ProcessCollectObsolete
    [] t = "DeleteObsolete" -> ProcessDeleteObsolete

Puts == {"Put", "PutV2", "PutV3"}
Handled == {"Cat", "CatV2", "List", "ListV2", "Copy", "CopyV2", "Delete",
            "Delete2", "Untrashify", "CollectObsolete", "DeleteObsolete"}

\* ReadPacket and the switch of ProcConn.
ProcConn ==
  /\ spc = "read" /\ toServer # << >>
  /\ toServer' = Tail(toServer)
  /\ req' = toServer[1].type
  /\ spc' = CASE req' \in Puts -> "take"
              [] req' = "Gool" -> "motion"
              [] req' \in Handled -> "work"
              [] OTHER -> "reply"
  /\ out' = IF spc' = "reply" THEN <<Error>> ELSE << >>
  /\ UNCHANGED <<client, toClient, taken, op, result>>

\* The client is gone before its request is read, or before the second packet
\* of a gool.
ReadRequestFails ==
  /\ spc \in {"read", "motion"} /\ toServer = << >> /\ ~ClientOpen
  /\ spc' = "reply" /\ out' = <<Error>>
  /\ UNCHANGED <<client, toServer, toClient, req, taken, op, result>>

\* The handler of the interconnect socket (core.go) answers a gool itself, and
\* anything else, a read error included, with an error.
Interconnect ==
  /\ spc = "accept" /\ (toServer # << >> \/ ~ClientOpen)
  /\ toServer' = IF toServer = << >> THEN << >> ELSE Tail(toServer)
  /\ out' = IF toServer # << >> /\ toServer[1].type = "Gool" THEN <<RFQ>> ELSE <<Error>>
  /\ op' = IF out' = <<RFQ>> THEN "done" ELSE "failed"
  /\ spc' = "reply"
  /\ UNCHANGED <<client, toClient, req, taken, result>>

\* ProcMotion reads a packet of its own, after the one ProcConn has read.
ProcMotion ==
  /\ spc = "motion" /\ toServer # << >>
  /\ toServer' = Tail(toServer)
  /\ spc' = "reply" /\ out' = <<RFQ>> /\ op' = "done"
  /\ UNCHANGED <<client, toClient, req, taken, result>>

Handle ==
  /\ spc = "work"
  /\ \E o \in Handler(req) : op' = o.op /\ result' = o.result /\ out' = o.answers
  /\ spc' = "reply"
  /\ UNCHANGED <<client, toServer, toClient, req, taken>>

PutAnswers == (IF req = "PutV3" THEN <<Msg("PutComplete")>> ELSE << >>) \o <<RFQ>>

\* The reading goroutine of ProcessPutExtended: data, or the end of it.  Its
\* writes fail only when PutFileToDest has (PutFails).
PutData ==
  /\ spc = "take" /\ sealable /\ toServer # << >> /\ toServer[1].type = "CopyData"
  /\ toServer' = Tail(toServer)
  /\ taken' = taken + 1
  /\ UNCHANGED <<client, toClient, spc, req, op, result, out>>

\* Faulty variant: the answer does not wait for the end of the data.
PutEarly ==
  /\ spc = "take"
  /\ op' = "done" /\ result' = taken /\ out' = PutAnswers
  /\ spc' = "reply"
  /\ UNCHANGED <<client, toServer, toClient, req, taken>>

\* PutFileToDest has stored what came through the pipe.  A client that is gone
\* ends the data like a CopyDone, and so does any message that is not data.  A
\* goroutine that cannot encrypt returns before it reads and leaves the pipe
\* open: PutFileToDest then waits for ever, and the client with it.
PutEnds ==
  /\ spc = "take" /\ sealable
  /\ \/ /\ toServer # << >> /\ toServer[1].type # "CopyData"
        /\ toServer' = Tail(toServer)
     \/ toServer = << >> /\ ~ClientOpen /\ UNCHANGED toServer
  /\ op' = "done" /\ result' = taken /\ out' = PutAnswers
  /\ spc' = "reply"
  /\ UNCHANGED <<client, toClient, req, taken>>

\* PutFileToDest fails, at any time; the client is not told.
PutFails ==
  /\ spc = "take"
  /\ op' = "failed" /\ spc' = "reply"
  /\ UNCHANGED <<client, toServer, toClient, req, taken, result, out>>

\* ycl.GetRW().Write and ycl.ReplyError: blocked while the buffer is full; the
\* first failure ends the handler.
Reply ==
  /\ spc = "reply" /\ out # << >> /\ ClientOpen /\ Len(toClient) < Cap
  /\ toClient' = Append(toClient, out[1])
  /\ out' = Tail(out)
  /\ UNCHANGED <<client, toServer, spc, req, taken, op, result>>

\* Faulty variant: the connection is left open.
ReturnWithoutClose ==
  /\ spc = "reply" /\ (out = << >> \/ ~ClientOpen)
  /\ UNCHANGED reqVars

\* ProcConn returns and closes the connection.
Return ==
  /\ spc = "reply" /\ (out = << >> \/ ~ClientOpen)
  /\ spc' = "closed" /\ out' = << >>
  /\ UNCHANGED <<client, toServer, toClient, req, taken, op, result>>

ServerDies ==
  /\ spc # "closed" /\ spc' = "closed" /\ out' = << >>
  /\ UNCHANGED <<client, toServer, toClient, req, taken, op, result>>

-----------------------------------------------------------------------------

ReqInit ==
  /\ cmd \in Command \cup Other
  /\ sealable \in IF Request(cmd)[1].type \in Puts THEN BOOLEAN ELSE {TRUE}
  /\ exit = "none" /\ unsent = Request(cmd) /\ seen = << >> /\ res = 0
  /\ toServer = << >> /\ toClient = << >>
  /\ spc = IF cmd = "interconnect" THEN "accept" ELSE "read"
  /\ req = "none" /\ taken = 0 /\ op = "none" /\ result = 0
  /\ out = << >>

Client == ClientWrite \/ ClientWriteFails \/ ClientRead \/ ClientReadFails \/ ClientReturns
Server == ProcConn \/ ReadRequestFails \/ Interconnect \/ ProcMotion \/ Handle \/ PutData \/ PutEnds
            \/ Reply \/ Return

ReqNext == Client \/ ClientDies \/ Server \/ PutFails \/ ServerDies

ReqSpec == ReqInit /\ [][ReqNext]_reqVars
-----------------------------------------------------------------------------

ReqTypeOK ==
  /\ cmd \in Command \cup Other /\ sealable \in BOOLEAN
  /\ exit \in {"none", "ok", "error", "killed"}
  /\ spc \in {"read", "accept", "take", "work", "motion", "reply", "closed"}
  /\ op \in {"none", "done", "failed"}
  /\ taken \in 0..Input /\ Len(toServer) <= Cap /\ Len(toClient) <= Cap
  /\ out # << >> => spc = "reply"

\* Exit status 0 of yp-client means that the operation was carried out: put
\* has stored all of its input and list has printed every object found.  This
\* is not so for cat, which takes any end of the connection for the end of
\* the file.
ExitHonest ==
  exit = "ok" /\ cmd \in Command \ {"cat"} =>
    /\ op = "done"
    /\ cmd = "put" => result = Input
    /\ cmd = "list" => res = result

\* In what yproxy answers to one request, ReadyForQuery comes last and nothing
\* but errors follows an error: a client that stops at the first of the two
\* has the outcome.
ReplyOrder ==
  LET all == seen \o toClient \o out
  IN \A i \in 1..(Len(all) - 1) :
       /\ all[i] # RFQ
       /\ all[i] = Error => all[i + 1] = Error

\* Every command but gool returns, and so does every connection's goroutine:
\* they never wait for each other, whatever the buffers hold.  A put that asks
\* for encryption where that is impossible is the other exception.
RequestEnds == cmd # "gool" /\ sealable ~> exit # "none" /\ spc = "closed"
=============================================================================
