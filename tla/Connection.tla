----------------------------- MODULE Connection -----------------------------
(***************************************************************************)
(* One connection serves one request: ProcConn (pkg/proc/interaction.go)   *)
(* reads a packet and runs its handler to the end.  This module puts the   *)
(* three streaming handlers behind that choice: cat (RetryReader), put     *)
(* (PutPipeline) and copy (Copy).                                          *)
(***************************************************************************)
EXTENDS RetryReader, PutPipeline, Copy

VARIABLE request   \* the type of the packet

allVars == <<request, vars, pvars, cvars>>

ConnInit ==
  /\ request \in {"cat", "put", "copy"}
  /\ Init /\ PutInit /\ CopyInit
  /\ request # "put" => kind = "plain" /\ ~inPlace

Cat == request = "cat" /\ Next /\ UNCHANGED <<request, pvars, cvars>>
PutStep == request = "put" /\ PutNext /\ UNCHANGED <<request, vars, cvars>>
CopyStep == request = "copy" /\ CopyNext /\ UNCHANGED <<request, vars, pvars>>

ConnSpec == ConnInit /\ [][Cat \/ PutStep \/ CopyStep]_allVars

\* The goroutine of the connection and those of the handler are scheduled, and
\* the stores answer; the client of a put ends its stream sooner or later, a
\* store need not fail.
FairConnSpec ==
  /\ ConnSpec
  /\ WF_vars(request = "cat" /\ Step)
  /\ WF_pvars(request = "put" /\ PutClient)
  /\ WF_pvars(request = "put" /\ Receiver)
  /\ WF_pvars(request = "put" /\ PutWork)
  /\ WF_cvars(request = "copy" /\ CopyWork)

-----------------------------------------------------------------------------

ConnTypeOK == TypeOK /\ PutTypeOK /\ CopyTypeOK

(* Every cat ends: the retries of a Read are limited, and every other Read *)
(* makes progress.                                                         *)
CatEnds == request = "cat" ~> pc # "reading"

(* Every put ends, and so does its receiver goroutine: neither is left     *)
(* waiting for the other at the pipe, whoever fails first.                 *)
PutEnds == request = "put" ~> PutOver
=============================================================================
