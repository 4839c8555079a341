------------------------------- MODULE Daemon -------------------------------
(***************************************************************************)
(* What Run (pkg/core/core.go) starts and what signals do to it: the       *)
(* listeners and their handover between processes (Instance) and the debug *)
(* server (DebugServer).  Neither reads the state of the other, so a       *)
(* behaviour is one of either.                                             *)
(***************************************************************************)
EXTENDS Instance, DebugServer

VARIABLE part

daemonVars == <<part, instVars, dbgVars>>

DaemonInit == part \in {"listeners", "debug"} /\ InstInit /\ DebugInit

Listeners == part = "listeners" /\ InstNext /\ UNCHANGED <<part, dbgVars>>
Debug == part = "debug" /\ DebugNext /\ UNCHANGED <<part, instVars>>

DaemonSpec == DaemonInit /\ [][Listeners \/ Debug]_daemonVars

\* The goroutines of a process run; every connection comes to its end, time
\* passes, and a request to the debug server is answered.
FairDaemonSpec ==
  /\ DaemonSpec
  /\ \A i \in Inst :
       /\ WF_instVars(part = "listeners" /\ RunStep(i))
       /\ WF_instVars(part = "listeners" /\ SignalStep(i))
  /\ \A c \in Link : WF_instVars(part = "listeners" /\ LinkStep(c))
  /\ WF_dbgVars(part = "debug" /\ (Receive \/ ServeFor))
  /\ WF_dbgVars(part = "debug" /\ Timers)
  /\ WF_dbgVars(part = "debug" /\ Respond)

-----------------------------------------------------------------------------

DaemonTypeOK == InstTypeOK /\ DebugTypeOK
=============================================================================
