------------------------------ MODULE Protocol ------------------------------
(***************************************************************************)
(* The two layers of a connection: the packets on the socket (Wire) and    *)
(* the dialogues of yp-client and yproxy that they make up (Requests).     *)
(* Requests takes from Wire that what is read is what was written, in      *)
(* order; the layers share no state, and a behaviour is one of either.     *)
(***************************************************************************)
EXTENDS Wire, Requests

VARIABLE layer

protoVars == <<layer, wireVars, reqVars>>

ProtoInit ==
  /\ layer \in {"packets", "requests"}
  /\ WireInit /\ ReqInit
  /\ layer = "packets" => cmd = "gool"
  /\ layer = "requests" => plan = CHOOSE p \in Plans : TRUE

PacketStep == layer = "packets" /\ WireNext /\ UNCHANGED <<layer, reqVars>>
RequestStep == layer = "requests" /\ ReqNext /\ UNCHANGED <<layer, wireVars>>

ProtoSpec == ProtoInit /\ [][PacketStep \/ RequestStep]_protoVars

\* Both processes run, and every call to the storage returns.
FairProtoSpec ==
  /\ ProtoSpec /\ WireFairness
  /\ WF_reqVars(layer = "requests" /\ Client)
  /\ WF_reqVars(layer = "requests" /\ Server)

-----------------------------------------------------------------------------

ProtoTypeOK == WireTypeOK /\ ReqTypeOK
=============================================================================
