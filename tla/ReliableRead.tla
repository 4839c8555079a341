---------------------------- MODULE ReliableRead ----------------------------
(***************************************************************************)
(* What cat promises, whatever happens to the connections to the store: a  *)
(* client receives the bytes First..(Size - 1) of an object, each once and *)
(* in order, in pieces; the end it sees is "complete" only behind the last *)
(* of them.                                                                *)
(***************************************************************************)
EXTENDS Integers

CONSTANTS First, Size

VARIABLES
  out,    \* the bytes delivered
  state   \* "open", or how the transfer ended

rvars == <<out, state>>

Init == out = {} /\ state = "open"

\* Some more bytes, the end of the transfer, or both.
Deliver ==
  /\ state = "open"
  /\ \E k \in First..Size : out' = First..(k - 1)
  /\ out \subseteq out'
  /\ state' \in {"open", "complete"}
  /\ state' = "complete" => out' = First..(Size - 1)

Fail ==
  /\ state = "open" /\ state' = "failed"
  /\ UNCHANGED out

Spec == Init /\ [][Deliver \/ Fail]_rvars
=============================================================================
