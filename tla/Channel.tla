------------------------------ MODULE Channel ------------------------------
(***************************************************************************)
(* What a connection gives the two processes that talk over it, and what   *)
(* Requests takes for granted: a message is handed over whole, in its      *)
(* turn, none is lost, repeated or made up, and the reader is told of the  *)
(* end only when it has them all.  A message that is too big ends the      *)
(* connection for the reader.                                              *)
(***************************************************************************)
EXTENDS Naturals, Sequences

CONSTANTS
  Packet(_),  \* what the reader is given of a message
  Fits(_)     \* whether it takes one of its size

VARIABLES
  script,   \* what the writer has to say
  written,  \* how many of them it has written
  read,     \* what the reader was given
  up,       \* the writer's end is open
  ended     \* the reader was told of the end

cvars == <<script, written, read, up, ended>>

Init == written = 0 /\ read = << >> /\ up = TRUE /\ ended = FALSE

Write ==
  /\ up /\ written < Len(script)
  /\ written' = written + 1
  /\ UNCHANGED <<script, read, up, ended>>

HangUp ==
  /\ up /\ up' = FALSE
  /\ UNCHANGED <<script, written, read, ended>>

Read ==
  /\ ~ended /\ Len(read) < written
  /\ Fits(script[Len(read) + 1])
  /\ read' = Append(read, Packet(script[Len(read) + 1]))
  /\ UNCHANGED <<script, written, up, ended>>

End ==
  /\ ~ended /\ ended' = TRUE
  /\ \/ Len(read) = written /\ ~up
     \/ Len(read) < written /\ ~Fits(script[Len(read) + 1])
  /\ UNCHANGED <<script, written, read, up>>

Spec == Init /\ [][Write \/ HangUp \/ Read \/ End]_cvars
=============================================================================
