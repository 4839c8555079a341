------------------------------ MODULE AtomicPut ------------------------------
(***************************************************************************)
(* What put promises.  Into S3 the object appears at once, when the client *)
(* has ended its stream, and holds everything it sent; of a stream that    *)
(* was cut it holds what came before the cut.  A file is written in place  *)
(* and is a beginning of what was sent, also after a failure.  The client  *)
(* is told that all is well only when everything it sent is stored.        *)
(***************************************************************************)
EXTENDS Integers

CONSTANTS NoObject

VARIABLES
  inPlace,  \* the object is written under its name
  sent,     \* messages the client has sent
  end,      \* its stream is "open", "done" or "cut"
  object,   \* messages in the object, NoObject before it exists
  reply     \* "none", "ready" or "failed"

avars == <<inPlace, sent, end, object, reply>>

Init ==
  /\ inPlace \in BOOLEAN
  /\ sent = 0 /\ end = "open" /\ object = NoObject /\ reply = "none"

Send ==
  /\ end = "open" /\ sent' = sent + 1
  /\ UNCHANGED <<inPlace, end, object, reply>>

EndOfStream ==
  /\ end = "open" /\ end' \in {"done", "cut"}
  /\ UNCHANGED <<inPlace, sent, object, reply>>

\* What an object may hold when the stream is over.
Everything(n) == n \in 0..sent /\ (end = "done" => n = sent)

\* The answer of the store may be lost.
Store ==
  /\ ~inPlace /\ end # "open" /\ object = NoObject /\ reply = "none"
  /\ Everything(object')
  /\ reply' \in {"none", "failed"}
  /\ UNCHANGED <<inPlace, sent, end>>

Write ==
  /\ inPlace /\ reply = "none"
  /\ object' = IF object = NoObject THEN 0 ELSE object + 1
  /\ object' <= sent
  /\ UNCHANGED <<inPlace, sent, end, reply>>

Answer ==
  /\ reply = "none"
  /\ \/ reply' = "ready" /\ end # "open" /\ Everything(object)
     \/ reply' = "failed"
  /\ UNCHANGED <<inPlace, sent, end, object>>

Spec == Init /\ [][Send \/ EndOfStream \/ Store \/ Write \/ Answer]_avars
=============================================================================
