-------------------------------- MODULE Wire --------------------------------
(***************************************************************************)
(* One direction of a connection: messages encoded into a stream of bytes  *)
(* by one side, and ReadPacket (pkg/io/proto_reader.go) taking them out of *)
(* it on the other.  The socket hands over any part of what has been       *)
(* written, and the writer may die anywhere in a message.                  *)
(***************************************************************************)
EXTENDS Message

CONSTANTS
  Plans,      \* the sequences of messages the writer may be about to send
  MaxMsgLen   \* maxMsgLen, the longest packet the reader takes

\* What is sent are messages, and the length of a whole one is a number that
\* can be put in front of it.
ASSUME WireAssumption ==
  /\ MaxMsgLen \in Uint /\ 2 * W <= MaxMsgLen
  /\ \A p \in Plans : p \in Seq(Messages) /\ \A i \in 1..Len(p) : Len(Body(p[i])) + W \in Uint

VARIABLES
  plan,     \* what the writer sends
  sent,     \* how many of them it has written
  wire,     \* bytes written and not yet read
  open,     \* whether the writer's end is open
  pc,       \* where ReadPacket is: reading the length, the body, or gone
  dataLen,  \* the number of bytes ReadFull is to fill
  buf,      \* those it has
  got       \* the packets read

wireVars == <<plan, sent, wire, open, pc, dataLen, buf, got>>

WireTypeOK ==
  /\ sent \in 0..Len(plan)
  /\ \A i \in 1..Len(wire) : wire[i] \in 0..255
  /\ open \in BOOLEAN
  /\ pc \in {"length", "body", "failed"}
  /\ dataLen \in 1..(MaxMsgLen - W)
  /\ Len(buf) <= dataLen
  /\ Len(got) <= Len(plan)

WireInit ==
  /\ plan \in Plans
  /\ sent = 0 /\ wire = << >> /\ open = TRUE
  /\ pc = "length" /\ dataLen = W /\ buf = << >> /\ got = << >>

\* conn.Write(msg.Encode())
Send ==
  /\ open /\ sent < Len(plan)
  /\ wire' = wire \o Encode(plan[sent + 1])
  /\ sent' = sent + 1
  /\ UNCHANGED <<plan, open, pc, dataLen, buf, got>>

\* The writer closes, or dies with part of a message written.
Close ==
  /\ open /\ open' = FALSE
  /\ \/ wire' = wire
     \/ /\ sent < Len(plan)
        /\ LET frame == Encode(plan[sent + 1])
           IN \E k \in 1..(Len(frame) - 1) : wire' = wire \o SubSeq(frame, 1, k)
  /\ UNCHANGED <<plan, sent, pc, dataLen, buf, got>>

\* A read inside io.ReadFull.
ReadSome ==
  /\ pc # "failed" /\ Len(buf) < dataLen /\ wire # << >>
  /\ \E k \in 1..Len(wire) :
       /\ k <= dataLen - Len(buf)
       /\ buf' = buf \o SubSeq(wire, 1, k)
       /\ wire' = SubSeq(wire, k + 1, Len(wire))
  /\ UNCHANGED <<plan, sent, open, pc, dataLen, got>>

\* EOF before ReadFull is done.
ReadFails ==
  /\ pc # "failed" /\ Len(buf) < dataLen /\ wire = << >> /\ ~open
  /\ pc' = "failed"
  /\ UNCHANGED <<plan, sent, wire, open, dataLen, buf, got>>

\* Faulty variants: the limit one too low; the length not counting itself.
LengthLow ==
  /\ pc = "length" /\ Len(buf) = W
  /\ LET n == Uint64(buf)
     IN IF n >= MaxMsgLen \/ n <= W
        THEN pc' = "failed" /\ UNCHANGED <<dataLen, buf>>
        ELSE pc' = "body" /\ dataLen' = n - W /\ buf' = << >>
  /\ UNCHANGED <<plan, sent, wire, open, got>>

LengthOfRest ==
  /\ pc = "length" /\ Len(buf) = W
  /\ LET n == Uint64(buf)
     IN IF n > MaxMsgLen \/ n <= W
        THEN pc' = "failed" /\ UNCHANGED <<dataLen, buf>>
        ELSE pc' = "body" /\ dataLen' = n /\ buf' = << >>
  /\ UNCHANGED <<plan, sent, wire, open, got>>

\* The length is complete: too big, empty, or the body is read next.
LengthRead ==
  /\ pc = "length" /\ Len(buf) = W
  /\ LET n == Uint64(buf)
     IN IF n > MaxMsgLen \/ n <= W
        THEN pc' = "failed" /\ UNCHANGED <<dataLen, buf>>
        ELSE pc' = "body" /\ dataLen' = n - W /\ buf' = << >>
  /\ UNCHANGED <<plan, sent, wire, open, got>>

\* ReadPacket returns and the next call begins.
BodyRead ==
  /\ pc = "body" /\ Len(buf) = dataLen
  /\ got' = Append(got, buf)
  /\ pc' = "length" /\ dataLen' = W /\ buf' = << >>
  /\ UNCHANGED <<plan, sent, wire, open>>

Reader == ReadSome \/ ReadFails \/ LengthRead \/ BodyRead
WireNext == Send \/ Close \/ Reader

WireSpec == WireInit /\ [][WireNext]_wireVars
\* The reader's goroutine runs while the socket has something for it.
WireFairness == WF_wireVars(Reader)

-----------------------------------------------------------------------------

\* What Decode makes of a packet ReadPacket returns is the message that was
\* encoded at that place, field by field, however the bytes arrive and
\* whatever is written behind it; for the two types whose Encode and Decode
\* disagree about the layout, it is what that Encode wrote.
Faithful ==
  \A i \in DOMAIN got :
    /\ i <= sent /\ got[i] = Body(plan[i])
    /\ plan[i].type \notin Unpaired => Decode(got[i]) = Meaning(plan[i])

\* When the reader gives up (the writer is gone, or a packet is over
\* maxMsgLen) it has delivered everything that was written whole before that
\* point, and nothing of a message that was cut.
CutClean ==
  pc = "failed" =>
    \A i \in 1..Len(plan) :
      i <= Len(got) <=> i <= sent /\ \A j \in 1..i : Len(Encode(plan[j])) <= MaxMsgLen

\* So the stream is a channel of whole packets: each conn.Write puts one in,
\* ReadPacket takes them out in order, and its error comes behind the last one
\* or at one over maxMsgLen, never between two that were written.
Fits(m) == Len(Encode(m)) <= MaxMsgLen
AsChannel == INSTANCE Channel WITH
  Packet <- Body, script <- plan, written <- sent, read <- got, up <- open,
  ended <- pc = "failed"
ImplementsChannel == AsChannel!Spec

\* A message written whole, with none too big before it, is delivered: the
\* reader never waits for bytes that the length did not announce.
Arrives ==
  \A i \in 1..2 :
    (/\ i <= sent
     /\ \A j \in 1..i : Len(Encode(plan[j])) <= MaxMsgLen) ~> Len(got) >= i
=============================================================================
