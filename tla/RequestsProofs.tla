--------------------------- MODULE RequestsProofs ---------------------------
(***************************************************************************)
(* Proofs about the dialogues of yp-client and yproxy, for sockets of any  *)
(* size, any amount of data and any number of objects listed.              *)
(***************************************************************************)
EXTENDS Requests, SequenceTheorems, TLAPS

PacketType ==
  Other \cup {"CatV2", "CopyV2", "PutV3", "List", "Delete", "Delete2", "Untrashify", "CopyData",
             "CopyDone", "ReadyForQuery", "Error", "CopyComplete", "PutComplete", "ObjectMeta"}
Packet == [type : PacketType, n : Nat]

\* What yproxy has answered, and what it is about to answer.
Said == (seen \o toClient) \o out

\* Before yproxy has the outcome of the request.
Early == {"read", "accept", "take", "work", "motion"}

ChannelInv ==
  /\ cmd \in Command \cup Other
  /\ unsent \in Seq(Packet) /\ toServer \in Seq(Packet)
  /\ seen \in Seq(Packet) /\ toClient \in Seq(Packet) /\ out \in Seq(Packet)
  /\ res \in Nat /\ taken \in Nat /\ result \in Nat
  /\ spc \in Early \cup {"reply", "closed"}
  /\ exit \in {"none", "ok", "error", "killed"}
  /\ spc \in Early =>
       seen = << >> /\ toClient = << >> /\ out = << >> /\ res = 0 /\ op = "none" /\ exit # "ok"

\* Which part of the request yproxy has read.
ReadInv ==
  /\ spc \in {"read", "accept"} => toServer \o unsent = Request(cmd) /\ taken = 0
  /\ spc \in {"take", "work", "motion"} => req = Request(cmd)[1].type
  /\ spc = "accept" <=> cmd = "interconnect" /\ spc \in Early
  /\ spc = "take" => req \in Puts
  /\ spc = "work" => req \in Handled
  /\ spc = "motion" => req = "Gool"

\* Only what was done is reported as done.
DoneInv == \A i \in 1..Len(Said) : Said[i] = RFQ => op = "done"

\* A put that has not stored all of the input has lost its client.
PutInv ==
  cmd = "put" =>
    /\ spc = "take" =>
         LET s == toServer \o unsent IN
         /\ Len(s) + taken = Input + 1
         /\ \A i \in 1..Len(s) : s[i].type # "CopyData" <=> i = Len(s)
    /\ op = "done" => result = Input \/ exit \in {"error", "killed"}

Chunks(n) == (n + ChunkSize - 1) \div ChunkSize

\* The i-th answer to a listing that finds n objects.
ListAnswer(n, i) ==
  IF i <= Chunks(n)
  THEN [type |-> "ObjectMeta", n |-> IF i * ChunkSize <= n THEN ChunkSize ELSE n % ChunkSize]
  ELSE RFQ

\* What a list has collected after i answers to a listing of n objects.
Collected(n, i) == IF i * ChunkSize <= n THEN i * ChunkSize ELSE n

\* A list has collected what the answers it has read hold.
ListInv ==
  cmd = "list" /\ op = "done" =>
    /\ \A i \in 1..Len(Said) : Said[i] = ListAnswer(result, i)
    /\ Len(Said) <= Chunks(result) + 1
    /\ res = Collected(result, Len(seen))

RequestInv == ChannelInv /\ ReadInv /\ ReplyOrder /\ DoneInv /\ PutInv /\ ListInv /\ ExitHonest

-----------------------------------------------------------------------------
(* Sequences.                                                              *)

\* Passing the first element on does not change the whole.
LEMMA PassOn ==
  ASSUME NEW S, NEW s \in Seq(S), NEW t \in Seq(S), t # << >>
  PROVE  /\ Append(s, t[1]) \in Seq(S) /\ Tail(t) \in Seq(S)
         /\ Append(s, t[1]) \o Tail(t) = s \o t
<1>1. Len(t) \in Nat /\ Len(t) # 0 /\ Len(s) \in Nat
  BY EmptySeq, LenProperties
<1>2. t[1] \in S
  BY <1>1, ElementOfSeq
<1>3. /\ Append(s, t[1]) \in Seq(S) /\ Len(Append(s, t[1])) = Len(s) + 1
      /\ \A i \in 1..Len(s) : Append(s, t[1])[i] = s[i]
      /\ Append(s, t[1])[Len(s) + 1] = t[1]
  BY <1>1, <1>2, AppendProperties
<1>4. /\ Tail(t) \in Seq(S) /\ Len(Tail(t)) = Len(t) - 1
      /\ \A i \in 1..Len(Tail(t)) : Tail(t)[i] = t[i + 1]
  BY HeadTailProperties
<1>5. /\ s \o t \in Seq(S) /\ Len(s \o t) = Len(s) + Len(t)
      /\ \A i \in 1..Len(s) + Len(t) : (s \o t)[i] = IF i <= Len(s) THEN s[i] ELSE t[i - Len(s)]
  BY ConcatProperties
<1> DEFINE u == Append(s, t[1])
           v == Tail(t)
<1>6. /\ u \o v \in Seq(S) /\ Len(u \o v) = Len(u) + Len(v)
      /\ \A i \in 1..Len(u) + Len(v) : (u \o v)[i] = IF i <= Len(u) THEN u[i] ELSE v[i - Len(u)]
  BY <1>3, <1>4, ConcatProperties
<1> HIDE DEF u, v
<1>7. ASSUME NEW i \in 1..Len(s) + Len(t) PROVE (u \o v)[i] = (s \o t)[i]
  <2>1. CASE i <= Len(s)
    BY <1>1, <1>3, <1>4, <1>5, <1>6, <2>1 DEF u, v
  <2>2. CASE i = Len(s) + 1
    <3>1. (u \o v)[i] = t[1]
      BY <1>1, <1>3, <1>4, <1>6, <2>2 DEF u, v
    <3>2. i - Len(s) = 1
      BY <1>1, <2>2
    <3> QED
      BY <1>1, <1>5, <2>2, <3>1, <3>2
  <2>3. CASE i > Len(s) + 1
    <3>1. (u \o v)[i] = v[i - (Len(s) + 1)]
      BY <1>1, <1>3, <1>4, <1>6, <2>3 DEF u, v
    <3>2. i - (Len(s) + 1) \in 1..Len(v) /\ (i - (Len(s) + 1)) + 1 = i - Len(s)
      BY <1>1, <1>4, <2>3 DEF v
    <3>3. v[i - (Len(s) + 1)] = t[i - Len(s)]
      BY <1>4, <3>2 DEF v
    <3> QED
      BY <1>1, <1>5, <2>3, <3>1, <3>3
  <2>4. i <= Len(s) \/ i = Len(s) + 1 \/ i > Len(s) + 1
    BY <1>1
  <2> QED
    BY Zenon, <2>1, <2>2, <2>3, <2>4
<1>8. u \o v = s \o t
  BY <1>1, <1>3, <1>4, <1>5, <1>6, <1>7, SeqEqual DEF u, v
<1> QED
  BY Zenon, <1>3, <1>4, <1>8 DEF u, v

\* Taking the first element shifts the others.
LEMMA TakeFirst ==
  ASSUME NEW S, NEW s \in Seq(S), NEW t \in Seq(S), s # << >>
  PROVE  /\ s[1] \in S /\ Tail(s) \in Seq(S)
         /\ (s \o t)[1] = s[1] /\ Len(s \o t) \in Nat
         /\ Len(Tail(s) \o t) + 1 = Len(s \o t)
         /\ \A i \in 1..Len(Tail(s) \o t) : (Tail(s) \o t)[i] = (s \o t)[i + 1]
<1>1. Len(s) \in Nat /\ Len(s) # 0 /\ Len(t) \in Nat
  BY EmptySeq, LenProperties
<1>2. s[1] \in S
  BY <1>1, ElementOfSeq
<1>3. /\ Tail(s) \in Seq(S) /\ Len(Tail(s)) = Len(s) - 1
      /\ \A i \in 1..Len(Tail(s)) : Tail(s)[i] = s[i + 1]
  BY HeadTailProperties
<1>4. /\ s \o t \in Seq(S) /\ Len(s \o t) = Len(s) + Len(t)
      /\ \A i \in 1..Len(s) + Len(t) : (s \o t)[i] = IF i <= Len(s) THEN s[i] ELSE t[i - Len(s)]
  BY ConcatProperties
<1> DEFINE v == Tail(s)
<1>5. /\ Len(v \o t) = Len(v) + Len(t)
      /\ \A i \in 1..Len(v) + Len(t) : (v \o t)[i] = IF i <= Len(v) THEN v[i] ELSE t[i - Len(v)]
  BY <1>3, ConcatProperties
<1> HIDE DEF v
<1>6. Len(v) = Len(s) - 1 /\ \A i \in 1..Len(v) : v[i] = s[i + 1]
  BY <1>3 DEF v
<1>7. ASSUME NEW i \in 1..Len(v \o t) PROVE (v \o t)[i] = (s \o t)[i + 1]
  <2>1. i \in 1..(Len(v) + Len(t)) /\ i + 1 \in 1..(Len(s) + Len(t))
    BY <1>1, <1>5, <1>6
  <2>2. CASE i <= Len(v)
    <3>1. (v \o t)[i] = s[i + 1]
      BY <1>1, <1>5, <1>6, <2>1, <2>2
    <3>2. (s \o t)[i + 1] = s[i + 1]
      BY <1>1, <1>4, <1>6, <2>1, <2>2
    <3> QED
      BY <3>1, <3>2
  <2>3. CASE i > Len(v)
    <3>1. (v \o t)[i] = t[i - Len(v)]
      BY <1>1, <1>5, <1>6, <2>1, <2>3
    <3>2. (s \o t)[i + 1] = t[(i + 1) - Len(s)]
      BY <1>1, <1>4, <1>6, <2>1, <2>3
    <3>3. i - Len(v) = (i + 1) - Len(s)
      BY <1>1, <1>6, <2>1
    <3> QED
      BY Zenon, <3>1, <3>2, <3>3
  <2>4. i <= Len(v) \/ i > Len(v)
    BY <1>1, <1>6, <2>1
  <2> QED
    BY Zenon, <2>2, <2>3, <2>4
<1>8. (s \o t)[1] = s[1]
  BY <1>1, <1>4
<1>9. Len(v \o t) + 1 = Len(s \o t) /\ Len(s \o t) \in Nat
  BY <1>1, <1>4, <1>5, <1>6
<1> QED
  BY <1>2, <1>3, <1>7, <1>8, <1>9 DEF v

Begins(s, t) ==
  s \in Seq(Packet) /\ Len(s) <= Len(t) /\ \A i \in 1..Len(s) : s[i] = t[i]

LEMMA SaidType ==
  ASSUME ChannelInv
  PROVE  /\ seen \o toClient \in Seq(Packet) /\ Said \in Seq(Packet)
         /\ Len(Said) \in Nat /\ Begins(seen \o toClient, Said) /\ Begins(seen, Said)
         /\ Begins(Said, Said)
<1>0. seen \in Seq(Packet) /\ toClient \in Seq(Packet) /\ out \in Seq(Packet)
  BY DEF ChannelInv
<1>c. \A s, t \in Seq(Packet) :
        /\ s \o t \in Seq(Packet) /\ Len(s \o t) = Len(s) + Len(t)
        /\ \A i \in 1..Len(s) + Len(t) : (s \o t)[i] = IF i <= Len(s) THEN s[i] ELSE t[i - Len(s)]
  BY ConcatProperties
<1>1. /\ Len(seen) \in Nat /\ Len(toClient) \in Nat /\ Len(out) \in Nat
  BY <1>0, LenProperties
<1> DEFINE a == seen \o toClient
<1>2. /\ a \in Seq(Packet) /\ Len(a) = Len(seen) + Len(toClient)
      /\ \A i \in 1..Len(seen) + Len(toClient) :
           a[i] = IF i <= Len(seen) THEN seen[i] ELSE toClient[i - Len(seen)]
  BY <1>0, <1>c
<1> HIDE DEF a
<1>3. /\ a \o out \in Seq(Packet) /\ Len(a \o out) = Len(a) + Len(out)
      /\ \A i \in 1..Len(a) + Len(out) : (a \o out)[i] = IF i <= Len(a) THEN a[i] ELSE out[i - Len(a)]
  BY Zenon, <1>0, <1>2, <1>c
<1>4. Said = a \o out
  BY DEF Said, a
<1>5. Begins(a, Said)
  BY <1>1, <1>2, <1>3, <1>4 DEF Begins
<1>6. Begins(seen, a)
  BY <1>0, <1>1, <1>2 DEF Begins
<1>7. Begins(seen, Said)
  <2>1. Len(seen) <= Len(Said)
    BY <1>1, <1>2, <1>3, <1>4
  <2>2. ASSUME NEW i \in 1..Len(seen) PROVE seen[i] = Said[i]
    BY <1>1, <1>2, <1>5, <1>6 DEF Begins
  <2> QED
    BY <1>0, <2>1, <2>2 DEF Begins
<1>8. Begins(Said, Said) /\ Len(Said) \in Nat
  BY <1>1, <1>2, <1>3, <1>4 DEF Begins
<1> QED
  BY <1>2, <1>3, <1>4, <1>5, <1>7, <1>8 DEF a

\* What yproxy passes on, and what the client reads, stays said.
LEMMA SaidKept ==
  ASSUME ChannelInv, Reply \/ ClientRead
  PROVE  Said' = Said
<1>0. seen \in Seq(Packet) /\ toClient \in Seq(Packet) /\ out \in Seq(Packet)
  BY DEF ChannelInv
<1>1. CASE Reply
  <2>1. /\ Append(toClient, out[1]) \in Seq(Packet) /\ Tail(out) \in Seq(Packet)
        /\ Append(toClient, out[1]) \o Tail(out) = toClient \o out
    BY ZenonT(60), <1>0, <1>1, PassOn DEF Reply
  <2>2. Said' = (seen \o Append(toClient, out[1])) \o Tail(out)
    BY <1>1 DEF Reply, Said, client
  <2>3. \A s, t, u \in Seq(Packet) : (s \o t) \o u = s \o (t \o u)
    BY SMTT(60), ConcatAssociative
  <2>4. (seen \o Append(toClient, out[1])) \o Tail(out) = seen \o (toClient \o out)
    <3> DEFINE h == Append(toClient, out[1])
               w == Tail(out)
    <3>1. h \in Seq(Packet) /\ w \in Seq(Packet) /\ h \o w = toClient \o out
      BY Zenon, <2>1
    <3> HIDE DEF h, w
    <3>2. (seen \o h) \o w = seen \o (h \o w)
      BY ZenonT(60), ZenonT(60), <1>0, <2>3, <3>1
    <3> QED
      BY Zenon, <3>1, <3>2 DEF h, w
  <2>5. seen \o (toClient \o out) = Said
    BY Zenon, <1>0, <2>3 DEF Said
  <2> QED
    BY Zenon, <2>2, <2>4, <2>5
<1>2. CASE ClientRead
  <2>1. Append(seen, toClient[1]) \o Tail(toClient) = seen \o toClient
    BY ZenonT(60), <1>0, <1>2, PassOn DEF ClientRead
  <2> QED
    BY Zenon, <1>2, <2>1 DEF ClientRead, Said
<1> QED
  BY <1>1, <1>2

LEMMA SaidCut ==
  ASSUME ChannelInv, UNCHANGED <<seen, toClient>>, out' = << >>
  PROVE  Begins(Said', Said)
<1>1. Said' = seen \o toClient
  BY SaidType, ConcatEmptySeq DEF Said
<1> QED
  BY <1>1, SaidType

-----------------------------------------------------------------------------
(* The answers of the handlers.                                            *)

LEMMA FunctionIsSeq ==
  ASSUME NEW S, NEW k \in Nat, NEW f \in [1..k -> S]
  PROVE  f \in Seq(S) /\ Len(f) = k
<1>1. f \in Seq(S)
  BY SeqDef
<1>2. Len(f) \in Nat /\ DOMAIN f = 1..Len(f)
  BY <1>1, LenProperties
<1>3. 1..Len(f) = 1..k
  BY <1>2
<1>4. Len(f) = k
  <2>1. CASE Len(f) > k
    <3>1. Len(f) \in 1..Len(f) /\ Len(f) \notin 1..k
      BY <1>2, <2>1
    <3> QED
      BY <1>3, <3>1
  <2>2. CASE Len(f) < k
    <3>1. k \in 1..k /\ k \notin 1..Len(f)
      BY <1>2, <2>2
    <3> QED
      BY <1>3, <3>1
  <2> QED
    BY <1>2, <2>1, <2>2
<1> QED
  BY <1>1, <1>4

\* ReplyOrder of a sequence of answers.
Ordered(a) ==
  \A i \in 1..(Len(a) - 1) : a[i] # RFQ /\ (a[i] = Error => a[i + 1] = Error)

\* Answers that tell the outcome.
Honest(o) ==
  /\ o.op \in {"done", "failed"} /\ o.result \in Nat /\ o.answers \in Seq(Packet)
  /\ Ordered(o.answers)
  /\ \A i \in 1..Len(o.answers) : o.answers[i] = RFQ => o.op = "done"

LEMMA PacketTypes ==
  /\ \A t \in PacketType : Msg(t) \in Packet
  /\ \A t \in PacketType : \A k \in Nat : [type |-> t, n |-> k] \in Packet
  /\ RFQ \in Packet /\ Error \in Packet /\ RFQ # Error
<1>1. \A t \in PacketType : \A k \in Nat : [type |-> t, n |-> k] \in Packet
  BY DEF Packet
<1>2. \A t \in PacketType : Msg(t) \in Packet
  BY <1>1 DEF Msg
<1>3. RFQ \in Packet /\ Error \in Packet
  BY <1>2 DEF RFQ, Error, PacketType
<1>4. RFQ # Error
  BY DEF RFQ, Error, Msg
<1> QED
  BY <1>1, <1>2, <1>3, <1>4

\* A sequence of packets of the same type, ReadyForQuery not among them.
LEMMA SamePackets ==
  ASSUME NEW k \in Nat, NEW m \in Packet, m # RFQ, NEW f, f = [i \in 1..k |-> m]
  PROVE  /\ f \in Seq(Packet) /\ Ordered(f)
         /\ \A i \in 1..Len(f) : f[i] # RFQ
<1>1. f \in [1..k -> Packet]
  OBVIOUS
<1>2. f \in Seq(Packet) /\ Len(f) = k
  BY <1>1, FunctionIsSeq
<1>3. \A i \in 1..k : f[i] = m
  OBVIOUS
<1>4. Ordered(f)
  <2> SUFFICES ASSUME NEW i \in 1..(Len(f) - 1)
               PROVE  f[i] # RFQ /\ (f[i] = Error => f[i + 1] = Error)
    BY DEF Ordered
  <2>1. i \in 1..k /\ i + 1 \in 1..k
    BY <1>2
  <2> QED
    BY <1>3, <2>1
<1> QED
  BY <1>2, <1>3, <1>4

\* ReadyForQuery behind packets that are no errors.
LEMMA ReadyLast ==
  ASSUME NEW s \in Seq(Packet), \A i \in 1..Len(s) : s[i] # RFQ /\ s[i] # Error
  PROVE  /\ s \o <<RFQ>> \in Seq(Packet) /\ Ordered(s \o <<RFQ>>)
         /\ Len(s \o <<RFQ>>) = Len(s) + 1
         /\ \A i \in 1..Len(s) : (s \o <<RFQ>>)[i] = s[i]
         /\ (s \o <<RFQ>>)[Len(s) + 1] = RFQ
<1>1. RFQ \in Packet
  BY PacketTypes
<1>2. <<RFQ>> \in Seq(Packet) /\ Len(<<RFQ>>) = 1 /\ <<RFQ>>[1] = RFQ
  BY <1>1
<1> DEFINE t == <<RFQ>>
<1> HIDE DEF t
<1>3. t \in Seq(Packet) /\ Len(t) = 1 /\ t[1] = RFQ
  BY <1>2 DEF t
<1>4. /\ s \o t \in Seq(Packet) /\ Len(s \o t) = Len(s) + Len(t)
      /\ \A i \in 1..Len(s) + Len(t) : (s \o t)[i] = IF i <= Len(s) THEN s[i] ELSE t[i - Len(s)]
  BY Zenon, <1>3, ConcatProperties
<1>5. Len(s) \in Nat
  BY LenProperties
<1>6. \A i \in 1..Len(s) : (s \o t)[i] = s[i]
  BY <1>3, <1>4, <1>5
<1>7. (s \o t)[Len(s) + 1] = RFQ
  <2>1. (Len(s) + 1) - Len(s) = 1 /\ Len(s) + 1 \in 1..Len(s) + Len(t) /\ ~(Len(s) + 1 <= Len(s))
    BY <1>3, <1>5
  <2>2. (s \o t)[Len(s) + 1] = t[(Len(s) + 1) - Len(s)]
    BY Zenon, <1>4, <2>1
  <2> QED
    BY <1>3, <2>1, <2>2
<1>8. Ordered(s \o t)
  <2>1. Len(s \o t) - 1 = Len(s)
    BY <1>3, <1>4, <1>5
  <2> QED
    BY <1>6, <2>1 DEF Ordered
<1> QED
  BY <1>3, <1>4, <1>6, <1>7, <1>8 DEF t

LEMMA OneAnswer ==
  ASSUME NEW m \in Packet
  PROVE  /\ <<m>> \in Seq(Packet) /\ Len(<<m>>) = 1 /\ <<m>>[1] = m /\ Ordered(<<m>>)
<1>1. <<m>> \in Seq(Packet) /\ Len(<<m>>) = 1 /\ <<m>>[1] = m
  OBVIOUS
<1> QED
  BY <1>1 DEF Ordered

\* CopyComplete or PutComplete, and ReadyForQuery.
LEMMA TwoAnswers ==
  ASSUME NEW m \in Packet, m # RFQ, m # Error
  PROVE  <<m>> \o <<RFQ>> \in Seq(Packet) /\ Ordered(<<m>> \o <<RFQ>>)
<1>1. <<m>> \in Seq(Packet) /\ Len(<<m>>) = 1 /\ <<m>>[1] = m
  BY OneAnswer
<1>2. \A i \in 1..Len(<<m>>) : <<m>>[i] # RFQ /\ <<m>>[i] # Error
  BY <1>1
<1> QED
  BY Zenon, <1>1, <1>2, ReadyLast

\* A listing is cut into chunks of ChunkSize, with the rest in the last one.
LEMMA ListAnswers ==
  ASSUME NEW n \in Nat,
         NEW c, c = [i \in 1..((n + ChunkSize - 1) \div ChunkSize) |->
                       [type |-> "ObjectMeta",
                        n |-> IF i * ChunkSize <= n THEN ChunkSize ELSE n % ChunkSize]]
  PROVE  /\ c \o <<RFQ>> \in Seq(Packet) /\ Ordered(c \o <<RFQ>>)
         /\ Chunks(n) \in Nat /\ Len(c \o <<RFQ>>) = Chunks(n) + 1
         /\ \A i \in 1..Len(c \o <<RFQ>>) : (c \o <<RFQ>>)[i] = ListAnswer(n, i)
<1> USE RequestsAssumption
<1>1. Chunks(n) \in Nat
  BY DEF Chunks
<1>2. ASSUME NEW i \in 1..Chunks(n)
      PROVE  /\ ListAnswer(n, i) \in Packet /\ ListAnswer(n, i) # RFQ /\ ListAnswer(n, i) # Error
             /\ ListAnswer(n, i) = [type |-> "ObjectMeta",
                        n |-> IF i * ChunkSize <= n THEN ChunkSize ELSE n % ChunkSize]
  <2>1. PICK k \in Nat : k = IF i * ChunkSize <= n THEN ChunkSize ELSE n % ChunkSize
    OBVIOUS
  <2>2. ListAnswer(n, i) = [type |-> "ObjectMeta", n |-> k]
    BY <1>1, <2>1 DEF ListAnswer
  <2>3. "ObjectMeta" \in PacketType
    BY DEF PacketType
  <2> QED
    BY <2>1, <2>2, <2>3, PacketTypes DEF RFQ, Error, Msg
<1>3. c \in [1..Chunks(n) -> Packet] /\ \A i \in 1..Chunks(n) : c[i] = ListAnswer(n, i)
  BY <1>2 DEF Chunks
<1>4. c \in Seq(Packet) /\ Len(c) = Chunks(n)
  BY Zenon, <1>1, <1>3, FunctionIsSeq
<1>5. \A i \in 1..Len(c) : c[i] # RFQ /\ c[i] # Error
  BY Zenon, <1>2, <1>3, <1>4
<1> DEFINE a == c \o <<RFQ>>
<1>6. /\ a \in Seq(Packet) /\ Ordered(a) /\ Len(a) = Len(c) + 1
      /\ \A i \in 1..Len(c) : a[i] = c[i]
      /\ a[Len(c) + 1] = RFQ
  BY Zenon, <1>4, <1>5, ReadyLast
<1> HIDE DEF a
<1>7. ListAnswer(n, Chunks(n) + 1) = RFQ
  BY <1>1 DEF ListAnswer
<1>8. ASSUME NEW i \in 1..Len(a) PROVE a[i] = ListAnswer(n, i)
  <2>1. i \in 1..Len(c) \/ i = Len(c) + 1
    BY SMTT(60), <1>1, <1>4, <1>6
  <2> QED
    BY Zenon, <1>3, <1>4, <1>6, <1>7, <2>1
<1> QED
  BY Zenon, <1>1, <1>4, <1>6, <1>8 DEF a

LEMMA OutcomeHonest ==
  ASSUME NEW p \in {"done", "failed"}, NEW n \in Nat, NEW a \in Seq(Packet), Ordered(a),
         p = "done" \/ \A i \in 1..Len(a) : a[i] # RFQ,
         NEW o, o = Outcome(p, n, a)
  PROVE  Honest(o)
<1>1. o.op = p /\ o.result = n /\ o.answers = a
  BY DEF Outcome
<1> QED
  BY <1>1 DEF Honest

LEMMA OutcomesHonest ==
  ASSUME NEW t \in Handled, NEW o \in Handler(t)
  PROVE  Honest(o)
<1> USE RequestsAssumption
<1>0. 0 \in Nat /\ "done" \in {"done", "failed"} /\ "failed" \in {"done", "failed"}
  OBVIOUS
<1>r. <<RFQ>> \in Seq(Packet) /\ Ordered(<<RFQ>>)
  BY PacketTypes, OneAnswer
<1>e. /\ <<Error>> \in Seq(Packet) /\ Ordered(<<Error>>)
      /\ \A i \in 1..Len(<<Error>>) : <<Error>>[i] # RFQ
  BY PacketTypes, OneAnswer
<1>n. /\ << >> \in Seq(Packet) /\ Ordered(<< >>) /\ \A i \in 1..Len(<< >>) : << >>[i] # RFQ
  BY EmptySeq DEF Ordered
<1>1. ASSUME o \in ProcessCatExtended PROVE Honest(o)
  <2>1. PICK k \in 0..Input, p \in {"done", "failed"} : o = Outcome(p, k, Data(k))
    BY <1>1 DEF ProcessCatExtended
  <2>2. [type |-> "CopyData", n |-> 1] \in Packet /\ [type |-> "CopyData", n |-> 1] # RFQ
    BY PacketTypes DEF PacketType, RFQ, Msg
  <2>3. /\ Data(k) \in Seq(Packet) /\ Ordered(Data(k)) /\ \A i \in 1..Len(Data(k)) : Data(k)[i] # RFQ
    BY <2>2, SamePackets DEF Data
  <2> QED
    BY <2>1, <2>3, OutcomeHonest
<1>2. ASSUME o \in ProcessListExtended PROVE Honest(o)
  <2>1. CASE o = Outcome("failed", 0, <<Error>>)
    BY Zenon, <1>0, <1>e, <2>1, OutcomeHonest
  <2>2. ASSUME NEW n \in 0..MaxObjects,
               o = Outcome("done", n,
                     [i \in 1..((n + ChunkSize - 1) \div ChunkSize) |->
                        [type |-> "ObjectMeta",
                         n |-> IF i * ChunkSize <= n THEN ChunkSize ELSE n % ChunkSize]]
                     \o <<RFQ>>)
        PROVE  Honest(o)
    <3>c. PICK c : c = [i \in 1..((n + ChunkSize - 1) \div ChunkSize) |->
                       [type |-> "ObjectMeta",
                        n |-> IF i * ChunkSize <= n THEN ChunkSize ELSE n % ChunkSize]]
      BY Zenon
    <3> DEFINE a == c \o <<RFQ>>
    <3>1. a \in Seq(Packet) /\ Ordered(a)
      <4>1. n \in Nat
        OBVIOUS
      <4> QED
        BY Zenon, <3>c, <4>1, ListAnswers
    <3>2. o = Outcome("done", n, a)
      BY <2>2, <3>c
    <3> HIDE DEF a
    <3> QED
      BY <1>0, <3>1, <3>2, OutcomeHonest
  <2> QED
    BY Zenon, <1>2, <2>1, <2>2 DEF ProcessListExtended
<1>3. ASSUME NEW kv \in BOOLEAN, o \in ProcessCopyExtended(kv) PROVE Honest(o)
  <2>1. Msg("CopyComplete") \in Packet /\ Msg("CopyComplete") # RFQ /\ Msg("CopyComplete") # Error
    BY PacketTypes DEF PacketType, RFQ, Error, Msg
  <2>2. << >> \o <<RFQ>> = <<RFQ>>
    BY <1>r, ConcatEmptySeq
  <2>3. \/ o = Outcome("done", 0, <<Msg("CopyComplete")>> \o <<RFQ>>)
        \/ o = Outcome("done", 0, <<RFQ>>)
        \/ o = Outcome("failed", 0, <<Error>>) \/ o = Outcome("failed", 0, << >>)
    BY Zenon, <1>3, <2>2 DEF ProcessCopyExtended
  <2> QED
    <3> DEFINE a == <<Msg("CopyComplete")>> \o <<RFQ>>
    <3>1. a \in Seq(Packet) /\ Ordered(a)
      BY <2>1, TwoAnswers
    <3> HIDE DEF a
    <3>2. CASE o = Outcome("done", 0, a)
      BY SMTT(60), <1>0, <3>1, <3>2, OutcomeHonest
    <3>3. CASE o = Outcome("done", 0, <<RFQ>>)
      BY Zenon, <1>0, <1>r, <3>3, OutcomeHonest
    <3>4. CASE o = Outcome("failed", 0, <<Error>>)
      BY Zenon, <1>0, <1>e, <3>4, OutcomeHonest
    <3>5. CASE o = Outcome("failed", 0, << >>)
      BY Zenon, <1>0, <1>n, <3>5, OutcomeHonest
    <3> QED
      BY <2>3, <3>2, <3>3, <3>4, <3>5 DEF a
<1>4. ASSUME o \in ProcessDeleteExtended \cup ProcessDelete2Extended \cup ProcessUntrashify
                     \cup ProcessDeleteObsolete
      PROVE  Honest(o)
  <2>1. \/ o = Outcome("done", 0, <<RFQ>>) \/ o = Outcome("failed", 0, <<Error>>)
        \/ o = Outcome("done", 0, << >>) \/ o = Outcome("failed", 0, << >>)
    BY <1>4 DEF ProcessDeleteExtended, ProcessDelete2Extended, ProcessUntrashify, ProcessDeleteObsolete
  <2> QED
    <3>1. CASE o = Outcome("done", 0, <<RFQ>>)
      BY Zenon, <1>0, <1>r, <3>1, OutcomeHonest
    <3>2. CASE o = Outcome("failed", 0, <<Error>>)
      BY Zenon, <1>0, <1>e, <3>2, OutcomeHonest
    <3>3. CASE o = Outcome("done", 0, << >>)
      BY Zenon, <1>0, <1>n, <3>3, OutcomeHonest
    <3>4. CASE o = Outcome("failed", 0, << >>)
      BY Zenon, <1>0, <1>n, <3>4, OutcomeHonest
    <3> QED
      BY <2>1, <3>1, <3>2, <3>3, <3>4
<1>5. ASSUME o \in ProcessCollectObsolete PROVE Honest(o)
  <2>1. PICK k \in 0..MaxObjects, p \in {"done", "failed"} : o = Outcome(p, k, [i \in 1..k |-> Error])
    BY Zenon, <1>5 DEF ProcessCollectObsolete
  <2>2. PICK f : f = [i \in 1..k |-> Error]
    BY Zenon
  <2>3. /\ f \in Seq(Packet) /\ Ordered(f) /\ \A i \in 1..Len(f) : f[i] # RFQ
    BY SMTT(60), <2>2, PacketTypes, SamePackets
  <2>4. k \in Nat
    OBVIOUS
  <2>5. o = Outcome(p, k, f)
    BY ZenonT(60), <2>1, <2>2
  <2> QED
    BY ZenonT(60), <2>3, <2>4, <2>5, OutcomeHonest
<1> QED
  BY Zenon, <1>1, <1>2, <1>3, <1>4, <1>5 DEF Handler, Handled

\* The request comes first; data and their end follow that of a put.
LEMMA PutRequest ==
  ASSUME NEW m \in Packet, NEW r, r = <<m>> \o Data(Input) \o <<Msg("CopyDone")>>
  PROVE  /\ r \in Seq(Packet) /\ r # << >> /\ r[1] = m /\ Len(r) = Input + 2
         /\ \A i \in 2..Len(r) : r[i].type # "CopyData" <=> i = Len(r)
<1> USE RequestsAssumption
<1> DEFINE d == [type |-> "CopyData", n |-> 1]
           e == Msg("CopyDone")
<1>1. d \in Packet /\ e \in Packet /\ d.type = "CopyData" /\ e.type # "CopyData"
  BY Zenon, PacketTypes DEF PacketType, Msg
<1> HIDE DEF d, e
<1>2. PICK f : f = Data(Input)
  BY SMTT(60)
<1>3. f \in [1..Input -> Packet] /\ \A i \in 1..Input : f[i] = d
  BY SMTT(60), <1>1, <1>2 DEF Data, d
<1>4. f \in Seq(Packet) /\ Len(f) = Input
  BY SMTT(60), <1>3, FunctionIsSeq
<1>c. \A s, t \in Seq(Packet) :
        /\ s \o t \in Seq(Packet) /\ Len(s \o t) = Len(s) + Len(t)
        /\ \A i \in 1..Len(s) + Len(t) : (s \o t)[i] = IF i <= Len(s) THEN s[i] ELSE t[i - Len(s)]
  BY SMTT(60), ConcatProperties
<1>5. \A x \in Packet : <<x>> \in Seq(Packet) /\ Len(<<x>>) = 1 /\ <<x>>[1] = x
  BY SMTT(60), OneAnswer
<1>6. PICK a : a = <<m>> \o f
  BY Zenon
<1>7. /\ a \in Seq(Packet) /\ Len(a) = Input + 1 /\ a[1] = m
      /\ \A i \in 2..(Input + 1) : a[i] = d
  <2>1. /\ a \in Seq(Packet) /\ Len(a) = 1 + Input
        /\ \A i \in 1..(1 + Input) : a[i] = IF i <= 1 THEN <<m>>[i] ELSE f[i - 1]
    BY SMTT(60), <1>4, <1>5, <1>6, <1>c
  <2>2. ASSUME NEW i \in 2..(Input + 1) PROVE a[i] = d
    <3>1. i - 1 \in 1..Input /\ i \in 1..(1 + Input) /\ ~(i <= 1)
      BY SMTT(60)
    <3> QED
      BY SMTT(60), <1>3, <2>1, <3>1
  <2> QED
    BY <1>5, <2>1, <2>2
<1>z. PICK z : z = <<e>>
  BY Zenon
<1>8. r = a \o z
  BY Zenon, <1>2, <1>6, <1>z DEF e
<1>9. /\ r \in Seq(Packet) /\ Len(r) = Input + 2
      /\ \A i \in 1..(Input + 2) : r[i] = IF i <= Input + 1 THEN a[i] ELSE z[i - (Input + 1)]
  <2>1. z \in Seq(Packet) /\ Len(z) = 1
    BY SMTT(60), <1>1, <1>5, <1>z
  <2>2. /\ r \in Seq(Packet) /\ Len(r) = Len(a) + Len(z)
        /\ \A i \in 1..(Len(a) + Len(z)) : r[i] = IF i <= Len(a) THEN a[i] ELSE z[i - Len(a)]
    <3>1. /\ a \o z \in Seq(Packet) /\ Len(a \o z) = Len(a) + Len(z)
          /\ \A i \in 1..(Len(a) + Len(z)) :
               (a \o z)[i] = IF i <= Len(a) THEN a[i] ELSE z[i - Len(a)]
      BY ZenonT(60), <1>7, <1>c, <2>1
    <3> QED
      BY Zenon, <1>8, <3>1
  <2>3. Len(a) + Len(z) = Input + 2
    BY SMTT(60), <1>7, <2>1
  <2> QED
    BY SMTT(60), <1>7, <2>2, <2>3
<1>10. r[1] = m /\ \A i \in 2..(Input + 1) : r[i] = d
  BY SMTT(60), <1>7, <1>9
<1>11. r[Input + 2] = e
  <2>1. /\ Input + 2 \in 1..(Input + 2) /\ ~(Input + 2 <= Input + 1)
        /\ (Input + 2) - (Input + 1) = 1
    BY SMTT(60)
  <2>2. r[Input + 2] = z[1]
    BY Zenon, <1>9, <2>1
  <2> QED
    BY Zenon, <1>1, <1>5, <1>z, <2>2
<1>12. \A i \in 2..Len(r) : i \in 2..(Input + 1) \/ i = Input + 2
  BY <1>9
<1>13. \A i \in 2..Len(r) : r[i].type # "CopyData" <=> i = Len(r)
  BY ZenonT(60), <1>1, <1>9, <1>10, <1>11, <1>12
<1>14. r # << >>
  BY <1>9, EmptySeq
<1> QED
  BY Zenon, <1>9, <1>10, <1>13, <1>14

LEMMA RequestType ==
  ASSUME NEW c \in Command \cup Other
  PROVE  /\ Request(c) \in Seq(Packet) /\ Request(c) # << >>
         /\ c = "put" => Request(c)[1].type = "PutV3"
         /\ c = "list" => Request(c)[1].type = "List"
         /\ c \in Command => Request(c)[1].type \in Handled \cup Puts \cup {"Gool"}
<1>m. \A t \in PacketType : Msg(t) \in Packet /\ Msg(t).type = t
  BY Zenon, PacketTypes DEF Msg
<1>1. ASSUME NEW t \in PacketType
      PROVE  <<Msg(t)>> \in Seq(Packet) /\ <<Msg(t)>> # << >> /\ <<Msg(t)>>[1].type = t
  BY SMTT(60), <1>m, OneAnswer
<1>2. ASSUME NEW t \in PacketType, Request(c) = <<Msg(t)>> \o Data(Input) \o <<Msg("CopyDone")>>
      PROVE  Request(c) \in Seq(Packet) /\ Request(c) # << >> /\ Request(c)[1].type = t
  <2>1. Msg(t) \in Packet /\ Msg(t).type = t
    BY Zenon, <1>m
  <2>2. Request(c) \in Seq(Packet) /\ Request(c) # << >> /\ Request(c)[1] = Msg(t)
    BY Zenon, <1>2, <2>1, PutRequest
  <2> QED
    BY Zenon, <2>1, <2>2
<1>3. <<Msg("Gool"), Msg("Gool")>> \in Seq(Packet) /\ <<Msg("Gool"), Msg("Gool")>> # << >>
  <2>1. \A x \in Packet : <<x, x>> \in Seq(Packet) /\ <<x, x>> # << >>
    OBVIOUS
  <2>2. Msg("Gool") \in Packet
    BY <1>m DEF PacketType, Other
  <2> QED
    BY <2>1, <2>2
<1>4. CASE c \in {"put", "Put", "PutV2"}
  <2>1. PICK t \in {"PutV3", "Put", "PutV2"} :
          /\ Request(c) = <<Msg(t)>> \o Data(Input) \o <<Msg("CopyDone")>>
          /\ c = "put" => t = "PutV3"
    BY Zenon, <1>4 DEF Request
  <2>2. t \in PacketType /\ t \in Puts
    BY SMTT(60), <2>1 DEF PacketType, Other, Puts
  <2> QED
    BY ZenonT(60), <1>2, <1>4, <2>1, <2>2
<1>5. CASE c = "Gool"
  BY SMTT(60), <1>3, <1>5 DEF Request, Command
<1>6. CASE c \notin {"put", "Put", "PutV2", "Gool"}
  <2>1. PICK t \in PacketType : /\ Request(c) = <<Msg(t)>>
                                /\ c = "list" => t = "List"
                                /\ c \in Command => t \in Handled \cup Puts \cup {"Gool"}
    BY ZenonT(60), <1>6 DEF Request, PacketType, Command, Other, Handled, Puts
  <2> QED
    BY SMTT(60), <1>1, <1>6, <2>1
<1> QED
  BY Zenon, <1>4, <1>5, <1>6

-----------------------------------------------------------------------------
(* The steps.                                                              *)

\* A command that exits with 0 has read ReadyForQuery, list as the last answer.
LEMMA VerdictOk ==
  ASSUME ChannelInv
  PROVE  /\ Verdict \in {"none", "ok", "error"}
         /\ Verdict = "ok" => /\ cmd # "cat" /\ Len(seen) \in Nat \ {0}
                              /\ \E i \in 1..Len(seen) : seen[i] = RFQ
                              /\ cmd = "list" => seen[Len(seen)] = RFQ
<1>0. seen \in Seq(Packet) /\ Len(seen) \in Nat /\ DOMAIN seen = 1..Len(seen)
  BY LenProperties DEF ChannelInv
<1>1. ASSUME NEW x, NEW v, v = Expect(<<x, "ReadyForQuery">>)
      PROVE  /\ v \in {"none", "ok", "error"}
             /\ v = "ok" => Len(seen) = 2 /\ seen[2] = RFQ
  <2>1. PICK w : w = [i \in DOMAIN <<x, "ReadyForQuery">> |-> Msg(<<x, "ReadyForQuery">>[i])]
    BY Zenon
  <2>2. DOMAIN w = 1..2 /\ w[2] = RFQ
    BY <2>1 DEF RFQ
  <2>3. v = IF seen = w THEN "ok" ELSE IF \E n \in 0..Len(w) : seen = SubSeq(w, 1, n) THEN "none" ELSE "error"
    BY Zenon, <1>1, <2>1 DEF Expect
  <2>4. ASSUME seen = w PROVE Len(seen) = 2
    <3>1. 1..Len(seen) = 1..2
      BY Zenon, <1>0, <2>2, <2>4
    <3>2. 2 \in 1..2 /\ 3 \notin 1..2
      OBVIOUS
    <3>3. 2 \in 1..Len(seen) /\ 3 \notin 1..Len(seen)
      BY SMTT(60), <3>1, <3>2
    <3> QED
      BY <1>0, <3>3
  <2> QED
    BY <2>2, <2>3, <2>4
<1>2. ASSUME NEW v, v = Expect(<<"ReadyForQuery">>)
      PROVE  /\ v \in {"none", "ok", "error"}
             /\ v = "ok" => Len(seen) = 1 /\ seen[1] = RFQ
  <2>1. PICK w : w = [i \in DOMAIN <<"ReadyForQuery">> |-> Msg(<<"ReadyForQuery">>[i])]
    BY Zenon
  <2>2. DOMAIN w = 1..1 /\ w[1] = RFQ
    BY <2>1 DEF RFQ
  <2>3. v = IF seen = w THEN "ok" ELSE IF \E n \in 0..Len(w) : seen = SubSeq(w, 1, n) THEN "none" ELSE "error"
    BY Zenon, <1>2, <2>1 DEF Expect
  <2>4. ASSUME seen = w PROVE Len(seen) = 1
    <3>1. 1..Len(seen) = 1..1
      BY ZenonT(60), <1>0, <2>2, <2>4
    <3>2. 1 \in 1..1 /\ 2 \notin 1..1
      OBVIOUS
    <3>3. 1 \in 1..Len(seen) /\ 2 \notin 1..Len(seen)
      BY <3>1, <3>2
    <3> QED
      BY <1>0, <3>3
  <2> QED
    BY SMTT(60), <2>2, <2>3, <2>4
<1>3. CASE cmd \in {"copy", "put"}
  <2>1. PICK x : Verdict = Expect(<<x, "ReadyForQuery">>)
    BY Zenon, <1>3 DEF Verdict, copyFunc, putFunc
  <2> QED
    BY <1>1, <1>3, <2>1
<1>4. CASE cmd \in {"delete", "deleteTrash", "untrash", "gool", "interconnect"}
  <2>1. Verdict = Expect(<<"ReadyForQuery">>)
    BY ZenonT(60), <1>4 DEF Verdict, sendDeleteChunkRequest, sendDeleteTrashRequest, untrashifyFunc, goolFunc
  <2> QED
    BY SMTT(60), <1>2, <1>4, <2>1
<1>5. CASE cmd = "list"
  <2>1. Verdict = listFunc
    BY SMTT(60), <1>5 DEF Verdict
  <2>2. seen # << >> => Len(seen) \in Nat \ {0}
    BY SMTT(60), <1>0, EmptySeq
  <2> QED
    BY SMTT(60), <1>0, <1>5, <2>1, <2>2 DEF listFunc
<1>6. CASE cmd \notin {"copy", "put", "list", "delete", "deleteTrash", "untrash", "gool", "interconnect"}
  BY SMTT(60), <1>6 DEF Verdict, catFunc
<1> QED
  BY <1>3, <1>4, <1>5, <1>6

\* The answers of a put.
LEMMA PutAnswersOrdered == PutAnswers \in Seq(Packet) /\ Ordered(PutAnswers)
<1>1. Msg("PutComplete") \in Packet /\ Msg("PutComplete") # RFQ /\ Msg("PutComplete") # Error
  BY PacketTypes DEF PacketType, RFQ, Error, Msg
<1>2. CASE req = "PutV3"
  <2>1. PutAnswers = <<Msg("PutComplete")>> \o <<RFQ>>
    BY <1>2 DEF PutAnswers
  <2> QED
    BY ZenonT(60), <1>1, <2>1, TwoAnswers
<1>3. CASE req # "PutV3"
  <2>1. <<RFQ>> \in Seq(Packet) /\ Ordered(<<RFQ>>)
    BY SMTT(60), PacketTypes, OneAnswer
  <2>2. PutAnswers = << >> \o <<RFQ>>
    BY SMTT(60), <1>3 DEF PutAnswers
  <2>3. PutAnswers = <<RFQ>>
    BY SMTT(60), <2>1, <2>2, ConcatEmptySeq
  <2> QED
    BY SMTT(60), <2>1, <2>3
<1> QED
  BY SMTT(60), <1>2, <1>3

LEMMA ChannelStep ==
  ASSUME ChannelInv, ReadInv, [ReqNext]_reqVars
  PROVE  ChannelInv'
<1>0. << >> \in Seq(Packet) /\ <<RFQ>> \in Seq(Packet) /\ <<Error>> \in Seq(Packet)
  BY SMTT(60), PacketTypes, EmptySeq, OneAnswer
<1>p. \A s, t \in Seq(Packet) :
        t # << >> => Append(s, t[1]) \in Seq(Packet) /\ Tail(t) \in Seq(Packet) /\ t[1] \in Packet
  <2>1. \A s, t \in Seq(Packet) : t # << >> =>
          Append(s, t[1]) \in Seq(Packet) /\ Tail(t) \in Seq(Packet)
    BY SMTT(60), PassOn
  <2>2. \A t \in Seq(Packet) : t # << >> => t[1] \in Packet
    BY SMTT(60), TakeFirst, EmptySeq
  <2> QED
    BY SMTT(60), <2>1, <2>2
<1>1. CASE UNCHANGED reqVars
  BY Zenon, <1>1 DEF ChannelInv, reqVars
<1>2. CASE ClientWrite
  <2>1. Append(toServer, unsent[1]) \in Seq(Packet) /\ Tail(unsent) \in Seq(Packet)
    BY Zenon, <1>2, <1>p DEF ChannelInv, ClientWrite
  <2> QED
    BY SMTT(60), <1>2, <2>1 DEF ChannelInv, ClientWrite
<1>3. CASE ClientWriteFails \/ ClientDies
  BY SMTT(60), <1>3 DEF ChannelInv, ClientWriteFails, ClientDies, ServerOpen
<1>4. CASE ClientRead
  <2>1. Append(seen, toClient[1]) \in Seq(Packet) /\ Tail(toClient) \in Seq(Packet) /\ toClient[1] \in Packet
    BY <1>4, <1>p DEF ChannelInv, ClientRead
  <2>2. toClient[1].n \in Nat /\ spc \notin Early
    BY SMTT(60), <1>4, <2>1 DEF Packet, ChannelInv, ClientRead
  <2> QED
    BY SMTT(60), <1>4, <2>1, <2>2 DEF ChannelInv, ClientRead
<1>5. CASE ClientReadFails
  BY Zenon, <1>5 DEF ChannelInv, ClientReadFails, ServerOpen, Early
<1>6. CASE ClientReturns
  <2>1. Verdict = "ok" => spc \notin Early
    BY VerdictOk, EmptySeq DEF ChannelInv
  <2> QED
    BY SMTT(60), <1>6, <2>1, VerdictOk DEF ChannelInv, ClientReturns
<1>7. CASE ProcConn
  <2>1. Tail(toServer) \in Seq(Packet)
    BY <1>7, <1>p DEF ChannelInv, ProcConn
  <2>2. spc' \in {"take", "motion", "work", "reply"} /\ out' \in {<<Error>>, << >>}
    BY <1>7 DEF ProcConn
  <2>3. spc' \in Early => out' = << >>
    BY <1>7 DEF ProcConn, Early
  <2> QED
    BY <1>0, <1>7, <2>1, <2>2, <2>3 DEF ChannelInv, ProcConn, Early, client
<1>8. CASE ReadRequestFails
  BY Zenon, <1>0, <1>8 DEF ChannelInv, ReadRequestFails, Early, client
<1>9. CASE Interconnect
  <2>1. toServer' \in Seq(Packet) /\ out' \in Seq(Packet)
    BY <1>0, <1>9, <1>p DEF ChannelInv, Interconnect
  <2> QED
    BY <1>9, <2>1 DEF ChannelInv, Interconnect, Early, client
<1>10. CASE ProcMotion
  <2>1. Tail(toServer) \in Seq(Packet)
    BY <1>10, <1>p DEF ChannelInv, ProcMotion
  <2> QED
    BY <1>0, <1>10, <2>1 DEF ChannelInv, ProcMotion, Early, client
<1>11. CASE Handle
  <2>1. PICK o \in Handler(req) : op' = o.op /\ result' = o.result /\ out' = o.answers
    BY <1>11 DEF Handle
  <2>2. req \in Handled
    BY <1>11 DEF Handle, ReadInv
  <2>3. result' \in Nat /\ out' \in Seq(Packet)
    BY Zenon, <2>1, <2>2, OutcomesHonest DEF Honest
  <2> QED
    BY <1>11, <2>3 DEF ChannelInv, Handle, Early, client
<1>12. CASE PutData
  <2>1. Tail(toServer) \in Seq(Packet)
    BY Zenon, <1>12, <1>p DEF ChannelInv, PutData
  <2> QED
    BY <1>12, <2>1 DEF ChannelInv, PutData, client
<1>13. CASE PutEnds
  <2>1. toServer' \in Seq(Packet)
    BY Zenon, <1>13, <1>p DEF ChannelInv, PutEnds
  <2> QED
    BY <1>13, <2>1, PutAnswersOrdered DEF ChannelInv, PutEnds, Early, client
<1>14. CASE PutFails
  BY <1>14 DEF ChannelInv, PutFails, Early, client
<1>15. CASE Reply
  <2>1. Append(toClient, out[1]) \in Seq(Packet) /\ Tail(out) \in Seq(Packet)
    BY <1>15, <1>p DEF ChannelInv, Reply
  <2> QED
    BY <1>15, <2>1 DEF ChannelInv, Reply, Early, client
<1>16. CASE Return \/ ServerDies
  BY Zenon, <1>0, <1>16 DEF ChannelInv, Return, ServerDies, Early, client
<1> QED
  BY Zenon, <1>1, <1>2, <1>3, <1>4, <1>5, <1>6, <1>7, <1>8, <1>9, <1>10, <1>11, <1>12, <1>13, <1>14,
     <1>15, <1>16 DEF ReqNext, Client, Server

LEMMA ReadStep ==
  ASSUME ChannelInv, ReadInv, [ReqNext]_reqVars
  PROVE  ReadInv'
<1>0. toServer \in Seq(Packet) /\ unsent \in Seq(Packet)
  BY Zenon DEF ChannelInv
<1>1. CASE ClientWrite
  <2>1. toServer' \o unsent' = toServer \o unsent
    BY <1>0, <1>1, PassOn DEF ClientWrite
  <2> QED
    BY Zenon, <1>1, <2>1 DEF ReadInv, ClientWrite, Early
<1>2. CASE ProcConn
  <2>1. (toServer \o unsent)[1] = toServer[1]
    BY <1>0, <1>2, TakeFirst DEF ProcConn
  <2>2. req' = Request(cmd)[1].type
    BY <1>2, <2>1 DEF ProcConn, ReadInv
  <2>3. /\ spc' \in {"take", "motion", "work", "reply"} /\ spc = "read" /\ cmd' = cmd
        /\ spc' = "take" => req' \in Puts
        /\ spc' = "work" => req' \in Handled
        /\ spc' = "motion" => req' = "Gool"
    BY <1>2 DEF ProcConn, client
  <2> QED
    BY <2>2, <2>3 DEF ReadInv, Early
<1>3. CASE \/ ReadRequestFails \/ Interconnect \/ ProcMotion \/ Handle \/ PutEnds \/ PutFails
           \/ Return \/ ServerDies
  <2>1. spc' \in {"reply", "closed"} /\ cmd' = cmd
    BY Zenon, <1>3 DEF ReadRequestFails, Interconnect, ProcMotion, Handle, PutEnds, PutFails,
                Return, ServerDies, client
  <2> QED
    BY Zenon, <2>1 DEF ReadInv, Early
<1>4. CASE PutData
  BY <1>4 DEF ReadInv, PutData, client, Early
<1>5. CASE \/ UNCHANGED reqVars \/ ClientWriteFails \/ ClientRead \/ ClientReadFails
           \/ ClientReturns \/ ClientDies \/ Reply
  <2>1. UNCHANGED <<cmd, spc, toServer, unsent, req, taken>>
    BY <1>5 DEF reqVars, ClientWriteFails, ClientRead, ClientReadFails, ClientReturns, ClientDies,
                Reply, client
  <2> QED
    BY Zenon, <2>1 DEF ReadInv
<1> QED
  BY <1>1, <1>2, <1>3, <1>4, <1>5 DEF ReqNext, Client, Server

\* A step either leaves what has been said as it is, up to a loss of its end,
\* or says the outcome.
Keeps == UNCHANGED <<op, result>> /\ Begins(Said', Said)
Answers ==
  /\ spc \in Early /\ spc' \notin Early
  /\ Said' = out' /\ Ordered(out') /\ \A i \in 1..Len(out') : out'[i] = RFQ => op' = "done"

LEMMA SaidMoves ==
  ASSUME ChannelInv, ReadInv, [ReqNext]_reqVars
  PROVE  Keeps \/ Answers
<1>1. CASE Reply \/ ClientRead
  BY Zenon, <1>1, SaidKept, SaidType DEF Keeps, Reply, ClientRead
<1>2. CASE \/ UNCHANGED reqVars \/ ClientWrite \/ ClientWriteFails \/ ClientReadFails
           \/ ClientReturns \/ ClientDies \/ PutData
  <2>1. UNCHANGED <<seen, toClient, out, op, result>>
    BY <1>2 DEF reqVars, ClientWrite, ClientWriteFails, ClientReadFails, ClientReturns,
                ClientDies, PutData, client
  <2>2. Said' = Said
    BY <2>1 DEF Said
  <2> QED
    BY SMTT(60), <2>1, <2>2, SaidType DEF Keeps
<1>3. CASE Return \/ ServerDies
  <2>1. UNCHANGED <<seen, toClient, op, result>> /\ out' = << >>
    BY <1>3 DEF Return, ServerDies, client
  <2> QED
    BY <2>1, SaidCut DEF Keeps
<1>4. ASSUME spc \in Early, UNCHANGED <<seen, toClient>>, out' \in Seq(Packet)
      PROVE  Said' = out'
  <2>1. << >> \o << >> = << >> /\ << >> \o out' = out'
    BY Zenon, <1>4, EmptySeq, ConcatEmptySeq
  <2> QED
    BY <1>4, <2>1 DEF Said, ChannelInv
<1>e. /\ << >> \in Seq(Packet) /\ <<Error>> \in Seq(Packet) /\ <<RFQ>> \in Seq(Packet)
      /\ Ordered(<< >>) /\ Ordered(<<Error>>) /\ Ordered(<<RFQ>>)
      /\ \A i \in 1..Len(<< >>) : << >>[i] # RFQ
      /\ \A i \in 1..Len(<<Error>>) : <<Error>>[i] # RFQ
  BY PacketTypes, OneAnswer, EmptySeq DEF Ordered
<1>5. CASE ProcConn /\ spc' # "reply"
  <2>1. UNCHANGED <<seen, toClient, op, result>> /\ out' = << >>
    BY <1>5 DEF ProcConn, client
  <2> QED
    BY <2>1, SaidCut DEF Keeps
<1>6. CASE (ProcConn /\ spc' = "reply") \/ ReadRequestFails
  <2>1. spc \in Early /\ spc' \notin Early /\ UNCHANGED <<seen, toClient>> /\ out' = <<Error>>
    BY <1>6 DEF ProcConn, ReadRequestFails, Early, client
  <2> QED
    BY <1>4, <1>e, <2>1 DEF Answers
<1>7. CASE Interconnect \/ ProcMotion
  <2>1. /\ spc \in Early /\ spc' \notin Early /\ UNCHANGED <<seen, toClient>>
        /\ \/ out' = <<Error>>
           \/ out' = <<RFQ>> /\ op' = "done"
    BY <1>7 DEF Interconnect, ProcMotion, Early, client
  <2> QED
    BY Zenon, <1>4, <1>e, <2>1 DEF Answers
<1>8. CASE Handle
  <2>1. PICK o \in Handler(req) : op' = o.op /\ result' = o.result /\ out' = o.answers
    BY <1>8 DEF Handle
  <2>2. req \in Handled
    BY <1>8 DEF Handle, ReadInv
  <2>3. /\ out' \in Seq(Packet) /\ Ordered(out')
        /\ \A i \in 1..Len(out') : out'[i] = RFQ => op' = "done"
    BY Zenon, <2>1, <2>2, OutcomesHonest DEF Honest
  <2>4. spc \in Early /\ spc' \notin Early /\ UNCHANGED <<seen, toClient>>
    BY <1>8 DEF Handle, Early, client
  <2> QED
    BY Zenon, <1>4, <2>3, <2>4 DEF Answers
<1>9. CASE PutEnds
  <2>1. spc \in Early /\ spc' \notin Early /\ UNCHANGED <<seen, toClient>> /\ out' = PutAnswers /\ op' = "done"
    BY <1>9 DEF PutEnds, Early, client
  <2> QED
    BY <1>4, <2>1, PutAnswersOrdered DEF Answers
<1>10. CASE PutFails
  <2>1. spc \in Early /\ spc' \notin Early /\ UNCHANGED <<seen, toClient>> /\ out' = << >>
    BY <1>10 DEF PutFails, Early, client, ChannelInv
  <2> QED
    BY <1>4, <1>e, <2>1 DEF Answers
<1> QED
  BY Zenon, <1>1, <1>2, <1>3, <1>5, <1>6, <1>7, <1>8, <1>9, <1>10 DEF ReqNext, Client, Server

LEMMA OrderStep ==
  ASSUME ChannelInv, ReadInv, ReplyOrder, DoneInv, [ReqNext]_reqVars
  PROVE  ReplyOrder' /\ DoneInv'
<1>1. ReplyOrder <=> Ordered(Said)
  BY Zenon DEF ReplyOrder, Ordered, Said
<1>2. ReplyOrder' <=> Ordered(Said')
  BY Zenon DEF ReplyOrder, Ordered, Said
<1>3. Len(Said) \in Nat /\ Len(Said') \in Nat
  BY SaidType, ChannelStep, LenProperties DEF ChannelInv, Said
<1>4. CASE Keeps
  <2>1. Len(Said') <= Len(Said) /\ \A i \in 1..Len(Said') : Said'[i] = Said[i]
    BY <1>4 DEF Keeps, Begins
  <2>2. Ordered(Said')
    BY <1>1, <1>3, <2>1 DEF Ordered
  <2>3. DoneInv'
    BY <1>3, <1>4, <2>1 DEF DoneInv, Keeps
  <2> QED
    BY <1>2, <2>2, <2>3
<1>5. CASE Answers
  BY <1>2, <1>5 DEF Answers, DoneInv
<1> QED
  BY <1>4, <1>5, SaidMoves

LEMMA PutStep ==
  ASSUME ChannelInv, ReadInv, PutInv, [ReqNext]_reqVars
  PROVE  PutInv'
<1> USE RequestsAssumption
<1>0. toServer \in Seq(Packet) /\ unsent \in Seq(Packet) /\ taken \in Nat
  BY DEF ChannelInv
<1> DEFINE s == toServer \o unsent
<1>1. CASE cmd' # "put"
  BY ZenonT(60), <1>1 DEF PutInv
<1>2. ASSUME cmd' = "put" PROVE cmd = "put"
  BY <1>2 DEF ReqNext, Client, Server, reqVars, client, ClientWrite, ClientWriteFails, ClientRead,
              ClientReadFails, ClientReturns, ClientDies, ProcConn, ReadRequestFails, Interconnect,
              ProcMotion, Handle, PutData, PutEnds, PutFails, Reply, Return, ServerDies
<1> SUFFICES ASSUME cmd' = "put", cmd = "put" PROVE PutInv'
  BY Zenon, <1>1, <1>2
<1>r. Request(cmd)[1].type = "PutV3"
  BY RequestType DEF ChannelInv
<1>q. spc \in {"take", "work", "motion"} => req = "PutV3" /\ spc = "take"
  BY <1>r DEF ReadInv, Handled, Puts
<1>a. spc # "accept"
  BY DEF ReadInv
<1>3. ASSUME toServer # << >>, toServer' = Tail(toServer), unsent' = unsent
      PROVE  /\ toServer[1] = s[1] /\ Len(s) \in Nat /\ Len(s') + 1 = Len(s)
             /\ \A i \in 1..Len(s') : s'[i] = s[i + 1]
  BY <1>0, <1>3, TakeFirst
<1>l. Len(s') \in Nat
  BY ChannelStep, ConcatProperties, LenProperties DEF ChannelInv
<1>4. ASSUME spc' = "take"
      PROVE  /\ Len(s') + taken' = Input + 1
             /\ \A i \in 1..Len(s') : s'[i].type # "CopyData" <=> i = Len(s')
  <2>1. CASE ProcConn
    <3>1. s = Request("put") /\ taken = 0 /\ taken' = taken
      BY <2>1 DEF ProcConn, ReadInv
    <3>2. PICK m \in Packet : Request("put") = <<m>> \o Data(Input) \o <<Msg("CopyDone")>>
      BY PacketTypes DEF Request, PacketType
    <3>3. Len(s) = Input + 2 /\ \A i \in 2..Len(s) : s[i].type # "CopyData" <=> i = Len(s)
      <4>1. /\ Len(Request("put")) = Input + 2
            /\ \A i \in 2..Len(Request("put")) :
                 Request("put")[i].type # "CopyData" <=> i = Len(Request("put"))
        BY Zenon, <3>2, PutRequest
      <4> QED
        BY Zenon, <3>1, <4>1
    <3>4. Len(s') + 1 = Len(s) /\ \A i \in 1..Len(s') : s'[i] = s[i + 1]
      BY Zenon, <1>3, <2>1 DEF ProcConn, client
    <3> HIDE DEF s
    <3>5. Len(s') = Input + 1
      BY <3>3, <3>4, <1>l, SMT
    <3> QED
      BY SMTT(60), <3>1, <3>3, <3>4, <3>5
  <2>2. CASE PutData
    <3>1. /\ Len(s) + taken = Input + 1 /\ taken' = taken + 1
          /\ \A i \in 1..Len(s) : s[i].type # "CopyData" <=> i = Len(s)
      BY <2>2 DEF PutData, PutInv
    <3>2. /\ Len(s) \in Nat /\ Len(s') + 1 = Len(s) /\ \A i \in 1..Len(s') : s'[i] = s[i + 1]
      BY <1>3, <2>2 DEF PutData, client
    <3> HIDE DEF s
    <3>3. Len(s') + taken' = Input + 1
      <4>1. PICK k \in Nat : k = Len(s')
        BY <1>l
      <4>2. PICK l \in Nat : l = Len(s)
        BY <3>2
      <4>3. k + 1 = l /\ l + taken = Input + 1
        BY Zenon, <3>1, <3>2, <4>1, <4>2
      <4>4. taken' = taken + 1 /\ taken \in Nat
        BY Zenon, <1>0, <3>1
      <4>5. k + taken' = Input + 1
        BY <4>3, <4>4
      <4> QED
        BY Zenon, <4>1, <4>5
    <3>4. ASSUME NEW i \in 1..Len(s') PROVE s'[i].type # "CopyData" <=> i = Len(s')
      <4>1. i + 1 \in 1..Len(s) /\ (i + 1 = Len(s) <=> i = Len(s'))
        BY <1>l, <3>2
      <4>2. s[i + 1].type # "CopyData" <=> i + 1 = Len(s)
        BY Zenon, <3>1, <4>1
      <4> QED
        BY Zenon, <3>2, <4>1, <4>2
    <3> QED
      BY <3>3, <3>4
  <2>3. CASE ~ProcConn /\ ~PutData
    <3>1. spc = "take" /\ taken' = taken /\ s' = s
      <4>1. CASE ClientWrite
        <5>1. s' = s
          BY ZenonT(60), <1>0, <4>1, PassOn DEF ClientWrite
        <5> QED
          BY Zenon, <1>4, <4>1, <5>1 DEF ClientWrite
      <4>2. CASE ~ClientWrite
        BY Zenon, <1>4, <2>3, <4>2
           DEF ReqNext, Client, Server, reqVars, client, ClientWriteFails, ClientRead,
               ClientReadFails, ClientReturns, ClientDies, ReadRequestFails, Interconnect,
               ProcMotion, Handle, PutEnds, PutFails, Reply, Return, ServerDies
      <4> QED
        BY Zenon, <4>1, <4>2
    <3> QED
      BY <3>1 DEF PutInv
  <2> QED
    BY Zenon, <2>1, <2>2, <2>3
<1>5. ASSUME op' = "done" PROVE result' = Input \/ exit' \in {"error", "killed"}
  <2>1. CASE PutEnds
    <3>1. /\ Len(s) + taken = Input + 1 /\ result' = taken /\ exit' = exit /\ spc = "take"
          /\ \A i \in 1..Len(s) : s[i].type # "CopyData" <=> i = Len(s)
      BY <2>1 DEF PutEnds, PutInv, client
    <3>2. CASE toServer # << >> /\ toServer[1].type # "CopyData"
      <4>1. toServer[1] = s[1] /\ Len(s) \in Nat /\ Len(s) # 0
        <5>1. Len(Tail(toServer) \o unsent) + 1 = Len(s) /\ toServer[1] = s[1] /\ Len(s) \in Nat
          BY <1>0, <3>2, TakeFirst
        <5>2. Len(s) # 0
          BY <1>0, <3>2, EmptySeq, LenProperties, ConcatProperties
        <5> QED
          BY <5>1, <5>2
      <4> HIDE DEF s
      <4>2. Len(s) = 1
        <5>1. 1 \in 1..Len(s)
          BY <4>1
        <5> QED
          BY Zenon, <3>1, <3>2, <4>1, <5>1
      <4> QED
        BY <1>0, <3>1, <4>2
    <3>3. CASE ~ClientOpen
      BY <3>1, <3>3 DEF ChannelInv, ClientOpen, Early
    <3> QED
      BY Zenon, <2>1, <3>2, <3>3 DEF PutEnds
  <2>2. CASE ~PutEnds
    <3>1. op = "done" /\ result' = result /\ (exit' = exit \/ exit = "none")
      BY ZenonT(60), <1>5, <1>a, <1>q, <2>2
         DEF ReqNext, Client, Server, reqVars, client, ClientWrite, ClientWriteFails, ClientRead,
             ClientReadFails, ClientReturns, ClientDies, ProcConn, ReadRequestFails, Interconnect,
             ProcMotion, Handle, PutData, PutFails, Reply, Return, ServerDies
    <3> QED
      BY Zenon, <3>1 DEF PutInv
  <2> QED
    BY <2>1, <2>2
<1> QED
  BY <1>4, <1>5 DEF PutInv

\* How the chunks of a listing of n objects add up.
LEMMA ChunkSums ==
  ASSUME NEW n \in Nat, NEW i \in Nat \ {0}
  PROVE  /\ Chunks(n) \in Nat
         /\ i <= Chunks(n) => (i - 1) * ChunkSize < n
         /\ i > Chunks(n) => n <= (i - 1) * ChunkSize
         /\ (i - 1) * ChunkSize < n /\ n < i * ChunkSize => n % ChunkSize = n - (i - 1) * ChunkSize
         /\ i * ChunkSize = (i - 1) * ChunkSize + ChunkSize
         /\ (i - 1) * ChunkSize \in Nat /\ i * ChunkSize \in Nat
<1> USE RequestsAssumption
<1>c. PICK c \in Nat \ {0} : c = ChunkSize
  OBVIOUS
<1> DEFINE q == (n + c - 1) \div c
           r == (n + c - 1) % c
<1>1. q \in Nat /\ r \in Nat /\ r < c /\ n + c - 1 = c * q + r
  OBVIOUS
<1>2. Chunks(n) = q
  BY <1>c DEF Chunks
<1> HIDE DEF q, r
<1>3. i * c = (i - 1) * c + c /\ (i - 1) * c \in Nat /\ i * c \in Nat
  OBVIOUS
<1>m. \A x, y \in Nat : x <= y => x * c <= y * c
  OBVIOUS
<1>q. c * q = q * c /\ q * c \in Nat
  BY <1>1
<1>4. ASSUME i <= q PROVE (i - 1) * c < n
  <2>1. i * c <= q * c
    BY <1>1, <1>4, <1>m
  <2> QED
    BY <1>1, <1>3, <1>q, <2>1
<1>5. ASSUME i > q PROVE n <= (i - 1) * c
  <2>1. q * c <= (i - 1) * c
    <3>1. i - 1 \in Nat /\ q <= i - 1
      BY <1>1, <1>5
    <3> QED
      BY <1>1, <1>m, <3>1
  <2> QED
    BY <1>1, <1>3, <1>q, <2>1
<1>6. ASSUME (i - 1) * c < n, n < i * c PROVE n % c = n - (i - 1) * c
  <2> DEFINE d == n \div c
             e == n % c
  <2>1. d \in Nat /\ e \in Nat /\ e < c /\ n = c * d + e
    OBVIOUS
  <2> HIDE DEF d, e
  <2>2. c * d = d * c /\ d * c \in Nat /\ (d + 1) * c = d * c + c
    BY <2>1
  <2>3. i - 1 \in Nat
    OBVIOUS
  <2>4. ~(d <= (i - 1) - 1)
    <3> SUFFICES ASSUME d + 1 <= i - 1 PROVE FALSE
      BY <2>1, <2>3
    <3>1. (d + 1) * c <= (i - 1) * c
      BY <1>m, <2>1, <2>3
    <3> QED
      BY <1>3, <1>6, <2>1, <2>2, <3>1
  <2>5. ~(d >= i)
    <3> SUFFICES ASSUME i <= d PROVE FALSE
      BY <2>1
    <3>1. i * c <= d * c
      BY <1>m, <2>1
    <3> QED
      BY <1>3, <1>6, <2>1, <2>2, <3>1
  <2>6. d = i - 1
    BY <2>1, <2>3, <2>4, <2>5
  <2>7. n = (i - 1) * c + e
    BY <2>1, <2>2, <2>6
  <2>8. e = n - (i - 1) * c
    BY <1>3, <2>1, <2>7
  <2> QED
    BY <2>8 DEF e
<1> QED
  BY <1>1, <1>2, <1>3, <1>4, <1>5, <1>6, <1>c

LEMMA CollectedGrows ==
  ASSUME NEW n \in Nat, NEW i \in Nat \ {0}, i <= Chunks(n) + 1
  PROVE  /\ ListAnswer(n, i).n \in Nat
         /\ Collected(n, i - 1) + ListAnswer(n, i).n = Collected(n, i)
<1> USE RequestsAssumption
<1> DEFINE a == (i - 1) * ChunkSize
           b == i * ChunkSize
<1>1. /\ i <= Chunks(n) => a < n
      /\ i > Chunks(n) => n <= a
      /\ a < n /\ n < b => n % ChunkSize = n - a
      /\ b = a + ChunkSize /\ a \in Nat /\ b \in Nat /\ Chunks(n) \in Nat
  BY ChunkSums
<1>2. Collected(n, i - 1) = IF a <= n THEN a ELSE n
  BY DEF Collected
<1>3. Collected(n, i) = IF b <= n THEN b ELSE n
  BY Zenon DEF Collected
<1>4. CASE i <= Chunks(n)
  <2>1. ListAnswer(n, i).n = IF b <= n THEN ChunkSize ELSE n % ChunkSize
    BY Zenon, <1>4 DEF ListAnswer
  <2> HIDE DEF a, b
  <2> QED
    BY <1>1, <1>2, <1>3, <1>4, <2>1
<1>5. CASE i > Chunks(n)
  <2>1. ListAnswer(n, i).n = 0
    BY <1>1, <1>5 DEF ListAnswer, RFQ, Msg
  <2> HIDE DEF a, b
  <2> QED
    BY SMTT(60), <1>1, <1>2, <1>3, <1>5, <2>1
<1> QED
  BY <1>1, <1>4, <1>5

LEMMA ListStep ==
  ASSUME ChannelInv, ReadInv, ListInv, [ReqNext]_reqVars
  PROVE  ListInv'
<1> USE RequestsAssumption
<1>0. /\ seen \in Seq(Packet) /\ toClient \in Seq(Packet) /\ Len(seen) \in Nat
      /\ result \in Nat /\ res \in Nat /\ Len(Said) \in Nat /\ Len(Said') \in Nat
  BY SaidType, ChannelStep, LenProperties DEF ChannelInv, Said
<1>1. UNCHANGED cmd
  BY Zenon DEF ReqNext, Client, Server, reqVars, client, ClientWrite, ClientWriteFails, ClientRead,
         ClientReadFails, ClientReturns, ClientDies, ProcConn, ReadRequestFails, Interconnect,
         ProcMotion, Handle, PutData, PutEnds, PutFails, Reply, Return, ServerDies
<1> SUFFICES ASSUME cmd = "list", op' = "done" PROVE ListInv'
  BY Zenon, <1>1 DEF ListInv
<1>r. Request(cmd)[1].type = "List"
  BY Zenon, RequestType DEF ChannelInv
<1>q. spc \in {"take", "work", "motion"} => req = "List" /\ spc = "work"
  BY <1>r DEF ReadInv, Handled, Puts
<1>a. spc # "accept"
  BY Zenon DEF ReadInv
<1>2. CASE Handle
  <2>1. PICK o \in Handler(req) : op' = o.op /\ result' = o.result /\ out' = o.answers
    BY <1>2 DEF Handle
  <2>2. Handler(req) = ProcessListExtended
    BY <1>2, <1>q DEF Handle, Handler
  <2>3. PICK n \in 0..MaxObjects :
          o = Outcome("done", n,
                [i \in 1..((n + ChunkSize - 1) \div ChunkSize) |->
                   [type |-> "ObjectMeta",
                    n |-> IF i * ChunkSize <= n THEN ChunkSize ELSE n % ChunkSize]]
                \o <<RFQ>>)
    <3>1. o # Outcome("failed", 0, <<Error>>)
      BY <2>1 DEF Outcome
    <3> QED
      BY Zenon, <2>2, <3>1 DEF ProcessListExtended
  <2>4. PICK c : c = [i \in 1..((n + ChunkSize - 1) \div ChunkSize) |->
                       [type |-> "ObjectMeta",
                        n |-> IF i * ChunkSize <= n THEN ChunkSize ELSE n % ChunkSize]]
    BY Zenon
  <2>5. PICK z : z = c \o <<RFQ>>
    BY Zenon
  <2>6. n \in Nat
    OBVIOUS
  <2>7. /\ z \in Seq(Packet) /\ Chunks(n) \in Nat /\ Len(z) = Chunks(n) + 1
        /\ \A i \in 1..Len(z) : z[i] = ListAnswer(n, i)
    BY ZenonT(60), <2>4, <2>5, <2>6, ListAnswers
  <2>8. o = Outcome("done", n, z)
    BY Zenon, <2>3, <2>4, <2>5
  <2>9. result' = n /\ out' = z
    BY Zenon, <2>1, <2>8 DEF Outcome
  <2>10. Said' = z /\ UNCHANGED <<seen, res>> /\ seen = << >> /\ res = 0
    <3>1. UNCHANGED <<seen, toClient, res>> /\ seen = << >> /\ toClient = << >> /\ res = 0
      BY <1>2 DEF Handle, client, ChannelInv, Early
    <3>2. << >> \o << >> = << >> /\ << >> \o z = z
      BY <2>7, EmptySeq, ConcatEmptySeq
    <3> QED
      BY Zenon, <2>9, <3>1, <3>2 DEF Said
  <2>11. Len(seen') = 0
    BY Zenon, <2>10, EmptySeq
  <2> QED
    BY <2>6, <2>7, <2>9, <2>10, <2>11 DEF ListInv, Collected
<1>3. CASE ~Handle
  <2>1. op = "done" /\ result' = result
    BY Zenon, <1>3, <1>a, <1>q
       DEF ReqNext, Client, Server, reqVars, client, ClientWrite, ClientWriteFails, ClientRead,
           ClientReadFails, ClientReturns, ClientDies, ProcConn, ReadRequestFails, Interconnect,
           ProcMotion, PutData, PutEnds, PutFails, Reply, Return, ServerDies
  <2>2. spc \notin Early
    BY <2>1 DEF ChannelInv
  <2>3. Begins(Said', Said)
    BY <2>2, SaidMoves DEF Keeps, Answers
  <2>4. /\ \A i \in 1..Len(Said) : Said[i] = ListAnswer(result, i)
        /\ Len(Said) <= Chunks(result) + 1 /\ res = Collected(result, Len(seen))
    BY <2>1 DEF ListInv
  <2>5. Chunks(result) \in Nat
    BY <1>0 DEF Chunks
  <2>6. /\ \A i \in 1..Len(Said') : Said'[i] = ListAnswer(result, i)
        /\ Len(Said') <= Chunks(result) + 1
    BY SMTT(60), <1>0, <2>3, <2>4, <2>5 DEF Begins
  <2>7. res' = Collected(result, Len(seen'))
    <3>1. CASE ClientRead
      <4> DEFINE k == Len(seen) + 1
      <4>1. Len(toClient) \in Nat \ {0}
        BY Zenon, <1>0, <3>1, EmptySeq, LenProperties DEF ClientRead
      <4>2. (seen \o toClient)[k] = toClient[1] /\ Len(seen \o toClient) = Len(seen) + Len(toClient)
        BY <1>0, <4>1, ConcatProperties
      <4>3. Begins(seen \o toClient, Said)
        BY SaidType
      <4>4. Said[k] = toClient[1] /\ k <= Len(Said)
        BY <1>0, <4>1, <4>2, <4>3 DEF Begins
      <4>5. toClient[1] = ListAnswer(result, k) /\ k <= Chunks(result) + 1
        BY SMTT(60), <1>0, <2>4, <2>5, <4>4
      <4>6. res' = res + toClient[1].n
        BY Zenon, <3>1 DEF ClientRead
      <4>7. Len(seen') = k
        <5>1. toClient[1] \in Packet
          BY <1>0, <4>1, ElementOfSeq
        <5> QED
          BY Zenon, <1>0, <3>1, <5>1, AppendProperties DEF ClientRead
      <4>8. k \in Nat \ {0} /\ k - 1 = Len(seen)
        BY <1>0
      <4> HIDE DEF k
      <4>9. Collected(result, k - 1) + ListAnswer(result, k).n = Collected(result, k)
        BY Zenon, <1>0, <4>5, <4>8, CollectedGrows
      <4> QED
        BY Zenon, <2>4, <4>5, <4>6, <4>7, <4>8, <4>9
    <3>2. CASE ~ClientRead
      <4>1. UNCHANGED <<res, seen>>
        BY Zenon, <1>3, <3>2
           DEF ReqNext, Client, Server, reqVars, client, ClientWrite, ClientWriteFails,
               ClientReadFails, ClientReturns, ClientDies, ProcConn, ReadRequestFails, Interconnect,
               ProcMotion, PutData, PutEnds, PutFails, Reply, Return, ServerDies
      <4> QED
        BY Zenon, <2>4, <4>1
    <3> QED
      BY <3>1, <3>2
  <2> QED
    BY Zenon, <2>1, <2>6, <2>7 DEF ListInv
<1> QED
  BY Zenon, <1>2, <1>3

LEMMA ExitStep ==
  ASSUME ChannelInv, ReadInv, DoneInv, PutInv, ListInv, ExitHonest, [ReqNext]_reqVars
  PROVE  ExitHonest'
<1> USE RequestsAssumption
<1>0. UNCHANGED cmd
  BY DEF ReqNext, Client, Server, reqVars, client, ClientWrite, ClientWriteFails, ClientRead,
         ClientReadFails, ClientReturns, ClientDies, ProcConn, ReadRequestFails, Interconnect,
         ProcMotion, Handle, PutData, PutEnds, PutFails, Reply, Return, ServerDies
<1> SUFFICES ASSUME exit' = "ok", cmd \in Command \ {"cat"}
             PROVE  /\ op' = "done"
                    /\ cmd = "put" => result' = Input
                    /\ cmd = "list" => res' = result'
  BY Zenon, <1>0 DEF ExitHonest
<1>1. CASE exit = "ok"
  <2>1. op = "done" /\ (cmd = "put" => result = Input) /\ (cmd = "list" => res = result)
    BY Zenon, <1>1 DEF ExitHonest
  <2>2. spc \notin Early
    BY Zenon, <2>1 DEF ChannelInv
  <2>3. UNCHANGED <<op, result>>
    BY Zenon, <2>2, SaidMoves DEF Keeps, Answers
  <2>4. res' = res
    BY Zenon, <1>1 DEF ReqNext, Client, Server, reqVars, client, ClientWrite, ClientWriteFails, ClientRead,
         ClientReadFails, ClientReturns, ClientDies, ProcConn, ReadRequestFails, Interconnect,
         ProcMotion, Handle, PutData, PutEnds, PutFails, Reply, Return, ServerDies
  <2> QED
    BY Zenon, <2>1, <2>3, <2>4
<1>2. CASE exit # "ok"
  <2>1. Verdict = "ok" /\ exit = "none" /\ UNCHANGED <<op, result, res>>
    BY Zenon, <1>2 DEF ReqNext, Client, Server, reqVars, client, ClientWrite, ClientWriteFails, ClientRead,
         ClientReadFails, ClientReturns, ClientDies, ProcConn, ReadRequestFails, Interconnect,
         ProcMotion, Handle, PutData, PutEnds, PutFails, Reply, Return, ServerDies
  <2>2. /\ Len(seen) \in Nat \ {0} /\ \E i \in 1..Len(seen) : seen[i] = RFQ
        /\ cmd = "list" => seen[Len(seen)] = RFQ
    BY Zenon, <2>1, VerdictOk
  <2>3. Len(Said) \in Nat /\ Len(seen) <= Len(Said) /\ \A i \in 1..Len(seen) : seen[i] = Said[i]
    BY Zenon, SaidType DEF Begins
  <2>4. op = "done"
    BY <2>2, <2>3 DEF DoneInv
  <2>5. cmd = "put" => result = Input
    BY <2>1, <2>4 DEF PutInv
  <2>6. ASSUME cmd = "list" PROVE res = result
    <3> DEFINE k == Len(seen)
    <3>1. /\ ListAnswer(result, k) = RFQ /\ k \in Nat \ {0} /\ result \in Nat
          /\ res = Collected(result, k)
      <4>1. result \in Nat
        BY DEF ChannelInv
      <4>2. \A i \in 1..Len(Said) : Said[i] = ListAnswer(result, i)
        BY Zenon, <2>4, <2>6 DEF ListInv
      <4>3. k \in 1..Len(Said) /\ k \in 1..Len(seen)
        BY <2>2, <2>3
      <4>4. ListAnswer(result, k) = RFQ
        BY Zenon, <2>2, <2>3, <2>6, <4>2, <4>3
      <4> QED
        BY Zenon, <2>2, <2>4, <2>6, <4>1, <4>4 DEF ListInv
    <3> HIDE DEF k
    <3>2. Chunks(result) \in Nat
      BY <3>1 DEF Chunks
    <3>3. k > Chunks(result)
      BY <3>1, <3>2 DEF ListAnswer, RFQ, Msg
    <3>4. /\ result <= (k - 1) * ChunkSize /\ k * ChunkSize = (k - 1) * ChunkSize + ChunkSize
          /\ (k - 1) * ChunkSize \in Nat
      BY <3>1, <3>3, ChunkSums
    <3>5. ~(k * ChunkSize <= result)
      BY <3>1, <3>4
    <3> QED
      BY Zenon, <3>1, <3>5 DEF Collected
  <2> QED
    BY Zenon, <2>1, <2>4, <2>5, <2>6
<1> QED
  BY ZenonT(60), <1>1, <1>2

LEMMA RequestHolds == ReqSpec => []RequestInv
<1>1. ReqInit => RequestInv
  <2> SUFFICES ASSUME ReqInit PROVE RequestInv
    OBVIOUS
  <2>0. cmd \in Command \cup Other /\ unsent = Request(cmd) /\ Request(cmd) \in Seq(Packet)
    BY RequestType DEF ReqInit
  <2>1. /\ << >> \in Seq(Packet) /\ Len(<< >>) = 0 /\ << >> \o << >> = << >>
        /\ << >> \o Request(cmd) = Request(cmd)
    BY Zenon, <2>0, EmptySeq, ConcatEmptySeq
  <2>2. ChannelInv
    BY Zenon, <2>0, <2>1 DEF ReqInit, ChannelInv, Early
  <2>3. ReadInv
    BY <2>0, <2>1 DEF ReqInit, ReadInv, Early
  <2>4. Said = << >> /\ op = "none" /\ exit = "none" /\ spc # "take"
    BY <2>1 DEF ReqInit, Said
  <2>5. ReplyOrder
    <3>1. ReplyOrder <=> Ordered(Said)
      BY Zenon DEF ReplyOrder, Ordered, Said
    <3> QED
      BY <2>1, <2>4, <3>1 DEF Ordered
  <2> QED
    BY <2>1, <2>2, <2>3, <2>4, <2>5 DEF RequestInv, DoneInv, PutInv, ListInv, ExitHonest
<1>2. RequestInv /\ [ReqNext]_reqVars => RequestInv'
  BY ChannelStep, ReadStep, OrderStep, PutStep, ListStep, ExitStep DEF RequestInv
<1> QED
  BY <1>1, <1>2, PTL DEF ReqSpec

\* Of the answers to one request (ycl.GetRW().Write and ycl.ReplyError in the
\* handlers of interaction.go) ReadyForQuery is the last, and only errors
\* follow an error: for sockets of any size, any input and any listing.
THEOREM RepliesAreOrdered == ReqSpec => []ReplyOrder
<1>1. RequestInv => ReplyOrder
  BY DEF RequestInv
<1> QED
  BY <1>1, RequestHolds, PTL

\* Exit status 0 of yp-client (cmd/client/main.go) means that yproxy carried
\* the operation out: put has stored all of its input and list has collected
\* every object found, however they were cut into chunks and whoever died.
THEOREM ExitIsHonest == ReqSpec => []ExitHonest
<1>1. RequestInv => ExitHonest
  BY DEF RequestInv
<1> QED
  BY <1>1, RequestHolds, PTL
=============================================================================
