----------------------------- MODULE WireProofs -----------------------------
(***************************************************************************)
(* Proofs about the packets on a socket, for any messages, any limit, any  *)
(* cutting of the stream by the socket and a writer that dies anywhere.    *)
(***************************************************************************)
EXTENDS Wire, CodecProofs

\* A message whose length W bytes hold.
Framed(m) == m \in Messages /\ Len(Body(m)) + W \in Uint

\* A frame is its length and its body, and the length reads back.
LEMMA FrameParts ==
  ASSUME NEW m, Framed(m)
  PROVE  /\ Encode(m) \in Seq(Byte) /\ Body(m) \in Seq(Byte)
         /\ Len(Body(m)) \in Nat \ {0} /\ Len(Encode(m)) = Len(Body(m)) + W
         /\ \A k \in 1..W : Encode(m)[k] = PutUint64(Len(Encode(m)))[k]
         /\ \A k \in 1..Len(Body(m)) : Encode(m)[W + k] = Body(m)[k]
         /\ Uint64(PutUint64(Len(Encode(m)))) = Len(Encode(m))
<1> USE MessageAssumption
<1> DEFINE b == Body(m)
           n == Len(b) + W
           h == PutUint64(n)
<1>1. b \in Seq(Byte) /\ Len(b) >= 4 /\ n \in Uint /\ Encode(m) = h \o b
  BY Zenon, RoundTrip DEF Framed, Encode
<1>2. Len(b) \in Nat \ {0}
  BY <1>1, LenProperties
<1> HIDE DEF h, b, n
<1>3. h \in Seq(Byte) /\ Len(h) = W /\ Uint64(h) = n
  BY Zenon, <1>1, UintRead DEF h
<1>4. n = Len(b) + W
  BY DEF n
<1>5. Encode(m) \in Seq(Byte)
  BY ZenonT(60), <1>1, <1>3, ConcatProperties
<1>6. /\ Len(h \o b) = Len(h) + Len(b)
      /\ \A i \in 1..Len(h) + Len(b) : (h \o b)[i] = IF i <= Len(h) THEN h[i] ELSE b[i - Len(h)]
  BY ZenonT(60), <1>1, <1>3, ConcatProperties
<1>7. Len(Encode(m)) = n
  BY <1>1, <1>2, <1>3, <1>4, <1>6
<1>8. h = PutUint64(Len(Encode(m)))
  BY Zenon, <1>7 DEF h
<1>9. \A k \in 1..W : Encode(m)[k] = h[k]
  BY <1>1, <1>2, <1>3, <1>6
<1>10. ASSUME NEW k \in 1..Len(b) PROVE Encode(m)[W + k] = b[k]
  <2>1. W + k \in 1..(Len(h) + Len(b)) /\ ~(W + k <= Len(h)) /\ (W + k) - Len(h) = k
    BY <1>2, <1>3
  <2> QED
    BY Zenon, <1>1, <1>6, <2>1
<1>11. /\ \A k \in 1..W : Encode(m)[k] = PutUint64(Len(Encode(m)))[k]
       /\ Uint64(PutUint64(Len(Encode(m)))) = Len(Encode(m))
  BY Zenon, <1>3, <1>7, <1>8, <1>9
<1> QED
  BY Zenon, <1>1, <1>4, <1>2, <1>5, <1>7, <1>10, <1>11 DEF b

-----------------------------------------------------------------------------

\* The lengths of the frames of a plan.
Size(p, j) == Len(Encode(p[j]))
Sizes(p) == Len(p) \in Nat /\ \A j \in 1..Len(p) : Size(p, j) \in Nat \ {0}

\* c says where the frames of p begin in all that has been written.
Layout(c, p, s) ==
  /\ \A j \in 1..s : c[j] = c[j - 1] + Size(p, j)
  /\ \A j \in 0..s : c[j] <= c[s]

\* t bytes have been written: s frames and, when the writer has died, a part of
\* another.
Extent(c, p, s, o, t) ==
  /\ c[s] <= t
  /\ o \/ s = Len(p) => t = c[s]
  /\ s < Len(p) => t < c[s] + Size(p, s + 1)

\* r of them have been read and w has the others.
FrameBytes(c, p, s, w, r) ==
  \A j \in 1..(s + 1) : j <= Len(p) =>
    \A k \in 1..Size(p, j) :
      c[j - 1] + k - r \in 1..Len(w) => w[c[j - 1] + k - r] = Encode(p[j])[k]

\* The first g frames have been read, and x bytes of the next.
Stream(c, p, s, o, w, g, x) ==
  /\ Layout(c, p, s)
  /\ Extent(c, p, s, o, c[g] + x + Len(w))
  /\ FrameBytes(c, p, s, w, c[g] + x)

\* How much of its frame ReadPacket has taken before what is in buf.
Base == IF pc = "body" THEN W ELSE 0

WireType ==
  /\ plan \in Plans /\ sent \in 0..Len(plan) /\ open \in BOOLEAN
  /\ wire \in Seq(Byte) /\ buf \in Seq(Byte) /\ got \in Seq(Seq(Byte))
  /\ pc \in {"length", "body", "failed"}

\* A packet read is the body of the frame written at its place.
Delivered ==
  /\ Len(got) <= sent
  /\ \A i \in 1..Len(got) : got[i] = Body(plan[i]) /\ Size(plan, i) <= MaxMsgLen

\* Why ReadPacket failed: the stream ended, or the packet is over the limit.
Stopped ==
  pc = "failed" =>
    \/ Len(got) = sent /\ ~open
    \/ Len(got) < sent /\ Size(plan, Len(got) + 1) > MaxMsgLen

\* What ReadFull has been asked for.
Asked ==
  /\ pc = "length" => dataLen = W
  /\ pc = "body" =>
       /\ Len(got) < Len(plan) /\ Size(plan, Len(got) + 1) <= MaxMsgLen
       /\ dataLen = Len(Body(plan[Len(got) + 1]))

\* What it has is the beginning of that.
Filled ==
  pc # "failed" =>
    /\ Len(buf) <= dataLen
    /\ buf # << >> => Len(got) < Len(plan)
    /\ \A k \in 1..Len(buf) : buf[k] = Encode(plan[Len(got) + 1])[Base + k]

\* The rest of the stream is the rest of the frames.
Queued ==
  pc # "failed" =>
    \E c \in [0..sent -> Nat] :
      Stream(c, plan, sent, open, wire, Len(got), Base + Len(buf))

PacketInv == WireType /\ Delivered /\ Stopped /\ Asked /\ Filled /\ Queued

-----------------------------------------------------------------------------
(* The stream.                                                             *)

\* v is w and the first l bytes of e.
Longer(v, w, e, l) ==
  /\ Len(v) = Len(w) + l
  /\ \A i \in 1..Len(w) : v[i] = w[i]
  /\ \A i \in 1..l : v[Len(w) + i] = e[i]

\* conn.Write adds a whole frame.
LEMMA StreamSend ==
  ASSUME NEW p, Sizes(p), NEW s \in Nat, s < Len(p), NEW g \in 0..s, NEW x \in Nat,
         NEW w, Len(w) \in Nat, NEW c \in [0..s -> Nat], Stream(c, p, s, TRUE, w, g, x),
         NEW v, Longer(v, w, Encode(p[s + 1]), Size(p, s + 1))
  PROVE  \E d \in [0..(s + 1) -> Nat] : Stream(d, p, s + 1, TRUE, v, g, x)
<1>1. PICK n \in Nat, l \in Nat \ {0} : n = Len(w) /\ l = Size(p, s + 1)
  BY SMTT(60) DEF Sizes
<1>2. PICK a \in Nat, r \in Nat : a = c[s] /\ r = c[g] + x
  OBVIOUS
<1>3. r + n = a
  BY <1>1, <1>2 DEF Stream, Extent
<1>4. Len(v) = n + l /\ r + (n + l) = a + l
  <2>1. r + (n + l) = a + l
    BY <1>3
  <2> QED
    BY <1>1, <2>1 DEF Longer
<1> DEFINE d == [j \in 0..(s + 1) |-> IF j = s + 1 THEN a + l ELSE c[j]]
<1>5. d \in [0..(s + 1) -> Nat] /\ d[g] = c[g] /\ d[s + 1] = a + l /\ \A j \in 0..s : d[j] = c[j]
  OBVIOUS
<1> HIDE DEF d
<1>6. d[g] + x = r /\ r + Len(v) = a + l
  BY Zenon, <1>2, <1>4, <1>5
<1>c. \A j \in 1..s : /\ d[j] = c[j] /\ d[j - 1] = c[j - 1] /\ c[j] \in Nat /\ c[j - 1] \in Nat
                      /\ c[j] = c[j - 1] + Size(p, j) /\ c[j] <= a
  <2> SUFFICES ASSUME NEW j \in 1..s
               PROVE  /\ d[j] = c[j] /\ d[j - 1] = c[j - 1] /\ c[j] \in Nat /\ c[j - 1] \in Nat
                      /\ c[j] = c[j - 1] + Size(p, j) /\ c[j] <= a
    BY Zenon
  <2>1. j \in 0..s /\ j - 1 \in 0..s
    OBVIOUS
  <2> QED
    BY Zenon, <1>2, <1>5, <2>1 DEF Stream, Layout
<1>7. Layout(d, p, s + 1)
  <2>1. ASSUME NEW j \in 1..(s + 1) PROVE d[j] = d[j - 1] + Size(p, j)
    <3>1. CASE j = s + 1
      BY SMTT(60), <1>1, <1>2, <1>5, <3>1
    <3>2. CASE j \in 1..s
      BY Zenon, <1>c, <3>2
    <3> QED
      BY <3>1, <3>2
  <2>2. ASSUME NEW j \in 0..(s + 1) PROVE d[j] <= d[s + 1]
    <3>1. CASE j = s + 1
      BY <1>5, <3>1
    <3>2. CASE j \in 0..s
      <4>1. d[j] = c[j] /\ c[j] \in Nat /\ c[j] <= a
        BY Zenon, <1>2, <1>5, <3>2 DEF Stream, Layout
      <4> QED
        BY SMTT(60), <1>5, <4>1
    <3> QED
      BY <3>1, <3>2
  <2> QED
    BY <2>1, <2>2 DEF Layout
<1>8. Extent(d, p, s + 1, TRUE, r + Len(v))
  <2>1. ASSUME s + 1 < Len(p) PROVE Size(p, (s + 1) + 1) \in Nat \ {0}
    BY <2>1 DEF Sizes
  <2>2. ASSUME s + 1 < Len(p) PROVE a + l < a + l + Size(p, (s + 1) + 1)
    BY <2>1, <2>2
  <2>3. a + l <= a + l
    OBVIOUS
  <2> QED
    BY Zenon, <1>5, <1>6, <2>2, <2>3 DEF Extent
<1>9. FrameBytes(d, p, s + 1, v, r)
  <2> SUFFICES ASSUME NEW j \in 1..((s + 1) + 1), j <= Len(p), NEW k \in 1..Size(p, j),
                      d[j - 1] + k - r \in 1..Len(v)
               PROVE  v[d[j - 1] + k - r] = Encode(p[j])[k]
    BY Zenon DEF FrameBytes
  <2>s. PICK z \in Nat : z = Size(p, j)
    BY DEF Sizes
  <2>k. k \in 1..z
    BY <2>s
  <2>1. CASE j = s + 1
    <3>1. d[j - 1] = a
      BY SMTT(60), <1>2, <1>5, <2>1
    <3>2. a + k - r = n + k
      BY <1>3, <2>k
    <3> QED
      BY ZenonT(60), <1>1, <2>1, <3>1, <3>2 DEF Longer
  <2>2. CASE j \in 1..s
    <3>1. PICK u \in Nat : u = c[j - 1]
      BY Zenon, <1>c, <2>2
    <3>2. d[j - 1] = u /\ u + z <= a
      BY SMTT(60), <1>c, <2>2, <2>s, <3>1
    <3>3. u + k - r \in 1..n
      BY SMTT(60), <1>3, <1>4, <2>k, <3>2
    <3>4. w[u + k - r] = Encode(p[j])[k]
      <4>1. j \in 1..(s + 1)
        BY <2>2
      <4>2. FrameBytes(c, p, s, w, r)
        BY Zenon, <1>2 DEF Stream
      <4> QED
        BY ZenonT(60), <1>1, <3>1, <3>3, <4>1, <4>2 DEF FrameBytes
    <3> QED
      BY Zenon, <1>1, <3>2, <3>3, <3>4 DEF Longer
  <2>3. CASE j = (s + 1) + 1
    <3>1. d[j - 1] = a + l
      BY <1>5, <2>3
    <3> QED
      BY SMTT(60), <1>3, <1>4, <2>k, <3>1
  <2>4. j \in 1..s \/ j = s + 1 \/ j = (s + 1) + 1
    OBVIOUS
  <2> QED
    BY ZenonT(60), <2>1, <2>2, <2>3, <2>4
<1>10. Stream(d, p, s + 1, TRUE, v, g, x)
  BY Zenon, <1>6, <1>7, <1>8, <1>9 DEF Stream
<1> QED
  BY Zenon, <1>5, <1>10

\* The writer closes between two frames.
LEMMA StreamClose ==
  ASSUME NEW p, NEW s \in Nat, NEW g \in 0..s, NEW x \in Nat, NEW w, NEW c,
         Stream(c, p, s, TRUE, w, g, x)
  PROVE  Stream(c, p, s, FALSE, w, g, x)
BY Zenon DEF Stream, Extent

\* The writer dies in a frame.
LEMMA StreamCut ==
  ASSUME NEW p, Sizes(p), NEW s \in Nat, s < Len(p), NEW g \in 0..s, NEW x \in Nat,
         NEW w, Len(w) \in Nat, NEW c \in [0..s -> Nat], Stream(c, p, s, TRUE, w, g, x),
         NEW m \in 1..(Size(p, s + 1) - 1), NEW v, Longer(v, w, Encode(p[s + 1]), m)
  PROVE  Stream(c, p, s, FALSE, v, g, x)
<1>1. PICK n \in Nat, l \in Nat \ {0} : n = Len(w) /\ l = Size(p, s + 1)
  <2>1. s + 1 \in 1..Len(p)
    BY DEF Sizes
  <2> QED
    BY Zenon, <2>1 DEF Sizes
<1>2. PICK a \in Nat, r \in Nat : a = c[s] /\ r = c[g] + x
  OBVIOUS
<1>m. m \in 1..(l - 1)
  BY <1>1
<1>3. r + n = a
  BY Zenon, <1>1, <1>2 DEF Stream, Extent
<1>4. Len(v) = n + m
  BY Zenon, <1>1 DEF Longer
<1>5. r + (n + m) = a + m /\ a <= a + m /\ a + m < a + l
  BY <1>3, <1>m
<1>6. Layout(c, p, s)
  BY DEF Stream
<1>7. Extent(c, p, s, FALSE, r + Len(v))
  <2>1. s # Len(p)
    BY DEF Sizes
  <2> QED
    BY ZenonT(60), <1>1, <1>2, <1>4, <1>5, <2>1 DEF Extent
<1>8. FrameBytes(c, p, s, v, r)
  <2> SUFFICES ASSUME NEW j \in 1..(s + 1), j <= Len(p), NEW k \in 1..Size(p, j),
                      c[j - 1] + k - r \in 1..Len(v)
               PROVE  v[c[j - 1] + k - r] = Encode(p[j])[k]
    BY Zenon DEF FrameBytes
  <2>s. PICK z \in Nat : z = Size(p, j)
    BY SMTT(60) DEF Sizes
  <2>k. k \in 1..z
    BY <2>s
  <2>1. CASE j = s + 1
    <3>1. c[j - 1] = a
      BY SMTT(60), <1>2, <2>1
    <3>2. a + k - r = n + k
      BY <1>3, <2>k
    <3>3. n + k \in 1..(n + m)
      BY Zenon, <1>4, <3>1, <3>2
    <3>4. k \in 1..m
      BY SMTT(60), <2>k, <1>m, <3>3
    <3> QED
      BY ZenonT(60), <1>1, <2>1, <3>1, <3>2, <3>4 DEF Longer
  <2>2. CASE j \in 1..s
    <3>0. j - 1 \in 0..s /\ j \in 0..s
      BY <2>2
    <3>1. PICK u \in Nat : u = c[j - 1]
      BY Zenon, <3>0
    <3>2. u + z <= a
      BY ZenonT(60), <1>2, <1>6, <2>2, <2>s, <3>0, <3>1 DEF Layout
    <3>a. u + k - r \in 1..(n + m)
      BY Zenon, <1>4, <3>1
    <3>3. u + k - r \in 1..n
      BY SMTT(60), <1>3, <1>m, <2>k, <3>2, <3>a
    <3>4. w[u + k - r] = Encode(p[j])[k]
      <4>2. FrameBytes(c, p, s, w, r)
        BY Zenon, <1>2 DEF Stream
      <4> QED
        BY ZenonT(60), <1>1, <3>1, <3>3, <4>2 DEF FrameBytes
    <3> QED
      BY ZenonT(60), <1>1, <3>1, <3>3, <3>4 DEF Longer
  <2>3. j \in 1..s \/ j = s + 1
    OBVIOUS
  <2> QED
    BY Zenon, <2>1, <2>2, <2>3
<1> QED
  BY Zenon, <1>2, <1>6, <1>7, <1>8 DEF Stream

\* v is w without its first k bytes.
Shorter(v, w, k) ==
  /\ Len(v) = Len(w) - k
  /\ \A i \in 1..Len(v) : v[i] = w[k + i]

\* A read takes k bytes.
LEMMA StreamRead ==
  ASSUME NEW p, Sizes(p), NEW s \in Nat, s <= Len(p), NEW o, NEW g \in 0..s, NEW x \in Nat,
         NEW w, Len(w) \in Nat, NEW c \in [0..s -> Nat], Stream(c, p, s, o, w, g, x),
         NEW m \in 1..Len(w), NEW v, Shorter(v, w, m)
  PROVE  Stream(c, p, s, o, v, g, x + m)
<1>1. PICK n \in Nat, b \in Nat, r \in Nat : n = Len(w) /\ b = c[g] /\ r = b + x
  OBVIOUS
<1>m. m \in 1..n
  BY Zenon, <1>1
<1>2. Len(v) = n - m
  BY Zenon, <1>1 DEF Shorter
<1>3. b + (x + m) = r + m /\ b + (x + m) + (n - m) = b + x + n
  <2>2. m \in Nat
    BY <1>m
  <2>3. b + (x + m) = (b + x) + m /\ b + (x + m) + (n - m) = b + x + n
    BY <2>2, SMTT(30)
  <2> QED
    BY Zenon, <1>1, <2>3
<1>4. Extent(c, p, s, o, c[g] + (x + m) + Len(v))
  <2>1. c[g] + (x + m) + Len(v) = c[g] + x + Len(w)
    BY Zenon, <1>1, <1>2, <1>3
  <2> QED
    BY Zenon, <2>1 DEF Stream
<1>5. FrameBytes(c, p, s, v, r + m)
  <2> SUFFICES ASSUME NEW j \in 1..(s + 1), j <= Len(p), NEW k \in 1..Size(p, j),
                      c[j - 1] + k - (r + m) \in 1..Len(v)
               PROVE  v[c[j - 1] + k - (r + m)] = Encode(p[j])[k]
    BY DEF FrameBytes
  <2>1. PICK z \in Nat : z = Size(p, j)
    BY SMTT(60) DEF Sizes
  <2>2. k \in 1..z
    BY <2>1
  <2>3. PICK u \in Nat : u = c[j - 1]
    BY SMTT(30)
  <2>4. PICK i \in 1..(n - m) : i = u + k - (r + m)
    BY Zenon, <1>2, <2>3
  <2>5. u + k - r = m + i /\ m + i \in 1..n
    BY SMTT(60), <1>m, <2>2, <2>4
  <2>6. FrameBytes(c, p, s, w, r)
    BY Zenon, <1>1 DEF Stream
  <2>7. w[m + i] = Encode(p[j])[k]
    BY Zenon, <1>1, <2>3, <2>5, <2>6 DEF FrameBytes
  <2> QED
    BY ZenonT(60), <1>2, <2>3, <2>4, <2>7 DEF Shorter
<1>6. c[g] + (x + m) = r + m
  BY Zenon, <1>1, <1>3
<1> QED
  BY Zenon, <1>4, <1>5, <1>6 DEF Stream

\* A frame read to its end was written whole, and the next one follows.
LEMMA StreamNext ==
  ASSUME NEW p, Sizes(p), NEW s \in Nat, s <= Len(p), NEW o, NEW g \in 0..s, g < Len(p),
         NEW w, Len(w) \in Nat, NEW c \in [0..s -> Nat],
         Stream(c, p, s, o, w, g, Size(p, g + 1))
  PROVE  g < s /\ Stream(c, p, s, o, w, g + 1, 0)
<1>1. PICK n \in Nat, b \in Nat, l \in Nat \ {0} : n = Len(w) /\ b = c[g] /\ l = Size(p, g + 1)
  BY SMTT(60) DEF Sizes
<1>2. g # s
  <2> SUFFICES ASSUME g = s PROVE FALSE
    OBVIOUS
  <2>1. b + l + n < b + l
    BY Zenon, <1>1 DEF Stream, Extent
  <2> QED
    BY <2>1
<1>3. g + 1 \in 1..s /\ (g + 1) - 1 = g
  BY <1>2
<1>4. c[g + 1] = b + l
  BY Zenon, <1>1, <1>3 DEF Stream, Layout
<1>5. c[g + 1] + 0 = c[g] + Size(p, g + 1)
  BY <1>1, <1>4
<1>6. Stream(c, p, s, o, w, g + 1, 0)
  BY Zenon, <1>5 DEF Stream
<1> QED
  BY <1>2, <1>6

\* w begins with what frame g + 1 has behind its first x bytes.
Continues(w, p, g, x) ==
  \A i \in 1..Len(w) : x + i <= Size(p, g + 1) => w[i] = Encode(p[g + 1])[x + i]

\* A place counted from the beginning of a frame, and from the reader's.
LEMMA Distance ==
  ASSUME NEW b \in Nat, NEW x \in Nat, NEW i \in Nat \ {0}
  PROVE  b + (x + i) - (b + x) = i
OBVIOUS

\* What is next in the stream belongs to the frame being read.
LEMMA StreamByte ==
  ASSUME NEW p, Sizes(p), NEW s \in Nat, s <= Len(p), NEW o, NEW g \in 0..s, g < Len(p),
         NEW x \in Nat, NEW w, Len(w) \in Nat, NEW c \in [0..s -> Nat],
         Stream(c, p, s, o, w, g, x)
  PROVE  Continues(w, p, g, x)
<1> SUFFICES ASSUME NEW i \in 1..Len(w), x + i <= Size(p, g + 1)
             PROVE  w[i] = Encode(p[g + 1])[x + i]
  BY DEF Continues
<1>1. PICK l \in Nat, b \in Nat, r \in Nat : l = Size(p, g + 1) /\ b = c[g] /\ r = b + x
  <2> g + 1 \in 1..Len(p)
    BY DEF Sizes
  <2> QED
    BY DEF Sizes
<1>2. i \in Nat \ {0}
  OBVIOUS
<1>3. x + i \in 1..l
  BY SMTT(60), <1>1, <1>2
<1>4. b + (x + i) - r = i
  <2>1. b + (x + i) - (b + x) = i
    BY Zenon, <1>2, Distance
  <2> QED
    BY Zenon, <1>1, <2>1
<1>5. g + 1 \in 1..(s + 1) /\ (g + 1) - 1 = g /\ g + 1 <= Len(p)
  BY DEF Sizes
<1>6. FrameBytes(c, p, s, w, r)
  BY Zenon, <1>1 DEF Stream
<1>7. c[(g + 1) - 1] + (x + i) - r = i
  BY Zenon, <1>1, <1>4, <1>5
<1> QED
  BY ZenonT(60), <1>1, <1>3, <1>5, <1>6, <1>7 DEF FrameBytes

\* There is a frame that what is left belongs to.
LEMMA StreamMore ==
  ASSUME NEW p, Sizes(p), NEW s \in Nat, s <= Len(p), NEW o, NEW g \in 0..s,
         NEW x \in Nat, NEW w, Len(w) \in Nat \ {0}, NEW c \in [0..s -> Nat],
         Stream(c, p, s, o, w, g, x)
  PROVE  g < Len(p)
<1>1. PICK n \in Nat \ {0}, b \in Nat : n = Len(w) /\ b = c[g]
  OBVIOUS
<1> SUFFICES ASSUME s = Len(p), g = s PROVE FALSE
  BY DEF Sizes
<1>2. b + x + n = b
  BY Zenon, <1>1 DEF Stream, Extent
<1> QED
  BY <1>2

\* When nothing is left and the frame being read is not complete, that frame
\* was not written whole.
LEMMA StreamEnd ==
  ASSUME NEW p, Sizes(p), NEW s \in Nat, s <= Len(p), NEW o, NEW g \in 0..s,
         NEW x \in Nat, NEW w, Len(w) = 0, NEW c \in [0..s -> Nat],
         Stream(c, p, s, o, w, g, x), g < Len(p) => x < Size(p, g + 1)
  PROVE  g = s
<1> SUFFICES ASSUME g < s PROVE FALSE
  OBVIOUS
<1>1. g + 1 \in 1..s /\ g + 1 \in 0..s /\ (g + 1) - 1 = g /\ g < Len(p) /\ g + 1 \in 1..Len(p)
  BY DEF Sizes
<1>2. PICK l \in Nat, a \in Nat, b \in Nat : l = Size(p, g + 1) /\ a = c[s] /\ b = c[g]
  BY <1>1 DEF Sizes
<1>3. c[g + 1] = b + l /\ c[g + 1] <= a
  BY Zenon, <1>1, <1>2 DEF Stream, Layout
<1>4. a <= b + x + 0
  BY Zenon, <1>2 DEF Stream, Extent
<1>5. x < l
  BY Zenon, <1>1, <1>2
<1>6. b + l <= a
  BY Zenon, <1>3
<1> QED
  BY SMTT(60), <1>4, <1>5, <1>6

\* While the writer is there, nothing of a frame is read that it has not
\* written whole.
LEMMA StreamOpen ==
  ASSUME NEW s \in Nat, NEW c \in [0..s -> Nat], NEW p, NEW w \in Seq(Byte),
         NEW x \in Nat \ {0}, Stream(c, p, s, TRUE, w, s, x)
  PROVE  FALSE
<1>1. c[s] + x + Len(w) = c[s]
  BY Zenon DEF Stream, Extent
<1>2. c[s] \in Nat /\ Len(w) \in Nat
  BY LenProperties
<1> QED
  BY <1>1, <1>2

-----------------------------------------------------------------------------
(* The packets.                                                            *)

\* SubSeq, from a place and to a place.
LEMMA Cut ==
  ASSUME NEW w \in Seq(Byte), NEW k \in 0..Len(w)
  PROVE  /\ SubSeq(w, 1, k) \in Seq(Byte) /\ Len(SubSeq(w, 1, k)) = k
         /\ \A i \in 1..k : SubSeq(w, 1, k)[i] = w[i]
         /\ SubSeq(w, k + 1, Len(w)) \in Seq(Byte) /\ Len(SubSeq(w, k + 1, Len(w))) = Len(w) - k
         /\ \A i \in 1..(Len(w) - k) : SubSeq(w, k + 1, Len(w))[i] = w[k + i]
<1>1. PICK n \in Nat : n = Len(w)
  BY Zenon, LenProperties
<1>2. k \in 0..n
  BY Zenon, <1>1
<1>3. \A i \in 1..n : w[i] \in Byte
  BY Zenon, <1>1, ElementOfSeq
<1>4. \A i \in 1..k : w[i] \in Byte
  BY <1>2, <1>3
<1>5. \A i \in (k + 1)..n : w[i] \in Byte
  BY <1>2, <1>3
<1>6. k \in Int /\ 1 \in Int /\ k + 1 \in Int /\ n \in Int
  BY <1>2
<1>7. /\ SubSeq(w, 1, k) \in Seq(Byte)
      /\ Len(SubSeq(w, 1, k)) = IF 1 <= k THEN k - 1 + 1 ELSE 0
      /\ \A i \in 1..(k - 1 + 1) : SubSeq(w, 1, k)[i] = w[1 + i - 1]
  BY <1>4, <1>6, SubSeqProperties, SMTT(30)
<1>8. /\ SubSeq(w, k + 1, n) \in Seq(Byte)
      /\ Len(SubSeq(w, k + 1, n)) = IF k + 1 <= n THEN n - (k + 1) + 1 ELSE 0
      /\ \A i \in 1..(n - (k + 1) + 1) : SubSeq(w, k + 1, n)[i] = w[(k + 1) + i - 1]
  BY <1>5, <1>6, SubSeqProperties, SMTT(30)
<1>9. k = (IF 1 <= k THEN k - 1 + 1 ELSE 0) /\ k - 1 + 1 = k /\ \A i \in 1..k : 1 + i - 1 = i
  BY <1>2
<1>10. /\ n - k = (IF k + 1 <= n THEN n - (k + 1) + 1 ELSE 0) /\ n - (k + 1) + 1 = n - k
       /\ \A i \in 1..(n - k) : (k + 1) + i - 1 = k + i
  BY <1>2
<1>11. /\ Len(SubSeq(w, 1, k)) = k
       /\ \A i \in 1..k : SubSeq(w, 1, k)[i] = w[i]
  BY Zenon, <1>7, <1>9
<1>12. /\ Len(SubSeq(w, k + 1, n)) = n - k
       /\ \A i \in 1..(n - k) : SubSeq(w, k + 1, n)[i] = w[k + i]
  BY Zenon, <1>8, <1>10
<1> QED
  BY ZenonT(60), <1>1, <1>7, <1>8, <1>11, <1>12

\* What conn.Write leaves in the stream.
LEMMA Extended ==
  ASSUME NEW w \in Seq(Byte), NEW e \in Seq(Byte)
  PROVE  /\ w \o e \in Seq(Byte) /\ Longer(w \o e, w, e, Len(e))
         /\ \A k \in 1..(Len(e) - 1) :
              w \o SubSeq(e, 1, k) \in Seq(Byte) /\ Longer(w \o SubSeq(e, 1, k), w, e, k)
<1>1. \A u \in Seq(Byte) :
        /\ w \o u \in Seq(Byte) /\ Len(w \o u) = Len(w) + Len(u)
        /\ \A i \in 1..Len(w) + Len(u) : (w \o u)[i] = IF i <= Len(w) THEN w[i] ELSE u[i - Len(w)]
  BY Zenon, ConcatProperties
<1>2. ASSUME NEW u \in Seq(Byte) PROVE Longer(w \o u, w, u, Len(u))
  <2>1. PICK n \in Nat, l \in Nat : n = Len(w) /\ l = Len(u)
    BY LenProperties
  <2>2. ASSUME NEW i \in 1..n PROVE (w \o u)[i] = w[i]
    <3>1. i \in 1..(n + l) /\ i <= n
      OBVIOUS
    <3> QED
      BY Zenon, <1>1, <2>1, <3>1
  <2>3. ASSUME NEW i \in 1..l PROVE (w \o u)[n + i] = u[i]
    <3>1. n + i \in 1..(n + l) /\ ~(n + i <= n) /\ (n + i) - n = i
      OBVIOUS
    <3> QED
      BY Zenon, <1>1, <2>1, <3>1
  <2> QED
    BY ZenonT(60), <1>1, <2>1, <2>2, <2>3 DEF Longer
<1>3. ASSUME NEW k \in 1..(Len(e) - 1)
      PROVE  w \o SubSeq(e, 1, k) \in Seq(Byte) /\ Longer(w \o SubSeq(e, 1, k), w, e, k)
  <2>0. k \in 0..Len(e)
    BY LenProperties
  <2>1. PICK u \in Seq(Byte) : u = SubSeq(e, 1, k) /\ Len(u) = k /\ \A i \in 1..k : u[i] = e[i]
    BY Zenon, <2>0, Cut
  <2>2. Longer(w \o u, w, u, k)
    BY Zenon, <1>2, <2>1
  <2>3. Longer(w \o u, w, e, k)
    BY Zenon, <2>1, <2>2 DEF Longer
  <2> QED
    BY Zenon, <1>1, <2>1, <2>3
<1> QED
  BY Zenon, <1>1, <1>2, <1>3

\* What a read takes from the stream and leaves there.
LEMMA Taken ==
  ASSUME NEW w \in Seq(Byte), NEW k \in 1..Len(w)
  PROVE  /\ SubSeq(w, k + 1, Len(w)) \in Seq(Byte)
         /\ Shorter(SubSeq(w, k + 1, Len(w)), w, k)
         /\ SubSeq(w, 1, k) \in Seq(Byte) /\ Len(SubSeq(w, 1, k)) = k
         /\ \A i \in 1..k : SubSeq(w, 1, k)[i] = w[i]
<1>1. k \in 0..Len(w)
  BY LenProperties
<1>2. /\ SubSeq(w, 1, k) \in Seq(Byte) /\ Len(SubSeq(w, 1, k)) = k
      /\ \A i \in 1..k : SubSeq(w, 1, k)[i] = w[i]
      /\ SubSeq(w, k + 1, Len(w)) \in Seq(Byte) /\ Len(SubSeq(w, k + 1, Len(w))) = Len(w) - k
      /\ \A i \in 1..(Len(w) - k) : SubSeq(w, k + 1, Len(w))[i] = w[k + i]
  BY Zenon, <1>1, Cut
<1> QED
  BY Zenon, <1>2 DEF Shorter

\* The limit of the reader is a number.
LEMMA LimitIsNat == MaxMsgLen \in Nat
<1>1. MaxMsgLen \in Uint
  BY Zenon, WireAssumption
<1>2. Place[W] - 1 \in Int
  BY PlaceDef, MessageAssumption
<1> QED
  BY <1>1, <1>2 DEF Uint

\* The frames of a plan are not empty.
LEMMA PlanSizes ==
  ASSUME NEW p \in Plans
  PROVE  /\ Sizes(p)
         /\ \A j \in 1..Len(p) : Framed(p[j]) /\ Encode(p[j]) \in Seq(Byte)
<1>1. Len(p) \in Nat /\ \A j \in 1..Len(p) : Framed(p[j])
  BY ZenonT(60), WireAssumption, LenProperties, ElementOfSeq DEF Framed
<1>2. ASSUME NEW j \in 1..Len(p) PROVE Size(p, j) \in Nat \ {0} /\ Encode(p[j]) \in Seq(Byte)
  <2>1. Framed(p[j])
    BY <1>1
  <2>2. /\ Encode(p[j]) \in Seq(Byte) /\ Len(Body(p[j])) \in Nat \ {0}
        /\ Len(Encode(p[j])) = Len(Body(p[j])) + W
    BY Zenon, <2>1, FrameParts
  <2> QED
    BY <2>2, MessageAssumption DEF Size
<1> QED
  BY Zenon, <1>1, <1>2 DEF Sizes

\* The numbers of a state.
LEMMA Counts ==
  ASSUME WireType, Delivered
  PROVE  /\ Sizes(plan) /\ Len(plan) \in Nat /\ sent \in Nat /\ sent <= Len(plan)
         /\ Len(got) \in 0..sent /\ Len(buf) \in Nat /\ Len(wire) \in Nat
         /\ Base \in Nat /\ Base + Len(buf) \in Nat
<1>1. Sizes(plan) /\ Len(plan) \in Nat
  BY Zenon, PlanSizes DEF WireType, Sizes
<1>2. Len(got) \in Nat /\ Len(buf) \in Nat /\ Len(wire) \in Nat
  BY Zenon, LenProperties DEF WireType
<1>3. Base \in Nat
  BY Zenon, MessageAssumption DEF Base
<1>4. sent \in 0..Len(plan) /\ Len(got) <= sent
  BY DEF WireType, Delivered
<1> QED
  BY SMTT(60), <1>1, <1>2, <1>3, <1>4

\* conn.Write of a message.
LEMMA SendStep ==
  ASSUME PacketInv, Send
  PROVE  PacketInv'
<1> DEFINE e == Encode(plan[sent + 1])
<1>1. /\ WireType /\ Delivered /\ Stopped /\ Asked /\ Filled /\ Queued
      /\ open = TRUE /\ sent < Len(plan) /\ wire' = wire \o e /\ sent' = sent + 1
      /\ plan' = plan /\ open' = open /\ pc' = pc /\ dataLen' = dataLen /\ buf' = buf /\ got' = got
  BY DEF PacketInv, Send, WireType
<1>2. /\ Sizes(plan) /\ Len(plan) \in Nat /\ sent \in Nat /\ sent <= Len(plan)
      /\ Len(got) \in 0..sent /\ Len(buf) \in Nat /\ Len(wire) \in Nat
      /\ Base + Len(buf) \in Nat
  BY Zenon, <1>1, Counts
<1>3. sent + 1 \in 1..Len(plan) /\ sent + 1 \in 0..Len(plan)
  BY SMTT(60), <1>1, <1>2
<1>4. e \in Seq(Byte) /\ Len(e) = Size(plan, sent + 1)
  BY ZenonT(60), <1>1, <1>3, PlanSizes DEF WireType, Size
<1>5. wire \in Seq(Byte)
  BY Zenon, <1>1 DEF WireType
<1> HIDE DEF e
<1>6. wire' \in Seq(Byte) /\ Longer(wire', wire, e, Size(plan, sent + 1))
  BY ZenonT(60), <1>1, <1>4, <1>5, Extended
<1>7. WireType'
  BY ZenonT(60), <1>1, <1>3, <1>6 DEF WireType
<1>8. Delivered'
  <2>1. Len(got) <= sent + 1
    BY <1>2
  <2> QED
    BY Zenon, <1>1, <2>1 DEF Delivered
<1>9. Stopped'
  <2>1. Len(got) < sent => Len(got) < sent + 1
    BY <1>2
  <2> QED
    BY Zenon, <1>1, <2>1 DEF Stopped
<1>10. Asked' /\ Filled' /\ Base' = Base
  BY Zenon, <1>1 DEF Asked, Filled, Base
<1>11. Queued'
  <2> SUFFICES ASSUME pc # "failed"
               PROVE  \E d \in [0..(sent + 1) -> Nat] :
                        Stream(d, plan, sent + 1, TRUE, wire', Len(got), Base + Len(buf))
    BY Zenon, <1>1, <1>10 DEF Queued
  <2>1. PICK c \in [0..sent -> Nat] :
          Stream(c, plan, sent, TRUE, wire, Len(got), Base + Len(buf))
    BY Zenon, <1>1 DEF Queued
  <2>2. Longer(wire', wire, Encode(plan[sent + 1]), Size(plan, sent + 1))
    BY Zenon, <1>6 DEF e
  <2> QED
    BY ZenonT(60), <1>1, <1>2, <2>1, <2>2, StreamSend
<1> QED
  BY ZenonT(60), <1>7, <1>8, <1>9, <1>10, <1>11 DEF PacketInv

\* The writer closes or dies.
LEMMA CloseStep ==
  ASSUME PacketInv, Close
  PROVE  PacketInv'
<1> DEFINE e == Encode(plan[sent + 1])
           x == Base + Len(buf)
<1>1. /\ WireType /\ Delivered /\ Stopped /\ Asked /\ Filled /\ Queued
      /\ open = TRUE /\ open' = FALSE
      /\ plan' = plan /\ sent' = sent /\ pc' = pc /\ dataLen' = dataLen /\ buf' = buf /\ got' = got
  BY DEF PacketInv, Close, WireType
<1>2. /\ Sizes(plan) /\ Len(plan) \in Nat /\ sent \in Nat /\ sent <= Len(plan)
      /\ Len(got) \in 0..sent /\ Len(buf) \in Nat /\ Len(wire) \in Nat
      /\ x \in Nat
  BY Zenon, <1>1, Counts
<1>3. wire \in Seq(Byte)
  BY Zenon, <1>1 DEF WireType
<1>4. Delivered' /\ Stopped' /\ Asked' /\ Filled' /\ Base' = Base /\ x' = x
  BY Zenon, <1>1 DEF Delivered, Stopped, Asked, Filled, Base
<1>5. wire' \in Seq(Byte) /\ (pc # "failed" =>
        \E c \in [0..sent -> Nat] : Stream(c, plan, sent, FALSE, wire', Len(got), x))
  <2>0. ASSUME pc # "failed"
        PROVE  \E c \in [0..sent -> Nat] : Stream(c, plan, sent, TRUE, wire, Len(got), x)
    BY Zenon, <1>1, <2>0 DEF Queued
  <2> HIDE DEF x
  <2>1. CASE wire' = wire
    BY ZenonT(60), <1>2, <1>3, <2>0, <2>1, StreamClose
  <2>2. CASE sent < Len(plan) /\ \E k \in 1..(Len(e) - 1) : wire' = wire \o SubSeq(e, 1, k)
    <3>1. PICK k \in 1..(Len(e) - 1) : wire' = wire \o SubSeq(e, 1, k)
      BY Zenon, <2>2
    <3>2. sent + 1 \in 1..Len(plan)
      BY SMTT(60), <1>2, <2>2
    <3>3. e \in Seq(Byte) /\ Len(e) = Size(plan, sent + 1)
      BY ZenonT(60), <1>1, <3>2, PlanSizes DEF WireType, Size
    <3>4. wire' \in Seq(Byte) /\ Longer(wire', wire, e, k)
      BY ZenonT(60), <1>3, <3>1, <3>3, Extended
    <3>5. k \in 1..(Size(plan, sent + 1) - 1)
      BY Zenon, <3>3
    <3>6. ASSUME pc # "failed"
          PROVE  \E c \in [0..sent -> Nat] : Stream(c, plan, sent, FALSE, wire', Len(got), x)
      <4>1. PICK c \in [0..sent -> Nat] : Stream(c, plan, sent, TRUE, wire, Len(got), x)
        BY Zenon, <2>0, <3>6
      <4> QED
        BY ZenonT(60), <1>2, <2>2, <3>4, <3>5, <4>1, StreamCut
    <3> QED
      BY Zenon, <3>4, <3>6
  <2> QED
    BY Zenon, <2>1, <2>2 DEF Close
<1>6. WireType'
  BY Zenon, <1>1, <1>5 DEF WireType
<1>7. Queued'
  BY ZenonT(60), <1>1, <1>4, <1>5 DEF Queued
<1> QED
  BY ZenonT(60), <1>4, <1>6, <1>7 DEF PacketInv

\* What ReadFull is to fill lies in the frame being read.
LEMMA Room ==
  ASSUME WireType, Delivered, Asked, Filled, pc # "failed", Len(got) < Len(plan)
  PROVE  /\ dataLen \in Nat /\ Base + dataLen <= Size(plan, Len(got) + 1)
         /\ Framed(plan[Len(got) + 1])
<1>1. Len(got) + 1 \in 1..Len(plan)
  BY Counts
<1>2. Framed(plan[Len(got) + 1])
  BY Zenon, <1>1, PlanSizes DEF WireType
<1>3. /\ Len(Body(plan[Len(got) + 1])) \in Nat \ {0}
      /\ Size(plan, Len(got) + 1) = Len(Body(plan[Len(got) + 1])) + W
  BY Zenon, <1>2, FrameParts DEF Size
<1>4. PICK b \in Nat, z \in Nat : b = Len(Body(plan[Len(got) + 1])) /\ z = Size(plan, Len(got) + 1) /\ z = b + W
  BY SMTT(60), <1>3, MessageAssumption
<1>5. CASE pc = "length"
  <2>1. Base = 0 /\ dataLen = W
    BY Zenon, <1>5 DEF Base, Asked
  <2> QED
    BY SMTT(60), <1>2, <1>4, <2>1, MessageAssumption
<1>6. CASE pc = "body"
  <2>1. Base = W /\ dataLen = b
    BY Zenon, <1>4, <1>6 DEF Base, Asked
  <2> QED
    BY SMTT(60), <1>2, <1>4, <2>1, MessageAssumption
<1> QED
  BY Zenon, <1>5, <1>6 DEF WireType

\* A read inside io.ReadFull.
LEMMA ReadSomeStep ==
  ASSUME PacketInv, ReadSome
  PROVE  PacketInv'
<1>1. /\ WireType /\ Delivered /\ Stopped /\ Asked /\ Filled /\ Queued
      /\ pc # "failed" /\ wire # << >> /\ wire \in Seq(Byte) /\ buf \in Seq(Byte)
      /\ plan' = plan /\ sent' = sent /\ open' = open /\ pc' = pc /\ dataLen' = dataLen /\ got' = got
  BY DEF PacketInv, ReadSome, WireType
<1>2. PICK k \in 1..Len(wire) :
        /\ k <= dataLen - Len(buf)
        /\ buf' = buf \o SubSeq(wire, 1, k)
        /\ wire' = SubSeq(wire, k + 1, Len(wire))
  BY Zenon DEF ReadSome
<1>3. /\ Sizes(plan) /\ Len(plan) \in Nat /\ sent \in Nat /\ sent <= Len(plan)
      /\ Len(got) \in 0..sent /\ Len(buf) \in Nat /\ Len(wire) \in Nat
      /\ Base \in Nat /\ Base + Len(buf) \in Nat
  BY Zenon, <1>1, Counts
<1>w. Len(wire) \in Nat \ {0}
  BY <1>2, <1>3
<1>4. PICK c \in [0..sent -> Nat] :
        Stream(c, plan, sent, open, wire, Len(got), Base + Len(buf))
  BY Zenon, <1>1 DEF Queued
<1>5. Len(got) < Len(plan)
  BY ZenonT(60), <1>3, <1>w, <1>4, StreamMore
<1>b. Continues(wire, plan, Len(got), Base + Len(buf))
  BY ZenonT(60), <1>3, <1>4, <1>5, StreamByte
<1>6. dataLen \in Nat /\ Base + dataLen <= Size(plan, Len(got) + 1)
  BY ZenonT(60), <1>1, <1>5, Room
<1> DEFINE u == SubSeq(wire, 1, k)
<1>7. /\ wire' \in Seq(Byte) /\ Shorter(wire', wire, k)
      /\ u \in Seq(Byte) /\ Len(u) = k /\ \A i \in 1..k : u[i] = wire[i]
  BY ZenonT(60), <1>1, <1>2, Taken
<1>8. buf' = buf \o u
  BY Zenon, <1>2
<1> HIDE DEF u
<1>9. buf' \in Seq(Byte) /\ Longer(buf', buf, u, k)
  BY ZenonT(60), <1>1, <1>7, <1>8, Extended
<1>10. PICK n \in Nat, d \in Nat, b \in Nat, l \in Nat, m \in Nat, y \in Nat :
         /\ n = Len(buf) /\ d = dataLen /\ b = Base /\ l = Len(wire) /\ m = k /\ m \in 1..l
         /\ y = Size(plan, Len(got) + 1)
  <2>1. Len(got) + 1 \in 1..Len(plan)
    BY SMTT(60), <1>3, <1>5
  <2>2. Size(plan, Len(got) + 1) \in Nat
    BY Zenon, <1>3, <2>1 DEF Sizes
  <2>3. k \in Nat
    BY <1>3
  <2> QED
    BY ZenonT(60), <1>3, <1>6, <2>2, <2>3
<1>11. m <= d - n /\ b + d <= y
  BY ZenonT(60), <1>2, <1>6, <1>10
<1>12. n + m <= d /\ b + (n + m) = (b + n) + m /\ n + m # 0
  BY SMTT(60), <1>10, <1>11
<1>13. \A i \in 1..m : i \in 1..l /\ (b + n) + i <= y /\ (b + n) + i = b + (n + i)
  BY SMTT(60), <1>10, <1>11
<1>14. Len(buf') = n + m
  BY Zenon, <1>9, <1>10 DEF Longer
<1>15. Base' = Base
  BY Zenon, <1>1 DEF Base
<1>16. Filled'
  <2> DEFINE e == Encode(plan[Len(got) + 1])
  <2>1. ASSUME NEW i \in 1..n PROVE buf'[i] = e[b + i]
    <3>1. buf'[i] = buf[i]
      BY Zenon, <1>9, <1>10 DEF Longer
    <3>2. buf[i] = e[b + i]
      BY Zenon, <1>1, <1>10 DEF Filled
    <3> QED
      BY Zenon, <3>1, <3>2
  <2>2. ASSUME NEW i \in 1..m PROVE buf'[n + i] = e[b + (n + i)]
    <3>1. buf'[n + i] = wire[i]
      <4>1. i \in 1..k
        BY Zenon, <1>10
      <4>2. buf'[Len(buf) + i] = u[i]
        BY Zenon, <1>9, <4>1 DEF Longer
      <4> QED
        BY ZenonT(60), <1>7, <1>10, <4>1, <4>2
    <3>2. i \in 1..Len(wire) /\ (Base + Len(buf)) + i <= Size(plan, Len(got) + 1)
      BY Zenon, <1>10, <1>13
    <3>3. wire[i] = e[(Base + Len(buf)) + i]
      BY Zenon, <1>b, <3>2 DEF Continues
    <3>4. wire[i] = e[(b + n) + i]
      BY Zenon, <1>10, <3>3
    <3>5. (b + n) + i = b + (n + i)
      BY Zenon, <1>13
    <3> QED
      BY Zenon, <3>1, <3>4, <3>5
  <2> HIDE DEF e
  <2>3. ASSUME NEW i \in 1..(n + m) PROVE buf'[i] = e[b + i]
    <3>1. i \in 1..n \/ \E j \in 1..m : i = n + j
      <4>1. i <= n \/ (i - n \in 1..m /\ i = n + (i - n))
        OBVIOUS
      <4> QED
        BY <4>1
    <3> QED
      BY ZenonT(60), <2>1, <2>2, <3>1
  <2> QED
    BY ZenonT(60), <1>1, <1>5, <1>10, <1>12, <1>14, <1>15, <2>3 DEF Filled, e
<1>17. Queued'
  <2>1. Stream(c, plan, sent, open, wire', Len(got), (Base + Len(buf)) + k)
    BY ZenonT(60), <1>3, <1>4, <1>2, <1>7, StreamRead
  <2>2. (Base + Len(buf)) + k = Base' + Len(buf')
    BY ZenonT(60), <1>10, <1>12, <1>14, <1>15
  <2> QED
    BY ZenonT(60), <1>1, <2>1, <2>2 DEF Queued
<1>18. WireType' /\ Delivered' /\ Stopped' /\ Asked'
  BY ZenonT(60), <1>1, <1>7, <1>9 DEF WireType, Delivered, Stopped, Asked
<1> QED
  BY ZenonT(60), <1>16, <1>17, <1>18 DEF PacketInv

\* ReadFull meets the end of the stream.
LEMMA ReadFailsStep ==
  ASSUME PacketInv, ReadFails
  PROVE  PacketInv'
<1>1. /\ WireType /\ Delivered /\ Stopped /\ Asked /\ Filled /\ Queued
      /\ pc # "failed" /\ wire = << >> /\ ~open /\ Len(buf) < dataLen /\ pc' = "failed"
      /\ plan' = plan /\ sent' = sent /\ open' = open /\ dataLen' = dataLen /\ got' = got
      /\ buf' = buf /\ wire' = wire
  BY DEF PacketInv, ReadFails
<1>2. /\ Sizes(plan) /\ Len(plan) \in Nat /\ sent \in Nat /\ sent <= Len(plan)
      /\ Len(got) \in 0..sent /\ Len(buf) \in Nat
      /\ Base \in Nat /\ Base + Len(buf) \in Nat
  BY Zenon, <1>1, Counts
<1>3. Len(wire) = 0
  BY Zenon, <1>1
<1>4. PICK c \in [0..sent -> Nat] :
        Stream(c, plan, sent, open, wire, Len(got), Base + Len(buf))
  BY Zenon, <1>1 DEF Queued
<1>5. ASSUME Len(got) < Len(plan) PROVE Base + Len(buf) < Size(plan, Len(got) + 1)
  <2>1. dataLen \in Nat /\ Base + dataLen <= Size(plan, Len(got) + 1)
    BY ZenonT(60), <1>1, <1>5, Room
  <2>2. Len(got) + 1 \in 1..Len(plan)
    BY SMTT(60), <1>2, <1>5
  <2>3. Size(plan, Len(got) + 1) \in Nat
    BY Zenon, <1>2, <2>2 DEF Sizes
  <2> QED
    BY SMTT(60), <1>1, <1>2, <2>1, <2>3
<1>6. Len(got) = sent
  BY ZenonT(60), <1>2, <1>3, <1>4, <1>5, StreamEnd
<1>7. WireType' /\ Delivered' /\ Stopped' /\ Asked' /\ Filled' /\ Queued'
  BY Zenon, <1>1, <1>6 DEF WireType, Delivered, Stopped, Asked, Filled, Queued
<1> QED
  BY Zenon, <1>7 DEF PacketInv

\* ReadPacket has the length and goes on to the body, or refuses.
LEMMA LengthReadStep ==
  ASSUME PacketInv, LengthRead
  PROVE  PacketInv'
<1> DEFINE m == plan[Len(got) + 1]
           z == Size(plan, Len(got) + 1)
<1>1. /\ WireType /\ Delivered /\ Stopped /\ Asked /\ Filled /\ Queued
      /\ pc = "length" /\ Len(buf) = W /\ buf \in Seq(Byte)
      /\ plan' = plan /\ sent' = sent /\ open' = open /\ wire' = wire /\ got' = got
  BY DEF PacketInv, LengthRead, WireType
<1>2. Base = 0 /\ pc # "failed"
  BY Zenon, <1>1 DEF Base
<1>3. /\ Len(plan) \in Nat /\ sent \in Nat /\ Len(got) \in 0..sent
  BY Zenon, <1>1, Counts
<1>4. Len(got) < Len(plan)
  <2>1. buf # << >>
    BY Zenon, <1>1, MessageAssumption
  <2> QED
    BY ZenonT(60), <1>1, <1>2, <2>1 DEF Filled
<1>5. Framed(m)
  BY ZenonT(60), <1>1, <1>2, <1>4, Room
<1>6. /\ Len(Body(m)) \in Nat \ {0} /\ z = Len(Body(m)) + W
      /\ \A k \in 1..W : Encode(m)[k] = PutUint64(z)[k]
      /\ Uint64(PutUint64(z)) = z
  BY Zenon, <1>5, FrameParts DEF Size
<1> HIDE DEF m, z
<1>7. buf = PutUint64(z)
  <2>1. ASSUME NEW k \in 1..W PROVE buf[k] = PutUint64(z)[k]
    <3>1. buf[k] = Encode(m)[0 + k]
      BY Zenon, <1>1, <1>2 DEF Filled, m
    <3>2. 0 + k = k
      OBVIOUS
    <3> QED
      BY ZenonT(60), <1>6, <3>1, <3>2
  <2>2. buf = [k \in 1..W |-> buf[k]]
    BY Zenon, <1>1, LenProperties
  <2>3. PutUint64(z) = [k \in 1..W |-> PutUint64(z)[k]]
    BY Zenon DEF PutUint64
  <2> QED
    BY ZenonT(60), <2>1, <2>2, <2>3
<1>8. Uint64(buf) = z /\ ~(z <= W) /\ z \in Nat /\ z - W = Len(Body(m))
  <2>1. z \in Nat /\ ~(z <= W) /\ z - W = Len(Body(m))
    BY SMTT(60), <1>6, MessageAssumption
  <2> QED
    BY ZenonT(60), <1>6, <1>7, <2>1
<1>m. MaxMsgLen \in Nat
  BY Zenon, LimitIsNat
<1>9. \/ z > MaxMsgLen /\ pc' = "failed"
      \/ ~(z > MaxMsgLen) /\ pc' = "body" /\ dataLen' = Len(Body(m)) /\ buf' = << >>
  BY Zenon, <1>8 DEF LengthRead
<1>10. Delivered'
  BY Zenon, <1>1 DEF Delivered
<1>11. CASE z > MaxMsgLen /\ pc' = "failed"
  <2>1. buf' = buf
    BY ZenonT(60), <1>8, <1>11 DEF LengthRead
  <2>2. WireType' /\ Asked' /\ Filled' /\ Queued'
    BY ZenonT(60), <1>1, <1>11, <2>1 DEF WireType, Asked, Filled, Queued
  <2>3. ASSUME Len(got) = sent, open
        PROVE  FALSE
    <3>1. PICK c \in [0..sent -> Nat] : Stream(c, plan, sent, TRUE, wire, sent, 0 + W)
      BY ZenonT(60), <1>1, <1>2, <2>3 DEF Queued, WireType
    <3>2. wire \in Seq(Byte) /\ 0 + W \in Nat \ {0}
      BY SMTT(60), <1>1, MessageAssumption DEF WireType
    <3> QED
      BY ZenonT(60), <1>3, <3>1, <3>2, StreamOpen
  <2>4. Len(got) < sent \/ Len(got) = sent
    BY <1>3
  <2>5. Stopped'
    BY ZenonT(60), <1>1, <1>11, <2>3, <2>4 DEF Stopped, z
  <2> QED
    BY ZenonT(60), <1>10, <2>2, <2>5 DEF PacketInv
<1>12. CASE ~(z > MaxMsgLen) /\ pc' = "body" /\ dataLen' = Len(Body(m)) /\ buf' = << >>
  <2>1. buf' \in Seq(Byte) /\ Len(buf') = 0
    BY <1>12
  <2>2. WireType' /\ Stopped'
    BY ZenonT(60), <1>1, <1>12, <2>1 DEF WireType, Stopped
  <2>3. z <= MaxMsgLen
    BY SMTT(60), <1>8, <1>m, <1>12
  <2>4. Asked'
    BY ZenonT(60), <1>1, <1>4, <1>12, <2>3 DEF Asked, m, z
  <2>5. Filled'
    <3>1. Len(buf') <= dataLen' /\ 1..Len(buf') = {}
      BY SMTT(60), <1>6, <1>12, <2>1
    <3> QED
      BY Zenon, <1>12, <3>1 DEF Filled
  <2>6. Queued'
    <3>1. Base' = W
      BY Zenon, <1>12 DEF Base
    <3>2. W + 0 = 0 + W
      BY MessageAssumption
    <3>3. Base' + Len(buf') = Base + Len(buf)
      BY ZenonT(60), <1>1, <1>2, <2>1, <3>1, <3>2
    <3> QED
      BY ZenonT(60), <1>1, <1>2, <3>3 DEF Queued
  <2> QED
    BY ZenonT(60), <1>10, <2>2, <2>4, <2>5, <2>6 DEF PacketInv
<1> QED
  BY ZenonT(60), <1>9, <1>11, <1>12

\* ReadPacket returns the body.
LEMMA BodyReadStep ==
  ASSUME PacketInv, BodyRead
  PROVE  PacketInv'
<1> DEFINE g == Len(got)
           m == plan[g + 1]
<1>1. /\ WireType /\ Delivered /\ Stopped /\ Asked /\ Filled /\ Queued
      /\ pc = "body" /\ Len(buf) = dataLen /\ buf \in Seq(Byte) /\ got \in Seq(Seq(Byte))
      /\ got' = Append(got, buf) /\ pc' = "length" /\ dataLen' = W /\ buf' = << >>
      /\ plan' = plan /\ sent' = sent /\ open' = open /\ wire' = wire
  BY DEF PacketInv, BodyRead, WireType
<1>2. Base = W /\ pc # "failed" /\ Base' = 0
  BY Zenon, <1>1 DEF Base
<1>3. /\ Sizes(plan) /\ Len(plan) \in Nat /\ sent \in Nat /\ sent <= Len(plan)
      /\ g \in 0..sent /\ Len(wire) \in Nat
  BY Zenon, <1>1, Counts
<1>4. g < Len(plan) /\ Size(plan, g + 1) <= MaxMsgLen /\ Len(buf) = Len(Body(m))
  BY Zenon, <1>1 DEF Asked
<1>5. Framed(m)
  BY ZenonT(60), <1>1, <1>2, <1>4, Room
<1>6. /\ Body(m) \in Seq(Byte) /\ Len(Body(m)) \in Nat
      /\ Size(plan, g + 1) = Len(Body(m)) + W
      /\ \A k \in 1..Len(Body(m)) : Encode(m)[W + k] = Body(m)[k]
  BY Zenon, <1>5, FrameParts DEF Size
<1>7. buf = Body(m)
  <2>1. ASSUME NEW k \in 1..Len(buf) PROVE buf[k] = Body(m)[k]
    <3>1. buf[k] = Encode(m)[W + k]
      BY ZenonT(60), <1>1, <1>2 DEF Filled
    <3> QED
      BY ZenonT(60), <1>4, <1>6, <3>1
  <2> QED
    BY ZenonT(60), <1>1, <1>4, <1>6, <2>1, SeqEqual
<1>8. /\ got' \in Seq(Seq(Byte)) /\ Len(got') = g + 1 /\ got'[g + 1] = buf
      /\ \A i \in 1..g : got'[i] = got[i]
  BY SMTT(60), <1>1, AppendProperties
<1>9. PICK c \in [0..sent -> Nat] : Stream(c, plan, sent, open, wire, g, Base + Len(buf))
  BY Zenon, <1>1, <1>2 DEF Queued
<1>10. Base + Len(buf) = Size(plan, g + 1)
  <2>1. W + Len(Body(m)) = Len(Body(m)) + W
    BY <1>6, MessageAssumption
  <2> QED
    BY ZenonT(60), <1>2, <1>4, <1>6, <2>1
<1>11. Stream(c, plan, sent, open, wire, g, Size(plan, g + 1))
  BY Zenon, <1>9, <1>10
<1>12. g < sent /\ Stream(c, plan, sent, open, wire, g + 1, 0)
  BY ZenonT(60), <1>3, <1>4, <1>11, StreamNext
<1>13. Len(buf') = 0 /\ buf' \in Seq(Byte)
  BY <1>1
<1>14. WireType' /\ Stopped'
  BY ZenonT(60), <1>1, <1>8, <1>13 DEF WireType, Stopped
<1>15. Delivered'
  <2>1. g + 1 <= sent
    BY SMTT(60), <1>3, <1>12
  <2>2. ASSUME NEW i \in 1..(g + 1) PROVE got'[i] = Body(plan[i]) /\ Size(plan, i) <= MaxMsgLen
    <3>1. CASE i \in 1..g
      <4>1. got[i] = Body(plan[i]) /\ Size(plan, i) <= MaxMsgLen
        BY Zenon, <1>1, <3>1 DEF Delivered
      <4> QED
        BY ZenonT(60), <1>8, <3>1, <4>1
    <3>2. CASE i = g + 1
      BY Zenon, <1>4, <1>7, <1>8, <3>2
    <3> QED
      BY SMTT(60), <1>3, <3>1, <3>2
  <2> QED
    BY ZenonT(60), <1>1, <1>8, <2>1, <2>2 DEF Delivered
<1>16. Asked'
  BY Zenon, <1>1 DEF Asked
<1>17. Filled'
  <2>1. Len(buf') <= W /\ 1..Len(buf') = {}
    BY SMTT(60), <1>13, MessageAssumption
  <2> QED
    BY Zenon, <1>1, <2>1 DEF Filled
<1>18. Queued'
  <2>1. Base' + Len(buf') = 0
    BY SMTT(60), <1>2, <1>13
  <2>2. Stream(c, plan', sent', open', wire', Len(got'), Base' + Len(buf'))
    <3>1. plan' = plan /\ sent' = sent /\ open' = open /\ wire' = wire /\ Len(got') = g + 1
      BY Zenon, <1>1, <1>8
    <3> QED
      BY ZenonT(60), <1>12, <2>1, <3>1
  <2> QED
    BY ZenonT(60), <1>1, <2>2 DEF Queued
<1> QED
  BY ZenonT(60), <1>14, <1>15, <1>16, <1>17, <1>18 DEF PacketInv

\* The invariant of the packets holds.
LEMMA PacketsHold == WireSpec => []PacketInv
<1>1. WireInit => PacketInv
  <2> SUFFICES ASSUME WireInit PROVE PacketInv
    OBVIOUS
  <2>1. /\ plan \in Plans /\ sent = 0 /\ open = TRUE /\ pc = "length" /\ dataLen = W
        /\ wire = << >> /\ buf = << >> /\ got = << >>
    BY Zenon DEF WireInit
  <2>2. Sizes(plan) /\ Len(plan) \in Nat
    BY Zenon, <2>1, PlanSizes DEF Sizes
  <2>3. /\ Len(wire) = 0 /\ Len(buf) = 0 /\ Len(got) = 0 /\ wire \in Seq(Byte)
        /\ buf \in Seq(Byte) /\ got \in Seq(Seq(Byte)) /\ Base = 0
    BY <2>1 DEF Base
  <2>4. WireType
    BY SMTT(60), <2>1, <2>2, <2>3 DEF WireType
  <2>5. Delivered /\ Stopped /\ Asked /\ Filled
    BY SMTT(60), <2>1, <2>3, MessageAssumption DEF Delivered, Stopped, Asked, Filled
  <2>6. Queued
    <3> DEFINE c == [j \in 0..0 |-> 0]
    <3>1. c \in [0..0 -> Nat] /\ c[0] = 0
      OBVIOUS
    <3> HIDE DEF c
    <3>2. Layout(c, plan, 0)
      BY <3>1 DEF Layout
    <3>3. Extent(c, plan, 0, TRUE, 0)
      <4>1. ASSUME 0 < Len(plan) PROVE Size(plan, 0 + 1) \in Nat \ {0}
        BY SMTT(60), <2>2, <4>1 DEF Sizes
      <4> QED
        BY SMTT(60), <2>2, <3>1, <4>1 DEF Extent
    <3>4. FrameBytes(c, plan, 0, wire, 0)
      BY <2>3 DEF FrameBytes
    <3>5. Stream(c, plan, 0, TRUE, wire, 0, 0)
      BY SMTT(60), <2>3, <3>1, <3>2, <3>3, <3>4 DEF Stream
    <3>6. Base + Len(buf) = 0
      BY <2>3
    <3> QED
      BY ZenonT(60), <2>1, <2>3, <3>1, <3>5, <3>6 DEF Queued
  <2> QED
    BY ZenonT(60), <2>4, <2>5, <2>6 DEF PacketInv
<1>2. PacketInv /\ [WireNext]_wireVars => PacketInv'
  <2> SUFFICES ASSUME PacketInv, [WireNext]_wireVars PROVE PacketInv'
    OBVIOUS
  <2>1. CASE UNCHANGED wireVars
    BY Zenon, <2>1 DEF wireVars, PacketInv, WireType, Delivered, Stopped, Asked, Filled, Queued, Base
  <2> QED
    BY ZenonT(60), <2>1, SendStep, CloseStep, ReadSomeStep, ReadFailsStep, LengthReadStep, BodyReadStep
       DEF WireNext, Reader
<1> QED
  BY <1>1, <1>2, PTL DEF WireSpec

\* Whatever messages are written, however the socket cuts them up and wherever
\* the writer dies, when ReadPacket gives up it has returned every message
\* written whole before one over maxMsgLen, and nothing else.
THEOREM PacketsAreCutClean == WireSpec => []CutClean
<1>1. PacketInv => CutClean
  <2> SUFFICES ASSUME PacketInv, pc = "failed", NEW i \in 1..Len(plan)
               PROVE  i <= Len(got) <=> i <= sent /\ \A j \in 1..i : Size(plan, j) <= MaxMsgLen
    BY DEF CutClean, Size
  <2>1. WireType /\ Delivered /\ Stopped
    BY DEF PacketInv
  <2>2. /\ Sizes(plan) /\ Len(plan) \in Nat /\ sent \in Nat /\ sent <= Len(plan)
        /\ Len(got) \in 0..sent
    BY Zenon, <2>1, Counts
  <2>3. \A j \in 1..Len(got) : Size(plan, j) <= MaxMsgLen
    BY Zenon, <2>1 DEF Delivered
  <2>4. ASSUME i <= Len(got) PROVE i <= sent /\ \A j \in 1..i : Size(plan, j) <= MaxMsgLen
    <3>1. \A j \in 1..i : j \in 1..Len(got)
      BY <2>2, <2>4
    <3>2. i <= sent
      BY <2>2, <2>4
    <3> QED
      BY Zenon, <2>3, <3>1, <3>2
  <2>5. ASSUME i <= sent, \A j \in 1..i : Size(plan, j) <= MaxMsgLen, ~(i <= Len(got))
        PROVE  FALSE
    <3>1. Len(got) # sent /\ Len(got) + 1 \in 1..i /\ Len(got) + 1 \in 1..Len(plan)
      BY <2>2, <2>5
    <3>2. Size(plan, Len(got) + 1) > MaxMsgLen
      BY Zenon, <2>1, <3>1 DEF Stopped
    <3>3. Size(plan, Len(got) + 1) <= MaxMsgLen
      BY Zenon, <2>5, <3>1
    <3>4. Size(plan, Len(got) + 1) \in Nat
      BY Zenon, <2>2, <3>1 DEF Sizes
    <3>5. MaxMsgLen \in Nat
      BY Zenon, LimitIsNat
    <3> QED
      BY SMTT(60), <3>2, <3>3, <3>4, <3>5
  <2> QED
    BY Zenon, <2>4, <2>5
<1> QED
  BY <1>1, PacketsHold, PTL

\* A step of the stream is one of the channel, or none.
LEMMA ChannelStep ==
  ASSUME PacketInv, PacketInv', [WireNext]_wireVars
  PROVE  [AsChannel!Write \/ AsChannel!HangUp \/ AsChannel!Read \/ AsChannel!End]_(AsChannel!cvars)
<1>1. CASE Send
  BY Zenon, <1>1 DEF Send, AsChannel!Write
<1>2. CASE Close
  BY Zenon, <1>2 DEF Close, AsChannel!HangUp, PacketInv, WireType
<1>3. CASE ReadSome \/ UNCHANGED wireVars
  BY Zenon, <1>3 DEF ReadSome, wireVars, AsChannel!cvars
<1>4. ASSUME pc # "failed", pc' = "failed", UNCHANGED <<plan, sent, open, got>>
      PROVE  AsChannel!End
  <2>1. \/ Len(got) = sent /\ ~open
        \/ Len(got) < sent /\ ~Fits(plan[Len(got) + 1])
    <3>1. ASSUME Len(got) < sent, Size(plan, Len(got) + 1) > MaxMsgLen
          PROVE  ~(Size(plan, Len(got) + 1) <= MaxMsgLen)
      <4>1. /\ Sizes(plan) /\ Len(plan) \in Nat /\ sent \in Nat /\ sent <= Len(plan)
            /\ Len(got) \in 0..sent
        BY Zenon, Counts DEF PacketInv
      <4>2. Size(plan, Len(got) + 1) \in Nat
        BY <3>1, <4>1 DEF Sizes
      <4> QED
        BY SMTT(60), <3>1, <4>2, LimitIsNat
    <3> QED
      BY Zenon, <1>4, <3>1 DEF PacketInv, Stopped, Fits, Size
  <2> QED
    BY Zenon, <1>4, <2>1 DEF AsChannel!End
<1>5. CASE ReadFails
  BY Zenon, <1>4, <1>5 DEF ReadFails
<1>6. CASE LengthRead
  <2>1. pc = "length" /\ pc' \in {"failed", "body"} /\ UNCHANGED <<plan, sent, open, got>>
    BY Zenon, <1>6 DEF LengthRead
  <2>2. CASE pc' = "failed"
    BY ZenonT(60), <1>4, <2>1, <2>2
  <2>3. CASE pc' = "body"
    BY ZenonT(60), <2>1, <2>3 DEF AsChannel!cvars
  <2> QED
    BY Zenon, <2>1, <2>2, <2>3
<1>7. CASE BodyRead
  <2>1. /\ pc = "body" /\ pc' = "length" /\ got' = Append(got, buf)
        /\ UNCHANGED <<plan, sent, open>>
    BY Zenon, <1>7 DEF BodyRead
  <2>2. got \in Seq(Seq(Byte)) /\ buf \in Seq(Byte)
    BY Zenon DEF PacketInv, WireType
  <2>3. Len(got') = Len(got) + 1 /\ got'[Len(got) + 1] = buf /\ Len(got) \in Nat
    BY ZenonT(60), <2>1, <2>2, AppendProperties, LenProperties
  <2>4. /\ Len(got) + 1 <= sent /\ sent \in Nat
        /\ \A i \in 1..(Len(got) + 1) : got'[i] = Body(plan[i]) /\ Size(plan, i) <= MaxMsgLen
    BY Zenon, <2>1, <2>3, Counts DEF PacketInv, Delivered
  <2>5. Len(got) < sent /\ Len(got) + 1 \in 1..(Len(got) + 1)
    BY SMTT(60), <2>3, <2>4
  <2>6. buf = Body(plan[Len(got) + 1]) /\ Fits(plan[Len(got) + 1])
    BY ZenonT(60), <2>3, <2>4, <2>5 DEF Fits, Size
  <2> QED
    BY ZenonT(60), <2>1, <2>5, <2>6 DEF AsChannel!Read
<1> QED
  BY ZenonT(60), <1>1, <1>2, <1>3, <1>5, <1>6, <1>7 DEF WireNext, Reader

\* The stream, with its lengths, partial reads and a writer that may die inside
\* a message, implements a channel that hands over whole packets in order and
\* reports the end behind the last of them or at one over maxMsgLen: what the
\* dialogues of Requests are built on.
THEOREM StreamIsChannel == WireSpec => ImplementsChannel
<1>1. WireInit => AsChannel!Init
  BY Zenon DEF WireInit, AsChannel!Init
<1>2. PacketInv /\ PacketInv' /\ [WireNext]_wireVars
        => [AsChannel!Write \/ AsChannel!HangUp \/ AsChannel!Read \/ AsChannel!End]_(AsChannel!cvars)
  BY Zenon, ChannelStep
<1> QED
  BY <1>1, <1>2, PacketsHold, PTL DEF WireSpec, ImplementsChannel, AsChannel!Spec

\* A packet ReadPacket returns is the body of the message written at its place:
\* framing adds nothing to what Decode is given and takes nothing from it.
THEOREM PacketsAreVerbatim ==
  WireSpec => [](Len(got) <= sent /\ \A i \in 1..Len(got) : got[i] = Body(plan[i]))
<1>1. PacketInv => Len(got) <= sent /\ \A i \in 1..Len(got) : got[i] = Body(plan[i])
  BY ZenonT(60) DEF PacketInv, Delivered
<1> QED
  BY <1>1, PacketsHold, PTL

\* So a message is read as what was encoded, whatever its fields hold, whatever
\* is written before and behind it, and however its bytes arrive; one of the
\* types with two layouts arrives as it was written.
THEOREM PacketsAreFaithful == WireSpec => []Faithful
<1>1. PacketInv => Faithful
  <2> SUFFICES ASSUME PacketInv, NEW i \in DOMAIN got
               PROVE  /\ i <= sent /\ got[i] = Body(plan[i])
                      /\ plan[i].type \notin Unpaired => Decode(got[i]) = Meaning(plan[i])
    BY DEF Faithful
  <2>1. WireType /\ Delivered
    BY DEF PacketInv
  <2>2. i \in 1..Len(got)
    BY ZenonT(60), <2>1, LenProperties DEF WireType
  <2>3. i <= sent /\ i \in 1..Len(plan)
    BY SMTT(60), <2>1, <2>2, Counts
  <2>4. Framed(plan[i])
    BY ZenonT(60), <2>1, <2>3, PlanSizes DEF WireType
  <2>5. plan[i].type \notin Unpaired => Decode(Body(plan[i])) = Meaning(plan[i])
    BY Zenon, <2>4, RoundTrip DEF Framed
  <2> QED
    BY ZenonT(60), <2>1, <2>2, <2>3, <2>5 DEF Delivered
<1> QED
  BY <1>1, PacketsHold, PTL
=============================================================================
