---------------------------- MODULE CodecProofs ----------------------------
(***************************************************************************)
(* What Encode puts on the wire, Decode reads back: proved for every       *)
(* message of the protocol and every value of its fields.  The loops of    *)
(* the codec (the bytes of a number, the search for the end of a string,   *)
(* the settings, the object list) are recursive functions; what they       *)
(* compute is found by induction on their length, through the least number *)
(* at which it would fail (Least, Upto).                                   *)
(***************************************************************************)
EXTENDS Message, SequenceTheorems, WellFoundedInduction, TLAPS

\* A set of numbers has a least one.
LEMMA Least ==
  ASSUME NEW T, T \subseteq Nat, T # {}
  PROVE  \E n \in T : \A m \in T : n <= m
<1>1. PICK x \in T : \A y \in T : ~(<<y, x>> \in OpToRel(<, Nat))
  BY NatLessThanWellFounded, WFMin, Zenon
<1>2. \A y \in T : ~(y < x)
  BY Zenon, <1>1 DEF OpToRel
<1> QED
  BY <1>2

\* So what holds at 0 and of the next number when it holds of one, holds up to
\* any bound.
LEMMA Upto ==
  ASSUME NEW n \in Nat, NEW T, 0 \in T,
         \A i \in 1..n : i - 1 \in T => i \in T
  PROVE  \A i \in 0..n : i \in T
<1> DEFINE B == {i \in 0..n : i \notin T}
<1> SUFFICES ASSUME B # {} PROVE FALSE
  OBVIOUS
<1>1. PICK i \in B : \A j \in B : i <= j
  <2>1. B \subseteq Nat
    OBVIOUS
  <2> HIDE DEF B
  <2> QED
    BY Zenon, <2>1, Least
<1>2. i \in 1..n /\ i - 1 \notin B
  BY <1>1
<1> QED
  BY <1>2

\* Functions that agree everywhere are one.
FunctionOn(S, f) == f = [x \in S |-> f[x]]
Agree(S, f, g) == \A x \in S : f[x] = g[x]

\* Two functions on S with the same values are equal.
LEMMA SameFunction ==
  ASSUME NEW S, NEW f, NEW g, FunctionOn(S, f), FunctionOn(S, g), Agree(S, f, g)
  PROVE  f = g
<1>1. [x \in S |-> f[x]] = [x \in S |-> g[x]]
  BY Zenon DEF Agree
<1> QED
  BY Zenon, <1>1 DEF FunctionOn

\* g starts at v and goes on by the functions F[1], F[2], ... of V to V.
Steps(n, V, v, F, g) ==
  g \in [0..n -> V] /\ g[0] = v /\ \A i \in 1..n : g[i] = F[i][g[i - 1]]

\* There is such a g: what every loop of the codec computes.
LEMMA Iterate ==
  ASSUME NEW n \in Nat, NEW V, NEW v \in V, NEW F \in [1..n -> [V -> V]]
  PROVE  \E g : Steps(n, V, v, F, g)
<1> DEFINE Good(m) == \E g : Steps(m, V, v, F, g)
           T == {m \in 0..n : Good(m)}
<1>1. 0 \in T
  <2> DEFINE g == [i \in 0..0 |-> v]
  <2>1. Steps(0, V, v, F, g)
    BY DEF Steps
  <2> HIDE DEF g
  <2>2. Good(0)
    BY Zenon, <2>1
  <2> HIDE DEF Good
  <2> QED
    BY <2>2
<1>2. ASSUME NEW m \in 1..n, m - 1 \in T PROVE m \in T
  <2>1. PICK g : Steps(m - 1, V, v, F, g)
    BY Zenon, <1>2
  <2>2. g \in [0..(m - 1) -> V] /\ g[0] = v /\ \A i \in 1..(m - 1) : g[i] = F[i][g[i - 1]]
    BY Zenon, <2>1 DEF Steps
  <2>3. PICK u \in V : u = F[m][g[m - 1]]
    BY <2>2
  <2> DEFINE h == [i \in 0..m |-> IF i = m THEN u ELSE g[i]]
  <2>4. h \in [0..m -> V] /\ h[0] = v /\ h[m] = u /\ \A i \in 0..(m - 1) : h[i] = g[i]
    BY <2>2
  <2> HIDE DEF h
  <2>5. ASSUME NEW i \in 1..m PROVE h[i] = F[i][h[i - 1]]
    <3>1. h[i - 1] = g[i - 1]
      BY <2>4
    <3>2. CASE i = m
      BY Zenon, <2>3, <2>4, <3>1, <3>2
    <3>3. CASE i # m
      <4>1. i \in 1..(m - 1) /\ i \in 0..(m - 1)
        BY <3>3
      <4> QED
        BY Zenon, <2>2, <2>4, <3>1, <4>1
    <3> QED
      BY <3>2, <3>3
  <2>6. Steps(m, V, v, F, h)
    BY Zenon, <2>4, <2>5 DEF Steps
  <2>7. Good(m)
    BY Zenon, <2>6
  <2> HIDE DEF Good
  <2> QED
    BY <2>7
<1>3. n \in T
  <2> HIDE DEF T
  <2>1. \A i \in 0..n : i \in T
    BY Zenon, <1>1, <1>2, Upto
  <2> QED
    BY <2>1
<1> QED
  BY Zenon, <1>3

-----------------------------------------------------------------------------
(* Numbers                                                                 *)

\* Place is what its definition says.
LEMMA PlaceDef ==
  /\ Place \in [0..W -> Nat \ {0}]
  /\ Place[0] = 1
  /\ \A i \in 1..W : Place[i] = 256 * Place[i - 1]
<1> USE MessageAssumption
<1> DEFINE P == Nat \ {0}
           F == [i \in 1..W |-> [u \in P |-> 256 * u]]
           Step(f) == [i \in 0..W |-> IF i = 0 THEN 1 ELSE 256 * f[i - 1]]
<1>1. F \in [1..W -> [P -> P]] /\ \A i \in 1..W : \A u \in P : F[i][u] = 256 * u
  OBVIOUS
<1>2. PICK g : Steps(W, P, 1, F, g)
  <2>1. 1 \in P /\ W \in Nat
    OBVIOUS
  <2> HIDE DEF P, F
  <2> QED
    BY Zenon, <1>1, <2>1, Iterate
<1> HIDE DEF F
<1>3. g = Step(g)
  <2>1. /\ g \in [0..W -> P] /\ g[0] = 1
        /\ \A i \in 1..W : g[i] = F[i][g[i - 1]]
    BY Zenon, <1>2 DEF Steps
  <2>6. FunctionOn(0..W, g)
    BY Zenon, <2>1 DEF FunctionOn
  <2>2. \A i \in 1..W : g[i - 1] \in P
    BY <2>1
  <2>3. \A i \in 1..W : g[i] = 256 * g[i - 1]
    <3> SUFFICES ASSUME NEW i \in 1..W PROVE g[i] = 256 * g[i - 1]
      OBVIOUS
    <3> HIDE DEF P
    <3>1. PICK u \in P : u = g[i - 1]
      BY Zenon, <2>2
    <3>2. F[i][u] = 256 * u /\ g[i] = F[i][u]
      BY SMTT(60), <1>1, <2>1, <3>1
    <3> QED
      BY Zenon, <3>1, <3>2
  <2>4. \A i \in 0..W : g[i] = IF i = 0 THEN 1 ELSE 256 * g[i - 1]
    BY <2>1, <2>3
  <2>5. /\ FunctionOn(0..W, Step(g))
        /\ \A i \in 0..W : Step(g)[i] = IF i = 0 THEN 1 ELSE 256 * g[i - 1]
    BY Zenon DEF FunctionOn
  <2> HIDE DEF Step
  <2>7. Agree(0..W, g, Step(g))
    BY SMTT(60), <2>4, <2>5 DEF Agree
  <2> QED
    BY Zenon, <2>5, <2>6, <2>7, SameFunction
<1>4. Place = Step(Place)
  <2>1. Place = CHOOSE f : f = Step(f)
    BY DEF Place
  <2> HIDE DEF Step
  <2> QED
    BY Zenon, <1>3, <2>1
<1>s. /\ DOMAIN Step(Place) = 0..W /\ Step(Place) = [i \in 0..W |-> Step(Place)[i]]
      /\ \A i \in 0..W : Step(Place)[i] = IF i = 0 THEN 1 ELSE 256 * Place[i - 1]
  BY Zenon
<1> HIDE DEF Step
<1>5. Place[0] = 1 /\ \A i \in 1..W : Place[i] = 256 * Place[i - 1]
  <2>1. \A i \in 0..W : Place[i] = IF i = 0 THEN 1 ELSE 256 * Place[i - 1]
    BY Zenon, <1>4, <1>s
  <2> QED
    BY <2>1
<1>6. \A i \in 0..W : Place[i] \in P
  <2> DEFINE T == {i \in 0..W : Place[i] \in P}
  <2>1. 0 \in T
    BY <1>5
  <2>2. \A i \in 1..W : i - 1 \in T => i \in T
    BY <1>5
  <2> HIDE DEF T
  <2>3. \A i \in 0..W : i \in T
    BY Zenon, <2>1, <2>2, Upto
  <2> QED
    BY <2>3 DEF T
<1>8. Place = [i \in 0..W |-> Place[i]]
  BY Zenon, <1>4, <1>s
<1> HIDE DEF P
<1>9. Place \in [0..W -> P]
  BY <1>6, <1>8
<1> QED
  BY Zenon, <1>5, <1>9 DEF P

\* The byte at a place and the bytes before it are the number down to there.
LEMMA Digit ==
  ASSUME NEW n \in Nat, NEW d \in Nat \ {0}
  PROVE  /\ n \div d \in Nat /\ n \div (256 * d) \in Nat
         /\ 256 * (n \div (256 * d)) + ((n \div d) % 256) = n \div d
<1>1. PICK q \in Nat, r \in Nat : q = n \div d /\ n = d * q + r /\ r < d
  OBVIOUS
<1>2. PICK e \in Nat \ {0} : e = 256 * d
  OBVIOUS
<1>3. PICK Q \in Nat, R \in Nat : Q = n \div e /\ n = e * Q + R /\ R < e
  OBVIOUS
<1>4. 256 * Q <= q
  <2> SUFFICES ASSUME q + 1 <= 256 * Q PROVE FALSE
    OBVIOUS
  <2>1. d * (q + 1) <= d * (256 * Q)
    OBVIOUS
  <2>2. d * (q + 1) = d * q + d /\ d * (256 * Q) = e * Q
    BY <1>2
  <2> QED
    BY <1>1, <1>3, <2>1, <2>2
<1>5. q < 256 * Q + 256
  <2> SUFFICES ASSUME 256 * Q + 256 <= q PROVE FALSE
    OBVIOUS
  <2>1. d * (256 * Q + 256) <= d * q
    OBVIOUS
  <2>2. d * (256 * Q + 256) = e * Q + e
    BY <1>2
  <2> QED
    BY <1>1, <1>3, <2>1, <2>2
<1>6. 256 * Q + (q % 256) = q
  BY <1>4, <1>5
<1> QED
  BY SMTT(60), <1>1, <1>2, <1>3, <1>6

\* PutUint64 makes W bytes, and Uint64 makes the number of them again, whatever
\* is behind them.
LEMMA UintRead ==
  ASSUME NEW n \in Uint
  PROVE  /\ PutUint64(n) \in Seq(Byte) /\ Len(PutUint64(n)) = W
         /\ \A b : (\A k \in 1..W : b[k] = PutUint64(n)[k]) => Uint64(b) = n
<1> USE MessageAssumption
<1>1. \A i \in 1..W : PutUint64(n)[i] = (n \div Place[W - i]) % 256
  BY DEF PutUint64
<1>2. n \in Nat /\ n < Place[W]
  BY PlaceDef DEF Uint
<1>3. \A i \in 0..W : Place[W - i] \in Nat \ {0}
  BY PlaceDef
<1>4. ASSUME NEW i \in 1..W
      PROVE  /\ n \div Place[W - i] \in Nat /\ n \div Place[W - (i - 1)] \in Nat
             /\ 256 * (n \div Place[W - (i - 1)]) + ((n \div Place[W - i]) % 256) = n \div Place[W - i]
  <2>1. PICK d \in Nat \ {0} : d = Place[W - i]
    BY <1>3
  <2>2. Place[W - (i - 1)] = 256 * Place[W - i]
    <3>1. W - (i - 1) \in 1..W /\ (W - (i - 1)) - 1 = W - i
      OBVIOUS
    <3> QED
      BY SMTT(60), <3>1, PlaceDef
  <2>3. /\ n \div d \in Nat /\ n \div (256 * d) \in Nat
        /\ 256 * (n \div (256 * d)) + ((n \div d) % 256) = n \div d
    BY ZenonT(60), <1>2, Digit
  <2> QED
    BY SMTT(60), <2>1, <2>2, <2>3
<1>5. PutUint64(n) \in [1..W -> Byte]
  <2>1. \A i \in 1..W : PutUint64(n)[i] \in Byte
    <3> SUFFICES ASSUME NEW i \in 1..W PROVE PutUint64(n)[i] \in Byte
      OBVIOUS
    <3>1. PICK q \in Nat : q = n \div Place[W - i]
      BY SMTT(60), <1>4
    <3>2. q % 256 \in Byte
      BY DEF Byte
    <3> QED
      BY Zenon, <1>1, <3>1, <3>2
  <2> QED
    BY <2>1 DEF PutUint64
<1>6. PutUint64(n) \in Seq(Byte) /\ Len(PutUint64(n)) = W
  <2>1. PutUint64(n) \in Seq(Byte) /\ DOMAIN PutUint64(n) = 1..W
    BY <1>5, SeqDef
  <2>2. Len(PutUint64(n)) \in Nat /\ DOMAIN PutUint64(n) = 1..Len(PutUint64(n))
    BY <2>1, LenProperties
  <2> QED
    BY <2>1, <2>2
<1>7. ASSUME NEW b, \A k \in 1..W : b[k] = PutUint64(n)[k] PROVE Uint64(b) = n
  <2> DEFINE Step(f) == [i \in 0..W |-> IF i = 0 THEN 0 ELSE 256 * f[i - 1] + b[i]]
             g == [i \in 0..W |-> n \div Place[W - i]]
             value == CHOOSE f : f = Step(f)
  <2>1. g[0] = 0
    <3>1. PICK p \in Nat \ {0} : p = Place[W - 0] /\ n < p
      <4> W - 0 = W
        OBVIOUS
      <4> QED
        BY <1>2, <1>3
    <3>2. n \div p = 0
      BY <3>1, <1>2
    <3> QED
      BY <3>1, <3>2
  <2>2. \A i \in 1..W : g[i] = 256 * g[i - 1] + b[i]
    <3> SUFFICES ASSUME NEW i \in 1..W PROVE g[i] = 256 * g[i - 1] + b[i]
      BY Zenon
    <3>1. g[i] = n \div Place[W - i] /\ g[i - 1] = n \div Place[W - (i - 1)]
      OBVIOUS
    <3>2. b[i] = (n \div Place[W - i]) % 256
      BY SMTT(60), <1>1, <1>7
    <3> QED
      BY SMTT(60), <1>4, <3>1, <3>2
  <2>3. g = Step(g)
    <3>1. \A i \in 0..W : g[i] = IF i = 0 THEN 0 ELSE 256 * g[i - 1] + b[i]
      <4> HIDE DEF g
      <4> QED
        BY <2>1, <2>2
    <3>2. FunctionOn(0..W, g)
      BY Zenon DEF FunctionOn
    <3> HIDE DEF g
    <3>3. /\ FunctionOn(0..W, Step(g))
          /\ \A i \in 0..W : Step(g)[i] = IF i = 0 THEN 0 ELSE 256 * g[i - 1] + b[i]
      BY Zenon DEF FunctionOn
    <3> HIDE DEF Step
    <3>4. Agree(0..W, g, Step(g))
      BY SMTT(60), <3>1, <3>3 DEF Agree
    <3> QED
      BY Zenon, <3>2, <3>3, <3>4, SameFunction
  <2>4. value = Step(value)
    <3> HIDE DEF Step
    <3> QED
      BY Zenon, <2>3
  <2>5. Uint64(b) = value[W]
    BY DEF Uint64
  <2>6. value[0] = 0 /\ \A i \in 1..W : value[i] = 256 * value[i - 1] + b[i]
    <3> HIDE DEF value
    <3>1. \A i \in 0..W : Step(value)[i] = IF i = 0 THEN 0 ELSE 256 * value[i - 1] + b[i]
      BY Zenon
    <3> HIDE DEF Step
    <3>2. \A i \in 0..W : value[i] = IF i = 0 THEN 0 ELSE 256 * value[i - 1] + b[i]
      BY SMTT(60), <2>4, <3>1
    <3> QED
      BY <3>2
  <2>7. \A i \in 0..W : value[i] = g[i]
    <3> HIDE DEF value, g
    <3> DEFINE T == {i \in 0..W : value[i] = g[i]}
    <3>1. 0 \in T
      BY <2>1, <2>6
    <3>2. \A i \in 1..W : i - 1 \in T => i \in T
      BY <2>2, <2>6
    <3> HIDE DEF T
    <3>3. \A i \in 0..W : i \in T
      BY Zenon, <3>1, <3>2, Upto
    <3> QED
      BY <3>3 DEF T
  <2>8. g[W] = n
    <3>1. W - W = 0 /\ n \div 1 = n
      BY <1>2
    <3> QED
      BY <3>1, PlaceDef
  <2> HIDE DEF value, g
  <2> QED
    BY <2>5, <2>7, <2>8
<1> QED
  BY Zenon, <1>6, <1>7

-----------------------------------------------------------------------------
(* Parts of a body                                                         *)

\* f stands in b behind its first i bytes.
Here(b, i, f) ==
  /\ b \in Seq(Byte) /\ f \in Seq(Byte) /\ i \in Nat /\ i + Len(f) <= Len(b)
  /\ \A k \in 1..Len(f) : b[i + k] = f[k]

\* What a concatenation is made of.
LEMMA Halves ==
  ASSUME NEW a \in Seq(Byte), NEW b \in Seq(Byte)
  PROVE  /\ a \o b \in Seq(Byte) /\ Len(a \o b) = Len(a) + Len(b)
         /\ Here(a \o b, 0, a) /\ Here(a \o b, Len(a), b)
<1>1. Len(a) \in Nat /\ Len(b) \in Nat
  BY LenProperties
<1>2. PICK c : c = a \o b
  BY Zenon
<1>3. /\ c \in Seq(Byte) /\ Len(c) = Len(a) + Len(b)
      /\ \A i \in 1..Len(a) + Len(b) : c[i] = IF i <= Len(a) THEN a[i] ELSE b[i - Len(a)]
  BY Zenon, <1>2, ConcatProperties
<1>4. \A k \in 1..Len(a) : c[0 + k] = a[k]
  BY <1>1, <1>3
<1>5. ASSUME NEW k \in 1..Len(b) PROVE c[Len(a) + k] = b[k]
  <2>1. Len(a) + k \in 1..Len(a) + Len(b) /\ ~(Len(a) + k <= Len(a)) /\ (Len(a) + k) - Len(a) = k
    BY <1>1
  <2> QED
    BY Zenon, <1>3, <2>1
<1>6. 0 + Len(a) <= Len(c) /\ Len(a) + Len(b) <= Len(c) /\ 0 \in Nat
  BY <1>1, <1>3
<1>7. Here(c, 0, a) /\ Here(c, Len(a), b)
  BY Zenon, <1>1, <1>3, <1>4, <1>5, <1>6 DEF Here
<1> QED
  BY Zenon, <1>2, <1>3, <1>7

\* A part of a part is a part.
LEMMA Within ==
  ASSUME NEW b, NEW i, NEW f, NEW j, NEW g, Here(b, i, f), Here(f, j, g)
  PROVE  Here(b, i + j, g)
<1>1. /\ b \in Seq(Byte) /\ f \in Seq(Byte) /\ g \in Seq(Byte) /\ i \in Nat /\ j \in Nat
      /\ i + Len(f) <= Len(b) /\ j + Len(g) <= Len(f)
      /\ \A k \in 1..Len(f) : b[i + k] = f[k]
      /\ \A k \in 1..Len(g) : f[j + k] = g[k]
  BY Zenon DEF Here
<1>2. Len(b) \in Nat /\ Len(f) \in Nat /\ Len(g) \in Nat
  BY <1>1, LenProperties
<1>3. (i + j) + Len(g) <= Len(b) /\ i + j \in Nat
  BY <1>1, <1>2
<1>4. ASSUME NEW k \in 1..Len(g) PROVE b[(i + j) + k] = g[k]
  <2>1. j + k \in 1..Len(f) /\ i + (j + k) = (i + j) + k
    BY <1>1, <1>2
  <2>2. b[i + (j + k)] = f[j + k] /\ f[j + k] = g[k]
    BY Zenon, <1>1, <2>1
  <2> QED
    BY Zenon, <2>1, <2>2
<1> QED
  BY Zenon, <1>1, <1>3, <1>4 DEF Here

\* What is left behind the first i bytes begins with the part that is there.
LEMMA FromHere ==
  ASSUME NEW b, NEW i, NEW f, Here(b, i, f)
  PROVE  Here(From(b, i), 0, f) /\ Len(From(b, i)) = Len(b) - i
<1>1. /\ b \in Seq(Byte) /\ f \in Seq(Byte) /\ i \in Nat /\ i + Len(f) <= Len(b)
      /\ \A k \in 1..Len(f) : b[i + k] = f[k]
  BY Zenon DEF Here
<1>2. PICK m \in Nat, n \in Nat : m = Len(b) /\ n = Len(f)
  BY <1>1, LenProperties
<1>3. \A k \in (i + 1)..m : b[k] \in Byte
  BY <1>1, <1>2, ElementOfSeq
<1>4. /\ From(b, i) \in Seq(Byte)
      /\ Len(From(b, i)) = IF i + 1 <= m THEN m - (i + 1) + 1 ELSE 0
      /\ \A k \in 1..(m - (i + 1) + 1) : From(b, i)[k] = b[(i + 1) + k - 1]
  BY <1>1, <1>2, <1>3, SubSeqProperties DEF From
<1>5. Len(From(b, i)) = m - i
  BY <1>1, <1>2, <1>4
<1>6. ASSUME NEW k \in 1..n PROVE From(b, i)[0 + k] = f[k]
  <2>1. k \in 1..(m - (i + 1) + 1) /\ (i + 1) + k - 1 = i + k /\ 0 + k = k
    BY <1>1, <1>2
  <2> QED
    BY Zenon, <1>1, <1>2, <1>4, <2>1
<1>7. 0 + n <= m - i /\ 0 \in Nat
  BY <1>1, <1>2
<1> QED
  BY Zenon, <1>1, <1>2, <1>4, <1>5, <1>6, <1>7 DEF Here

\* The slice at a part is the part.
LEMMA SliceHere ==
  ASSUME NEW b, NEW i, NEW f, Here(b, i, f)
  PROVE  Slice(b, i, i + Len(f)) = f
<1>1. /\ b \in Seq(Byte) /\ f \in Seq(Byte) /\ i \in Nat /\ i + Len(f) <= Len(b)
      /\ \A k \in 1..Len(f) : b[i + k] = f[k]
  BY Zenon DEF Here
<1>2. PICK m \in Nat, n \in Nat : m = Len(b) /\ n = Len(f)
  BY <1>1, LenProperties
<1>3. PICK s : s = Slice(b, i, i + Len(f))
  BY Zenon
<1>4. \A k \in (i + 1)..(i + n) : b[k] \in Byte
  BY <1>1, <1>2, ElementOfSeq
<1>5. /\ s \in Seq(Byte)
      /\ Len(s) = IF i + 1 <= i + n THEN (i + n) - (i + 1) + 1 ELSE 0
      /\ \A k \in 1..((i + n) - (i + 1) + 1) : s[k] = b[(i + 1) + k - 1]
  BY <1>1, <1>2, <1>3, <1>4, SubSeqProperties DEF Slice
<1>6. Len(s) = n
  BY <1>1, <1>2, <1>5
<1>7. ASSUME NEW k \in 1..n PROVE s[k] = f[k]
  <2>1. k \in 1..((i + n) - (i + 1) + 1) /\ (i + 1) + k - 1 = i + k
    BY <1>1, <1>2
  <2> QED
    BY Zenon, <1>1, <1>2, <1>5, <2>1
<1>8. s = f
  BY Zenon, <1>1, <1>2, <1>5, <1>6, <1>7, SeqEqual
<1> QED
  BY Zenon, <1>3, <1>8

\* A number that stands behind the first i bytes is read there, both ways.
LEMMA UintHere ==
  ASSUME NEW b, NEW i, NEW n \in Uint, Here(b, i, PutUint64(n))
  PROVE  Uint64(From(b, i)) = n /\ Uint64(Slice(b, i, i + W)) = n
<1>1. PICK f : f = PutUint64(n)
  BY Zenon
<1>2. f \in Seq(Byte) /\ Len(f) = W /\ \A x : (\A k \in 1..W : x[k] = f[k]) => Uint64(x) = n
  BY Zenon, <1>1, UintRead
<1>3. Here(From(b, i), 0, f) /\ Slice(b, i, i + Len(f)) = f
  BY Zenon, <1>1, FromHere, SliceHere
<1>4. \A k \in 1..W : From(b, i)[k] = f[k]
  <2>1. \A k \in 1..W : From(b, i)[0 + k] = f[k]
    BY Zenon, <1>2, <1>3 DEF Here
  <2>2. \A k \in 1..W : 0 + k = k
    BY MessageAssumption
  <2> QED
    BY Zenon, <2>1, <2>2
<1> QED
  BY Zenon, <1>2, <1>3, <1>4

\* A string that a 0 ends is read up to there.
LEMMA CstringHere ==
  ASSUME NEW b, NEW i, NEW s \in String, Here(b, i, Cstr(s))
  PROVE  GetCstring(From(b, i)) = [str |-> s, offset |-> Len(s) + 1]
<1>1. PICK x : x = From(b, i)
  BY Zenon
<1>2. PICK n \in Nat : n = Len(s) /\ \A k \in 1..n : s[k] \in 1..255
  BY ZenonT(60), LenProperties, ElementOfSeq DEF String
<1>3. /\ s \in Seq(Byte) /\ Cstr(s) \in Seq(Byte) /\ Len(Cstr(s)) = n + 1
      /\ \A k \in 1..n : Cstr(s)[k] = s[k]
      /\ Cstr(s)[n + 1] = 0
  <2>1. s \in Seq(Byte)
    BY SeqMonotonic DEF String, Byte
  <2>2. 0 \in Byte
    BY DEF Byte
  <2>3. /\ Append(s, 0) \in Seq(Byte) /\ Len(Append(s, 0)) = Len(s) + 1
        /\ \A k \in 1..Len(s) : Append(s, 0)[k] = s[k]
        /\ Append(s, 0)[Len(s) + 1] = 0
    BY <2>1, <2>2, AppendProperties, SMTT(30)
  <2> QED
    BY Zenon, <1>2, <2>1, <2>3 DEF Cstr
<1>4. /\ x \in Seq(Byte) /\ n + 1 <= Len(x)
      /\ \A k \in 1..(n + 1) : x[k] = Cstr(s)[k]
  <2>1. Here(x, 0, Cstr(s))
    BY Zenon, <1>1, FromHere
  <2>2. /\ x \in Seq(Byte) /\ 0 + (n + 1) <= Len(x)
        /\ \A k \in 1..(n + 1) : x[0 + k] = Cstr(s)[k]
    BY Zenon, <1>3, <2>1 DEF Here
  <2>3. 0 + (n + 1) = n + 1 /\ \A k \in 1..(n + 1) : 0 + k = k
    BY <1>2
  <2> QED
    BY Zenon, <2>2, <2>3
<1>5. PICK l \in Nat : l = Len(x)
  BY <1>4, LenProperties
<1>6. /\ n + 1 \in 1..l /\ x[n + 1] = 0
      /\ \A k \in 1..n : x[k] = s[k] /\ x[k] # 0
  <2>1. n + 1 \in 1..l /\ n + 1 \in 1..(n + 1) /\ \A k \in 1..n : k \in 1..(n + 1)
    BY <1>2, <1>4, <1>5
  <2>2. \A k \in 1..n : s[k] # 0
    <3>1. \A v \in 1..255 : v # 0
      OBVIOUS
    <3> QED
      BY Zenon, <1>2, <3>1
  <2> QED
    BY Zenon, <1>3, <1>4, <2>1, <2>2
<1> DEFINE ends == {k \in 1..Len(x) : x[k] = 0}
           first == CHOOSE k \in ends : \A j \in ends : k <= j
           m == IF ends = {} THEN Len(x) ELSE first - 1
<1>7. n + 1 \in ends /\ \A k \in ends : k \in Nat /\ n + 1 <= k
  <2>1. ASSUME NEW k \in ends PROVE k \in Nat /\ n + 1 <= k
    <3>1. k \in 1..l /\ x[k] = 0
      BY <1>5
    <3>2. k \notin 1..n
      BY <1>6, <3>1
    <3> QED
      BY <3>1, <3>2
  <2> QED
    BY <1>5, <1>6, <2>1
<1>8. GetCstring(x) = [str |-> SubSeq(x, 1, m), offset |-> IF ends = {} THEN m ELSE m + 1]
  BY DEF GetCstring
<1>9. ends # {} /\ first = n + 1
  <2> HIDE DEF ends
  <2>1. \A j \in ends : n + 1 <= j
    BY Zenon, <1>7
  <2>2. first \in ends /\ \A j \in ends : first <= j
    BY Zenon, <1>7, <2>1
  <2> HIDE DEF first
  <2>3. first <= n + 1 /\ n + 1 <= first /\ first \in Nat
    BY Zenon, <1>7, <2>2
  <2> QED
    BY <1>7, <2>3
<1> HIDE DEF ends, first
<1>10. m = n /\ (IF ends = {} THEN m ELSE m + 1) = n + 1
  BY <1>9
<1> HIDE DEF m
<1>11. SubSeq(x, 1, n) = s
  <2>1. \A k \in 1..n : x[k] \in Byte
    BY SMTT(60), <1>6, <1>2 DEF Byte
  <2>2. /\ SubSeq(x, 1, n) \in Seq(Byte) /\ Len(SubSeq(x, 1, n)) = n
        /\ \A k \in 1..n : SubSeq(x, 1, n)[k] = x[k]
    <3>1. /\ SubSeq(x, 1, n) \in Seq(Byte)
          /\ Len(SubSeq(x, 1, n)) = IF 1 <= n THEN n - 1 + 1 ELSE 0
          /\ \A k \in 1..(n - 1 + 1) : SubSeq(x, 1, n)[k] = x[1 + k - 1]
      BY <2>1, SubSeqProperties
    <3>2. n - 1 + 1 = n /\ \A k \in 1..n : 1 + k - 1 = k
      OBVIOUS
    <3>3. Len(SubSeq(x, 1, n)) = n
      BY <3>1
    <3> QED
      BY Zenon, <3>1, <3>2, <3>3
  <2>3. \A k \in 1..n : SubSeq(x, 1, n)[k] = s[k]
    BY Zenon, <1>6, <2>2
  <2> QED
    BY Zenon, <1>2, <1>3, <2>2, <2>3, SeqEqual
<1> QED
  BY Zenon, <1>1, <1>2, <1>8, <1>10, <1>11

\* A string behind its length is read in one piece.
LEMMA LstringHere ==
  ASSUME NEW b, NEW i, NEW s \in Bytes, Here(b, i, Lstr(s))
  PROVE  GetLstring(b, i) = [str |-> s, end |-> i + W + Len(s)]
<1>1. s \in Seq(Byte) /\ Len(s) \in Uint
  BY DEF Bytes
<1>2. PICK f : f = PutUint64(Len(s)) /\ f \in Seq(Byte) /\ Len(f) = W
  BY Zenon, <1>1, UintRead
<1>3. Here(Lstr(s), 0, f) /\ Here(Lstr(s), W, s)
  BY Zenon, <1>1, <1>2, Halves DEF Lstr
<1>4. Here(b, i + 0, f) /\ Here(b, i + W, s)
  BY Zenon, <1>3, Within
<1>5. i + 0 = i
  BY DEF Here
<1>6. Uint64(From(b, i)) = Len(s)
  BY Zenon, <1>1, <1>2, <1>4, <1>5, UintHere
<1>7. Slice(b, i + W, i + W + Len(s)) = s
  BY Zenon, <1>4, SliceHere
<1> QED
  BY Zenon, <1>6, <1>7 DEF GetLstring

-----------------------------------------------------------------------------
(* Loops                                                                   *)

\* at says where each of the parts begins when they are put together.
Offsets(parts, at) ==
  /\ at \in [0..Len(parts) -> Nat] /\ at[0] = 0
  /\ \A i \in 1..Len(parts) : at[i] = at[i - 1] + Len(parts[i])

\* What is joined stands there, each part behind those before it.
LEMMA JoinedHere ==
  ASSUME NEW parts, Len(parts) \in Nat, \A i \in 1..Len(parts) : parts[i] \in Seq(Byte)
  PROVE  \E at : /\ Offsets(parts, at)
                 /\ Joined(parts) \in Seq(Byte) /\ Len(Joined(parts)) = at[Len(parts)]
                 /\ \A i \in 1..Len(parts) : Here(Joined(parts), at[i - 1], parts[i])
<1>1. PICK n \in Nat : n = Len(parts)
  OBVIOUS
<1> DEFINE V == Seq(Byte)
           F == [i \in 1..n |-> [u \in V |-> u \o parts[i]]]
           Step(f) == [i \in 0..n |-> IF i = 0 THEN << >> ELSE f[i - 1] \o parts[i]]
           bytes == CHOOSE f : f = Step(f)
<1>2. \A i \in 1..n : parts[i] \in V
  BY <1>1
<1>3. F \in [1..n -> [V -> V]] /\ \A i \in 1..n : \A u \in V : F[i][u] = u \o parts[i]
  <2>1. \A i \in 1..n : \A u \in V : u \o parts[i] \in V
    BY Zenon, <1>2, ConcatProperties
  <2> HIDE DEF V
  <2> QED
    BY <2>1
<1>4. PICK g : Steps(n, V, << >>, F, g)
  <2>1. << >> \in V
    BY EmptySeq
  <2> HIDE DEF V, F
  <2> QED
    BY Zenon, <1>3, <2>1, Iterate
<1> HIDE DEF F, V
<1>5. /\ g \in [0..n -> V] /\ g[0] = << >>
      /\ \A i \in 1..n : g[i] = F[i][g[i - 1]]
  BY Zenon, <1>4 DEF Steps
<1>6. \A i \in 1..n : i - 1 \in 0..n /\ g[i - 1] \in V
  BY <1>5
<1>7. g = Step(g)
  <2>1. \A i \in 1..n : g[i] = g[i - 1] \o parts[i]
    <3> SUFFICES ASSUME NEW i \in 1..n PROVE g[i] = g[i - 1] \o parts[i]
      BY Zenon
    <3>1. PICK u \in V : u = g[i - 1]
      BY Zenon, <1>6
    <3>2. F[i][u] = u \o parts[i] /\ g[i] = F[i][u]
      BY Zenon, <1>3, <1>5, <3>1
    <3> QED
      BY Zenon, <3>1, <3>2
  <2>2. \A i \in 0..n : g[i] = IF i = 0 THEN << >> ELSE g[i - 1] \o parts[i]
    <3>1. \A i \in 0..n : i = 0 \/ i \in 1..n
      OBVIOUS
    <3> QED
      BY Zenon, <1>5, <2>1, <3>1
  <2>3. /\ FunctionOn(0..n, Step(g))
        /\ \A i \in 0..n : Step(g)[i] = IF i = 0 THEN << >> ELSE g[i - 1] \o parts[i]
    BY Zenon DEF FunctionOn
  <2>4. FunctionOn(0..n, g)
    BY Zenon, <1>5 DEF FunctionOn
  <2> HIDE DEF Step
  <2>5. Agree(0..n, g, Step(g))
    BY Zenon, <2>2, <2>3 DEF Agree
  <2> QED
    BY Zenon, <2>3, <2>4, <2>5, SameFunction
<1>8. bytes = Step(bytes)
  <2> HIDE DEF Step
  <2> QED
    BY Zenon, <1>7
<1>9. Joined(parts) = bytes[n]
  BY <1>1 DEF Joined
<1> HIDE DEF bytes
<1>10. bytes[0] = << >> /\ \A i \in 1..n : bytes[i] = bytes[i - 1] \o parts[i]
  <2>1. \A i \in 0..n : Step(bytes)[i] = IF i = 0 THEN << >> ELSE bytes[i - 1] \o parts[i]
    BY Zenon
  <2> HIDE DEF Step
  <2>2. \A i \in 0..n : bytes[i] = IF i = 0 THEN << >> ELSE bytes[i - 1] \o parts[i]
    BY Zenon, <1>8, <2>1
  <2>3. 0 \in 0..n /\ \A i \in 1..n : i \in 0..n /\ i # 0
    OBVIOUS
  <2> QED
    BY Zenon, <2>2, <2>3
<1> DEFINE Good(i) ==
             /\ bytes[i] \in Seq(Byte)
             /\ \A j \in 1..i : Here(bytes[i], Len(bytes[j - 1]), parts[j])
           T == {i \in 0..n : Good(i)}
<1>11. 0 \in T
  <2>1. bytes[0] \in Seq(Byte)
    BY Zenon, <1>10, EmptySeq
  <2>2. 0 \in 0..n /\ 1..0 = {}
    OBVIOUS
  <2> QED
    BY Zenon, <2>1, <2>2
<1>12. ASSUME NEW i \in 1..n, i - 1 \in T PROVE i \in T
  <2>1. Good(i - 1)
    BY <1>12
  <2>2. parts[i] \in Seq(Byte) /\ bytes[i] = bytes[i - 1] \o parts[i]
    BY Zenon, <1>2, <1>10 DEF V
  <2>3. /\ bytes[i] \in Seq(Byte)
        /\ Here(bytes[i], 0, bytes[i - 1]) /\ Here(bytes[i], Len(bytes[i - 1]), parts[i])
    BY Zenon, <2>1, <2>2, Halves
  <2>4. ASSUME NEW j \in 1..i PROVE Here(bytes[i], Len(bytes[j - 1]), parts[j])
    <3>1. CASE j = i
      BY Zenon, <2>3, <3>1
    <3>2. CASE j # i
      <4>1. j \in 1..(i - 1)
        BY <3>2
      <4>2. Here(bytes[i - 1], Len(bytes[j - 1]), parts[j])
        BY Zenon, <2>1, <4>1
      <4>3. Here(bytes[i], 0 + Len(bytes[j - 1]), parts[j])
        BY Zenon, <2>3, <4>2, Within
      <4>4. 0 + Len(bytes[j - 1]) = Len(bytes[j - 1])
        BY <4>2 DEF Here
      <4> QED
        BY Zenon, <4>3, <4>4
    <3> QED
      BY <3>1, <3>2
  <2>5. i \in 0..n
    OBVIOUS
  <2> QED
    BY Zenon, <2>3, <2>4, <2>5
<1>13. \A i \in 0..n : Good(i)
  <2> HIDE DEF T, Good
  <2>1. \A i \in 0..n : i \in T
    BY Zenon, <1>11, <1>12, Upto
  <2> QED
    BY Zenon, <2>1 DEF T
<1> DEFINE at == [i \in 0..n |-> Len(bytes[i])]
<1>14. \A i \in 0..n : at[i] = Len(bytes[i]) /\ Len(bytes[i]) \in Nat
  BY <1>13, LenProperties
<1>15. at \in [0..n -> Nat]
  BY <1>14
<1> HIDE DEF at
<1>16. at[0] = 0
  <2>1. 0 \in 0..n
    OBVIOUS
  <2> QED
    BY <1>10, <1>14, <2>1, EmptySeq
<1>17. ASSUME NEW i \in 1..n PROVE at[i] = at[i - 1] + Len(parts[i])
  <2>1. i \in 0..n /\ i - 1 \in 0..n
    OBVIOUS
  <2>2. bytes[i - 1] \in Seq(Byte) /\ parts[i] \in Seq(Byte)
    BY Zenon, <1>2, <1>13, <2>1 DEF V
  <2>3. Len(bytes[i]) = Len(bytes[i - 1]) + Len(parts[i])
    <3>1. Len(bytes[i - 1] \o parts[i]) = Len(bytes[i - 1]) + Len(parts[i])
      BY Zenon, <2>2, Halves
    <3> QED
      BY Zenon, <1>10, <3>1
  <2> QED
    BY Zenon, <1>14, <2>1, <2>3
<1>18. Offsets(parts, at)
  BY Zenon, <1>1, <1>15, <1>16, <1>17 DEF Offsets
<1>19. n \in 0..n /\ \A i \in 1..n : i - 1 \in 0..n
  OBVIOUS
<1>20. bytes[n] \in Seq(Byte) /\ Len(bytes[n]) = at[n]
  BY Zenon, <1>13, <1>14, <1>19
<1>21. \A i \in 1..n : Here(bytes[n], at[i - 1], parts[i])
  BY Zenon, <1>13, <1>14, <1>19
<1> QED
  BY Zenon, <1>1, <1>9, <1>18, <1>20, <1>21

\* Cstr makes bytes, one more than the string has.
LEMMA CstrType ==
  ASSUME NEW s \in String
  PROVE  s \in Seq(Byte) /\ Cstr(s) \in Seq(Byte) /\ Len(Cstr(s)) = Len(s) + 1 /\ Len(s) \in Nat
<1>1. s \in Seq(Byte) /\ Len(s) \in Nat
  BY SeqMonotonic, LenProperties DEF String, Byte
<1>2. 0 \in Byte
  BY DEF Byte
<1> QED
  BY <1>1, <1>2, AppendProperties, SMTT(30) DEF Cstr

\* The first k of a sequence are its first k - 1 and the next.
LEMMA OneMore ==
  ASSUME NEW S, NEW s \in Seq(S), NEW k \in 1..Len(s)
  PROVE  SubSeq(s, 1, k) = Append(SubSeq(s, 1, k - 1), s[k])
<1>1. Len(s) \in Nat
  BY LenProperties
<1>2. 1 \in 1..Len(s) /\ k \in 1..Len(s) /\ k - 1 \in Int /\ \A i \in 1..(k - 1) : i \in 1..Len(s)
  BY <1>1
<1>3. SubSeq(s, 1, k) = SubSeq(s, 1, k - 1) \o <<s[k]>>
  BY <1>2, SubSeqRecursiveSecond
<1>4. s[k] \in S /\ SubSeq(s, 1, k - 1) \in Seq(S)
  <2>1. \A i \in 1..(k - 1) : s[i] \in S
    BY Zenon, <1>2, ElementOfSeq
  <2> QED
    BY <1>2, <2>1, ElementOfSeq, SubSeqProperties
<1>5. Append(SubSeq(s, 1, k - 1), s[k]) = SubSeq(s, 1, k - 1) \o <<s[k]>>
  BY Zenon, <1>4, AppendIsConcat
<1> QED
  BY Zenon, <1>3, <1>5

\* The bytes of a list of settings, and of each of them.
SettingBytes(ss) == [i \in 1..Len(ss) |-> Cstr(ss[i].Name) \o Cstr(ss[i].Value)]

\* What the bounds on the fields say of a list of settings and its bytes.
LEMMA SettingsType ==
  ASSUME NEW ss \in Settings
  PROVE  /\ Len(ss) \in Uint /\ Len(ss) \in Nat /\ Len(SettingBytes(ss)) = Len(ss)
         /\ \A i \in 1..Len(ss) :
              /\ ss[i].Name \in String /\ ss[i].Value \in String
              /\ ss[i] = [Name |-> ss[i].Name, Value |-> ss[i].Value]
              /\ SettingBytes(ss)[i] = Cstr(ss[i].Name) \o Cstr(ss[i].Value)
              /\ SettingBytes(ss)[i] \in Seq(Byte)
         /\ PutSettings(ss) = PutUint64(Len(ss)) \o Joined(SettingBytes(ss))
         /\ PutSettings(ss) \in Seq(Byte)
<1> DEFINE R == [Name : String, Value : String]
<1>1. ss \in Seq(R) /\ Len(ss) \in Uint
  BY DEF Settings
<1>2. Len(ss) \in Nat /\ \A i \in 1..Len(ss) : ss[i] \in R
  BY Zenon, <1>1, LenProperties, ElementOfSeq
<1>3. \A i \in 1..Len(ss) : /\ ss[i].Name \in String /\ ss[i].Value \in String
                            /\ ss[i] = [Name |-> ss[i].Name, Value |-> ss[i].Value]
  BY Zenon, <1>2
<1>4. \A i \in 1..Len(ss) : SettingBytes(ss)[i] = Cstr(ss[i].Name) \o Cstr(ss[i].Value)
  BY DEF SettingBytes
<1>5. \A i \in 1..Len(ss) : SettingBytes(ss)[i] \in Seq(Byte)
  <2> SUFFICES ASSUME NEW i \in 1..Len(ss) PROVE SettingBytes(ss)[i] \in Seq(Byte)
    OBVIOUS
  <2>1. Cstr(ss[i].Name) \in Seq(Byte) /\ Cstr(ss[i].Value) \in Seq(Byte)
    BY Zenon, <1>3, CstrType
  <2> QED
    BY Zenon, <1>4, <2>1, Halves
<1>6. Len(SettingBytes(ss)) = Len(ss)
  <2>1. SettingBytes(ss) \in [1..Len(ss) -> Seq(Byte)]
    BY <1>5 DEF SettingBytes
  <2>2. SettingBytes(ss) \in Seq(Seq(Byte)) /\ DOMAIN SettingBytes(ss) = 1..Len(ss)
    BY <1>2, <2>1, SeqDef
  <2>3. PICK m \in Nat : m = Len(SettingBytes(ss)) /\ DOMAIN SettingBytes(ss) = 1..m
    BY Zenon, <2>2, LenProperties
  <2> QED
    BY <1>2, <2>2, <2>3
<1>7. PutSettings(ss) = PutUint64(Len(ss)) \o Joined(SettingBytes(ss))
  BY Zenon DEF PutSettings, SettingBytes
<1>8. PutSettings(ss) \in Seq(Byte)
  <2>1. Joined(SettingBytes(ss)) \in Seq(Byte)
    BY Zenon, <1>2, <1>5, <1>6, JoinedHere
  <2>2. PutUint64(Len(ss)) \in Seq(Byte)
    BY Zenon, <1>1, UintRead
  <2> QED
    BY Zenon, <1>7, <2>1, <2>2, Halves
<1> QED
  BY Zenon, <1>1, <1>2, <1>3, <1>4, <1>5, <1>6, <1>7, <1>8

\* Settings are read back, all of them and in their order.
LEMMA SettingsHere ==
  ASSUME NEW b, NEW i, NEW ss \in Settings, Here(b, i, PutSettings(ss))
  PROVE  GetSettings(From(b, i)) = ss
<1>1. PICK n \in Nat : n = Len(ss) /\ n \in Uint
  BY Zenon, SettingsType
<1>2. PICK parts : parts = SettingBytes(ss)
  BY Zenon
<1>3. /\ Len(parts) = n /\ PutSettings(ss) = PutUint64(n) \o Joined(parts)
      /\ \A k \in 1..n : /\ ss[k].Name \in String /\ ss[k].Value \in String
                         /\ ss[k] = [Name |-> ss[k].Name, Value |-> ss[k].Value]
                         /\ parts[k] = Cstr(ss[k].Name) \o Cstr(ss[k].Value)
                         /\ parts[k] \in Seq(Byte)
  BY Zenon, <1>1, <1>2, SettingsType
<1>4. PICK at : /\ Offsets(parts, at) /\ Joined(parts) \in Seq(Byte)
                /\ \A k \in 1..n : Here(Joined(parts), at[k - 1], parts[k])
  BY Zenon, <1>1, <1>3, JoinedHere
<1>5. PICK x : x = From(b, i)
  BY Zenon
<1>6. Here(x, 0, PutSettings(ss)) /\ i \in Nat
  <2>1. Here(x, 0, PutSettings(ss))
    BY Zenon, <1>5, FromHere
  <2> QED
    BY Zenon, <2>1 DEF Here
<1>7. /\ PutUint64(n) \in Seq(Byte) /\ Len(PutUint64(n)) = W
      /\ Here(PutSettings(ss), 0, PutUint64(n)) /\ Here(PutSettings(ss), W, Joined(parts))
  BY Zenon, <1>1, <1>3, <1>4, UintRead, Halves
<1>8. Here(x, W, Joined(parts))
  <2>1. Here(x, 0 + W, Joined(parts))
    BY Zenon, <1>6, <1>7, Within
  <2>2. 0 + W = W
    BY MessageAssumption
  <2> QED
    BY Zenon, <2>1, <2>2
<1>9. Uint64(x) = n
  <2>1. Here(b, i + 0, PutUint64(n))
    BY Zenon, <1>7, Within
  <2>2. i + 0 = i
    BY <1>6
  <2> QED
    BY Zenon, <1>1, <1>5, <2>1, <2>2, UintHere
<1>10. at \in [0..n -> Nat] /\ at[0] = 0 /\ \A k \in 1..n : at[k] = at[k - 1] + Len(parts[k])
  BY Zenon, <1>3, <1>4 DEF Offsets
<1> DEFINE Read(u) ==
             LET name == GetCstring(From(x, u.off))
                 value == GetCstring(From(x, u.off + name.offset))
             IN [settings |-> Append(u.settings, [Name |-> name.str, Value |-> value.str]),
                 off |-> u.off + name.offset + value.offset]
           Step(f) == [k \in 0..Uint64(x) |->
                         IF k = 0 THEN [settings |-> << >>, off |-> W] ELSE Read(f[k - 1])]
           upto == CHOOSE f : f = Step(f)
           g == [k \in 0..n |-> [settings |-> SubSeq(ss, 1, k), off |-> W + at[k]]]
<1>11. GetSettings(x) = upto[Uint64(x)].settings
  BY DEF GetSettings
<1>12. \A k \in 0..n : g[k] = [settings |-> SubSeq(ss, 1, k), off |-> W + at[k]]
  BY Zenon
<1>13. g[0] = [settings |-> << >>, off |-> W]
  <2>1. SubSeq(ss, 1, 0) = << >>
    BY SubSeqEmpty
  <2>2. W + at[0] = W /\ 0 \in 0..n
    BY <1>10, MessageAssumption
  <2> QED
    BY Zenon, <1>12, <2>1, <2>2
<1>14. ASSUME NEW k \in 1..n PROVE g[k] = Read(g[k - 1])
  <2>1. PICK p \in Nat, l \in Nat, m \in Nat :
           p = W + at[k - 1] /\ l = Len(ss[k].Name) /\ m = Len(ss[k].Value)
    <3>1. at[k - 1] \in Nat
      BY <1>10
    <3>2. Len(ss[k].Name) \in Nat /\ Len(ss[k].Value) \in Nat
      BY Zenon, <1>3, CstrType
    <3> QED
      BY SMTT(60), <3>1, <3>2, MessageAssumption
  <2>2. /\ Cstr(ss[k].Name) \in Seq(Byte) /\ Len(Cstr(ss[k].Name)) = l + 1
        /\ Cstr(ss[k].Value) \in Seq(Byte) /\ Len(Cstr(ss[k].Value)) = m + 1
    BY Zenon, <1>3, <2>1, CstrType
  <2>3. /\ Here(parts[k], 0, Cstr(ss[k].Name)) /\ Here(parts[k], l + 1, Cstr(ss[k].Value))
        /\ Len(parts[k]) = (l + 1) + (m + 1)
    BY ZenonT(60), <1>3, <2>2, Halves
  <2>4. Here(x, p, parts[k])
    <3>1. Here(Joined(parts), at[k - 1], parts[k])
      BY Zenon, <1>4
    <3>2. Here(x, W + at[k - 1], parts[k])
      BY Zenon, <1>8, <3>1, Within
    <3> QED
      BY Zenon, <2>1, <3>2
  <2>5. Here(x, p, Cstr(ss[k].Name)) /\ Here(x, p + (l + 1), Cstr(ss[k].Value))
    <3>1. Here(x, p + 0, Cstr(ss[k].Name)) /\ Here(x, p + (l + 1), Cstr(ss[k].Value))
      BY Zenon, <2>3, <2>4, Within
    <3>2. p + 0 = p
      BY <2>1
    <3> QED
      BY Zenon, <3>1, <3>2
  <2>6. /\ GetCstring(From(x, p)) = [str |-> ss[k].Name, offset |-> l + 1]
        /\ GetCstring(From(x, p + (l + 1))) = [str |-> ss[k].Value, offset |-> m + 1]
    BY Zenon, <1>3, <2>1, <2>5, CstringHere
  <2>7. g[k - 1].settings = SubSeq(ss, 1, k - 1) /\ g[k - 1].off = p
    <3>1. k - 1 \in 0..n
      OBVIOUS
    <3>2. g[k - 1] = [settings |-> SubSeq(ss, 1, k - 1), off |-> W + at[k - 1]]
      BY Zenon, <1>12, <3>1
    <3> HIDE DEF g
    <3> QED
      BY <2>1, <3>2
  <2>8. /\ GetCstring(From(x, p)).str = ss[k].Name /\ GetCstring(From(x, p)).offset = l + 1
        /\ GetCstring(From(x, p + (l + 1))).str = ss[k].Value
        /\ GetCstring(From(x, p + (l + 1))).offset = m + 1
    BY <2>6, SMTT(30)
  <2>9. Read(g[k - 1]) =
          [settings |-> Append(SubSeq(ss, 1, k - 1), [Name |-> ss[k].Name, Value |-> ss[k].Value]),
           off |-> p + (l + 1) + (m + 1)]
    BY Zenon, <2>7, <2>8
  <2>10. SubSeq(ss, 1, k) = Append(SubSeq(ss, 1, k - 1), ss[k])
    BY Zenon, <1>1, OneMore DEF Settings
  <2>11. W + at[k] = p + (l + 1) + (m + 1)
    <3>1. PICK q \in Nat : q = at[k - 1]
      BY <1>10
    <3>2. at[k] = q + ((l + 1) + (m + 1)) /\ p = W + q
      BY Zenon, <1>10, <2>1, <2>3, <3>1
    <3>3. W + (q + ((l + 1) + (m + 1))) = (W + q) + (l + 1) + (m + 1)
      BY MessageAssumption
    <3> QED
      BY Zenon, <3>2, <3>3
  <2>12. k \in 0..n
    OBVIOUS
  <2> HIDE DEF Read
  <2> QED
    BY Zenon, <1>3, <1>12, <2>9, <2>10, <2>11, <2>12
<1> HIDE DEF Read
<1>15. g = Step(g)
  <2>1. \A k \in 0..n : g[k] = IF k = 0 THEN [settings |-> << >>, off |-> W] ELSE Read(g[k - 1])
    <3>1. \A k \in 0..n : k = 0 \/ k \in 1..n
      OBVIOUS
    <3> HIDE DEF g
    <3> QED
      BY Zenon, <1>13, <1>14, <3>1
  <2>2. FunctionOn(0..n, g)
    BY Zenon DEF FunctionOn
  <2> HIDE DEF g
  <2>3. /\ FunctionOn(0..n, Step(g))
        /\ \A k \in 0..n : Step(g)[k] =
             IF k = 0 THEN [settings |-> << >>, off |-> W] ELSE Read(g[k - 1])
    BY Zenon, <1>9 DEF FunctionOn
  <2> HIDE DEF Step
  <2>4. Agree(0..n, g, Step(g))
    BY Zenon, <2>1, <2>3 DEF Agree
  <2> QED
    BY Zenon, <2>2, <2>3, <2>4, SameFunction
<1> HIDE DEF g
<1>16. upto = Step(upto)
  <2> HIDE DEF Step
  <2> QED
    BY Zenon, <1>15
<1> HIDE DEF upto
<1>17. \A k \in 0..n : upto[k] =
         IF k = 0 THEN [settings |-> << >>, off |-> W] ELSE Read(upto[k - 1])
  <2>1. \A k \in 0..n : Step(upto)[k] =
          IF k = 0 THEN [settings |-> << >>, off |-> W] ELSE Read(upto[k - 1])
    BY Zenon, <1>9
  <2> HIDE DEF Step
  <2> QED
    BY Zenon, <1>16, <2>1
<1> HIDE DEF Step
<1>18. \A k \in 0..n : upto[k] = g[k]
  <2> DEFINE T == {k \in 0..n : upto[k] = g[k]}
  <2>1. 0 \in 0..n /\ \A k \in 1..n : k \in 0..n /\ k # 0
    OBVIOUS
  <2>2. 0 \in T
    BY Zenon, <1>13, <1>17, <2>1
  <2>3. ASSUME NEW k \in 1..n, k - 1 \in T PROVE k \in T
    <3>1. upto[k - 1] = g[k - 1]
      BY Zenon, <2>3
    <3>2. upto[k] = Read(upto[k - 1]) /\ g[k] = Read(g[k - 1])
      BY Zenon, <1>14, <1>17, <2>1
    <3> QED
      BY Zenon, <2>1, <3>1, <3>2
  <2> HIDE DEF T
  <2>4. \A k \in 0..n : k \in T
    BY Zenon, <2>2, <2>3, Upto
  <2> QED
    BY Zenon, <2>4 DEF T
<1>19. upto[n].settings = SubSeq(ss, 1, n)
  <2>1. n \in 0..n
    OBVIOUS
  <2>2. upto[n] = [settings |-> SubSeq(ss, 1, n), off |-> W + at[n]]
    BY Zenon, <1>12, <1>18, <2>1
  <2> QED
    BY <2>2
<1>20. SubSeq(ss, 1, n) = ss
  BY Zenon, <1>1, SubSeqFull DEF Settings
<1> QED
  BY Zenon, <1>5, <1>9, <1>11, <1>19, <1>20

\* The last part is all that is left behind what is before it.
LEMMA RestHere ==
  ASSUME NEW b, NEW i, NEW f, Here(b, i, f), i + Len(f) = Len(b)
  PROVE  From(b, i) = f
<1>1. From(b, i) = Slice(b, i, i + Len(f))
  BY Zenon DEF From, Slice
<1> QED
  BY Zenon, <1>1, SliceHere

\* The bytes of a listing.
ObjectBytes(c) == [i \in 1..Len(c) |-> Cstr(c[i].Path) \o PutUint64(c[i].Size)]
ObjectList == Seq([Path : String, Size : Uint])

\* What the bounds on the fields say of a listing and its bytes.
LEMMA ObjectsType ==
  ASSUME NEW c \in ObjectList
  PROVE  /\ Len(c) \in Nat /\ Len(ObjectBytes(c)) = Len(c)
         /\ \A i \in 1..Len(c) :
              /\ c[i].Path \in String /\ c[i].Size \in Uint
              /\ c[i] = [Path |-> c[i].Path, Size |-> c[i].Size]
              /\ ObjectBytes(c)[i] = Cstr(c[i].Path) \o PutUint64(c[i].Size)
              /\ ObjectBytes(c)[i] \in Seq(Byte)
         /\ Joined(ObjectBytes(c)) \in Seq(Byte)
<1> DEFINE R == [Path : String, Size : Uint]
<1>2. Len(c) \in Nat /\ \A i \in 1..Len(c) : c[i] \in R
  BY Zenon, LenProperties, ElementOfSeq DEF ObjectList
<1>3. \A i \in 1..Len(c) : /\ c[i].Path \in String /\ c[i].Size \in Uint
                           /\ c[i] = [Path |-> c[i].Path, Size |-> c[i].Size]
  BY <1>2
<1>4. \A i \in 1..Len(c) : ObjectBytes(c)[i] = Cstr(c[i].Path) \o PutUint64(c[i].Size)
  BY DEF ObjectBytes
<1>5. \A i \in 1..Len(c) : ObjectBytes(c)[i] \in Seq(Byte)
  <2> SUFFICES ASSUME NEW i \in 1..Len(c) PROVE ObjectBytes(c)[i] \in Seq(Byte)
    OBVIOUS
  <2>1. Cstr(c[i].Path) \in Seq(Byte) /\ PutUint64(c[i].Size) \in Seq(Byte)
    BY Zenon, <1>3, CstrType, UintRead
  <2> QED
    BY Zenon, <1>4, <2>1, Halves
<1>6. Len(ObjectBytes(c)) = Len(c)
  <2>1. ObjectBytes(c) \in [1..Len(c) -> Seq(Byte)]
    BY <1>5 DEF ObjectBytes
  <2>2. ObjectBytes(c) \in Seq(Seq(Byte)) /\ DOMAIN ObjectBytes(c) = 1..Len(c)
    BY <1>2, <2>1, SeqDef
  <2>3. PICK m \in Nat : m = Len(ObjectBytes(c)) /\ DOMAIN ObjectBytes(c) = 1..m
    BY Zenon, <2>2, LenProperties
  <2> QED
    BY <1>2, <2>2, <2>3
<1>7. Joined(ObjectBytes(c)) \in Seq(Byte)
  BY Zenon, <1>2, <1>5, <1>6, JoinedHere
<1> QED
  BY Zenon, <1>2, <1>3, <1>4, <1>5, <1>6, <1>7

\* A listing is read back, all of it and in its order, and the loop ends at the
\* end of the body.
LEMMA ObjectsRead ==
  ASSUME NEW c \in ObjectList
  PROVE  ObjectInfos(Joined(ObjectBytes(c))) = c
<1> USE MessageAssumption
<1>1. PICK n \in Nat : n = Len(c)
  BY Zenon, ObjectsType
<1>2. PICK parts : parts = ObjectBytes(c)
  BY Zenon
<1>3. /\ Len(parts) = n /\ Joined(parts) \in Seq(Byte)
      /\ \A k \in 1..n : /\ c[k].Path \in String /\ c[k].Size \in Uint
                         /\ c[k] = [Path |-> c[k].Path, Size |-> c[k].Size]
                         /\ parts[k] = Cstr(c[k].Path) \o PutUint64(c[k].Size)
                         /\ parts[k] \in Seq(Byte)
  BY Zenon, <1>1, <1>2, ObjectsType
<1>4. PICK at : /\ Offsets(parts, at) /\ Len(Joined(parts)) = at[n]
                /\ \A k \in 1..n : Here(Joined(parts), at[k - 1], parts[k])
  BY Zenon, <1>1, <1>3, JoinedHere
<1>5. PICK x : x = Joined(parts)
  BY Zenon
<1>6. at \in [0..n -> Nat] /\ at[0] = 0 /\ \A k \in 1..n : at[k] = at[k - 1] + Len(parts[k])
  BY Zenon, <1>3, <1>4 DEF Offsets
<1>7. PICK L \in Nat : L = Len(x) /\ L = at[n]
  BY <1>3, <1>4, <1>5, <1>6
<1>8. ASSUME NEW k \in 1..n
      PROVE  /\ GetCstring(From(x, at[k - 1])) = [str |-> c[k].Path, offset |-> Len(c[k].Path) + 1]
             /\ Uint64(From(x, at[k - 1] + (Len(c[k].Path) + 1))) = c[k].Size
             /\ at[k] = at[k - 1] + (Len(c[k].Path) + 1) + W
             /\ at[k - 1] < at[k]
  <2>1. PICK p \in Nat, l \in Nat : p = at[k - 1] /\ l = Len(c[k].Path)
    <3>1. at[k - 1] \in Nat
      BY <1>6
    <3>2. Len(c[k].Path) \in Nat
      BY Zenon, <1>3, CstrType
    <3> QED
      BY <3>1, <3>2
  <2>2. /\ Cstr(c[k].Path) \in Seq(Byte) /\ Len(Cstr(c[k].Path)) = l + 1
        /\ PutUint64(c[k].Size) \in Seq(Byte) /\ Len(PutUint64(c[k].Size)) = W
    BY Zenon, <1>3, <2>1, CstrType, UintRead
  <2>3. /\ Here(parts[k], 0, Cstr(c[k].Path)) /\ Here(parts[k], l + 1, PutUint64(c[k].Size))
        /\ Len(parts[k]) = (l + 1) + W
    <3>1. PICK a, d : a = Cstr(c[k].Path) /\ d = PutUint64(c[k].Size) /\ parts[k] = a \o d
      BY Zenon, <1>3
    <3>2. a \in Seq(Byte) /\ d \in Seq(Byte) /\ Len(a) = l + 1 /\ Len(d) = W
      BY Zenon, <2>2, <3>1
    <3>3. Here(a \o d, 0, a) /\ Here(a \o d, Len(a), d) /\ Len(a \o d) = Len(a) + Len(d)
      BY Zenon, <3>2, Halves
    <3> QED
      BY Zenon, <3>1, <3>2, <3>3
  <2>4. Here(x, p, parts[k])
    BY Zenon, <1>4, <1>5, <2>1
  <2>5. Here(x, p + 0, Cstr(c[k].Path)) /\ Here(x, p + (l + 1), PutUint64(c[k].Size))
    BY Zenon, <2>3, <2>4, Within
  <2>6. p + 0 = p /\ p + ((l + 1) + W) = p + (l + 1) + W /\ p < p + (l + 1) + W
    OBVIOUS
  <2>7. GetCstring(From(x, p)) = [str |-> c[k].Path, offset |-> Len(c[k].Path) + 1]
    BY Zenon, <1>3, <2>5, <2>6, CstringHere
  <2>8. Uint64(From(x, p + (l + 1))) = c[k].Size
    BY Zenon, <1>3, <2>5, UintHere
  <2>9. at[k] = p + ((l + 1) + W)
    BY Zenon, <1>6, <2>1, <2>3
  <2> QED
    BY Zenon, <2>1, <2>6, <2>7, <2>8, <2>9
\* Where the parts begin goes up with them.
<1>9. \A k \in 0..n : at[k] + (n - k) <= L
  <2> DEFINE Up(j) == \A k \in 0..j : at[k] + (j - k) <= at[j]
             T == {j \in 0..n : Up(j)}
  <2>1. 0 \in T
    BY <1>6
  <2>2. ASSUME NEW j \in 1..n, j - 1 \in T PROVE j \in T
    <3>1. at[j - 1] < at[j] /\ \A k \in 0..n : at[k] \in Nat
      BY Zenon, <1>6, <1>8
    <3>4. j \in 0..n /\ j - 1 \in 0..n /\ \A k \in 0..j : k \in 0..n
      OBVIOUS
    <3>2. ASSUME NEW k \in 0..j PROVE at[k] + (j - k) <= at[j]
      <4>1. PICK q \in Nat, r \in Nat, t \in Nat : q = at[k] /\ r = at[j] /\ t = at[j - 1]
        BY Zenon, <3>1, <3>4
      <4>2. CASE k = j
        BY <4>1, <4>2
      <4>3. CASE k # j
        <5>1. k \in 0..(j - 1)
          BY <4>3
        <5>2. at[k] + ((j - 1) - k) <= at[j - 1]
          BY Zenon, <2>2, <5>1
        <5> QED
          BY <3>1, <4>1, <5>2
      <4> QED
        BY <4>2, <4>3
    <3> QED
      BY <3>2
  <2> HIDE DEF T
  <2>3. \A j \in 0..n : j \in T
    BY Zenon, <2>1, <2>2, Upto
  <2>4. Up(n)
    BY <2>3 DEF T
  <2> QED
    BY <1>7, <2>4
<1>10. n <= L /\ \A k \in 1..n : at[k - 1] < L
  <2>1. at[0] + (n - 0) <= L
    BY <1>9
  <2>2. ASSUME NEW k \in 1..n PROVE at[k - 1] < L
    <3>1. PICK q \in Nat : q = at[k - 1]
      BY <1>6
    <3>2. at[k - 1] + (n - (k - 1)) <= L
      BY <1>9
    <3> QED
      BY <3>1, <3>2
  <2> QED
    BY <1>6, <2>1, <2>2
<1> DEFINE Read(u) ==
             LET path == GetCstring(From(x, u.off))
             IN IF u.off >= Len(x) THEN u
                ELSE [infos |-> Append(u.infos,
                                  [Path |-> path.str, Size |-> Uint64(From(x, u.off + path.offset))]),
                      off |-> u.off + path.offset + W]
           Step(f) == [k \in 0..Len(x) |->
                         IF k = 0 THEN [infos |-> << >>, off |-> 0] ELSE Read(f[k - 1])]
           upto == CHOOSE f : f = Step(f)
           g == [k \in 0..L |-> LET m == IF k <= n THEN k ELSE n
                                IN [infos |-> SubSeq(c, 1, m), off |-> at[m]]]
<1>11. ObjectInfos(x) = upto[Len(x)].infos
  BY DEF ObjectInfos
<1>12. \A k \in 0..L : /\ k <= n => g[k] = [infos |-> SubSeq(c, 1, k), off |-> at[k]]
                       /\ ~(k <= n) => g[k] = [infos |-> SubSeq(c, 1, n), off |-> at[n]]
  BY Zenon
<1> HIDE DEF g
<1>13. g[0] = [infos |-> << >>, off |-> 0]
  <2>1. SubSeq(c, 1, 0) = << >>
    BY SubSeqEmpty
  <2>2. 0 \in 0..L /\ 0 <= n
    BY <1>7
  <2> QED
    BY Zenon, <1>6, <1>12, <2>1, <2>2
<1>14. ASSUME NEW k \in 1..L PROVE g[k] = Read(g[k - 1])
  <2>1. CASE k <= n
    <3>1. k \in 1..n /\ k \in 0..L /\ k - 1 \in 0..L /\ k - 1 <= n
      BY <1>10, <2>1
    <3>2. g[k - 1] = [infos |-> SubSeq(c, 1, k - 1), off |-> at[k - 1]]
      BY Zenon, <1>12, <3>1
    <3>3. g[k - 1].infos = SubSeq(c, 1, k - 1) /\ g[k - 1].off = at[k - 1]
      BY <3>2
    <3>4. ~(at[k - 1] >= Len(x))
      <4>1. PICK q \in Nat : q = at[k - 1] /\ q < L
        BY <1>6, <1>10, <3>1
      <4> QED
        BY <1>7, <4>1
    <3>5. PICK path : path = GetCstring(From(x, at[k - 1]))
      BY Zenon
    <3>6. path.str = c[k].Path /\ path.offset = Len(c[k].Path) + 1
      <4>1. path = [str |-> c[k].Path, offset |-> Len(c[k].Path) + 1]
        BY Zenon, <1>8, <3>1, <3>5
      <4> QED
        BY <4>1
    <3>7. /\ Uint64(From(x, at[k - 1] + path.offset)) = c[k].Size
          /\ at[k] = at[k - 1] + path.offset + W
      BY Zenon, <1>8, <3>1, <3>6
    <3>8. Read(g[k - 1]) = [infos |-> Append(SubSeq(c, 1, k - 1), [Path |-> c[k].Path, Size |-> c[k].Size]),
                            off |-> at[k]]
      BY Zenon, <3>3, <3>4, <3>5, <3>6, <3>7
    <3>9. SubSeq(c, 1, k) = Append(SubSeq(c, 1, k - 1), c[k])
      BY Zenon, <1>1, <3>1, OneMore DEF ObjectList
    <3>10. g[k] = [infos |-> SubSeq(c, 1, k), off |-> at[k]]
      BY Zenon, <1>12, <2>1, <3>1
    <3> HIDE DEF Read
    <3> QED
      BY Zenon, <1>3, <3>1, <3>8, <3>9, <3>10
  <2>2. CASE ~(k <= n)
    <3>1. k \in 0..L /\ k - 1 \in 0..L /\ (k - 1 <= n => k - 1 = n)
      BY <2>2
    <3>2. g[k] = [infos |-> SubSeq(c, 1, n), off |-> at[n]] /\ g[k - 1] = g[k]
      BY Zenon, <1>12, <2>2, <3>1
    <3>3. g[k - 1].off = L
      BY <1>7, <3>2
    <3>4. g[k - 1].off >= Len(x)
      BY <1>7, <3>3
    <3> QED
      BY Zenon, <3>2, <3>4
  <2> QED
    BY <2>1, <2>2
<1> HIDE DEF Read
<1>15. g = Step(g)
  <2>1. \A k \in 0..L : g[k] = IF k = 0 THEN [infos |-> << >>, off |-> 0] ELSE Read(g[k - 1])
    <3>1. \A k \in 0..L : k = 0 \/ k \in 1..L
      OBVIOUS
    <3> QED
      BY Zenon, <1>13, <1>14, <3>1
  <2>2. FunctionOn(0..L, g)
    BY Zenon DEF FunctionOn, g
  <2>3. /\ FunctionOn(0..L, Step(g))
        /\ \A k \in 0..L : Step(g)[k] = IF k = 0 THEN [infos |-> << >>, off |-> 0] ELSE Read(g[k - 1])
    BY Zenon, <1>7 DEF FunctionOn
  <2> HIDE DEF Step
  <2>4. Agree(0..L, g, Step(g))
    BY Zenon, <2>1, <2>3 DEF Agree
  <2> QED
    BY Zenon, <2>2, <2>3, <2>4, SameFunction
<1>16. upto = Step(upto)
  <2> HIDE DEF Step
  <2> QED
    BY Zenon, <1>15
<1> HIDE DEF upto
<1>17. \A k \in 0..L : upto[k] = IF k = 0 THEN [infos |-> << >>, off |-> 0] ELSE Read(upto[k - 1])
  <2>1. \A k \in 0..L : Step(upto)[k] = IF k = 0 THEN [infos |-> << >>, off |-> 0] ELSE Read(upto[k - 1])
    BY Zenon, <1>7
  <2> HIDE DEF Step
  <2> QED
    BY Zenon, <1>16, <2>1
<1> HIDE DEF Step
<1>18. \A k \in 0..L : upto[k] = g[k]
  <2> DEFINE T == {k \in 0..L : upto[k] = g[k]}
  <2>1. 0 \in 0..L /\ \A k \in 1..L : k \in 0..L /\ k # 0
    OBVIOUS
  <2>2. 0 \in T
    BY Zenon, <1>13, <1>17, <2>1
  <2>3. ASSUME NEW k \in 1..L, k - 1 \in T PROVE k \in T
    <3>1. upto[k - 1] = g[k - 1]
      BY Zenon, <2>3
    <3>2. upto[k] = Read(upto[k - 1]) /\ g[k] = Read(g[k - 1])
      BY Zenon, <1>14, <1>17, <2>1
    <3> QED
      BY Zenon, <2>1, <3>1, <3>2
  <2> HIDE DEF T
  <2>4. \A k \in 0..L : k \in T
    BY Zenon, <2>2, <2>3, Upto
  <2> QED
    BY Zenon, <2>4 DEF T
<1>19. upto[L].infos = SubSeq(c, 1, n)
  <2>1. L \in 0..L /\ (L <= n => L = n)
    BY <1>10
  <2>2. upto[L] = [infos |-> SubSeq(c, 1, n), off |-> at[n]]
    BY Zenon, <1>12, <1>18, <2>1
  <2> QED
    BY <2>2
<1>20. SubSeq(c, 1, n) = c
  BY Zenon, <1>1, SubSeqFull DEF ObjectList
<1> QED
  BY Zenon, <1>2, <1>5, <1>7, <1>11, <1>19, <1>20

-----------------------------------------------------------------------------
(* Messages                                                                *)

\* A body in three, four and five parts.
Parts3(b, h, x, y) ==
  /\ b \in Seq(Byte) /\ Len(b) = Len(h) + Len(x) + Len(y)
  /\ Here(b, 0, h) /\ Here(b, Len(h), x) /\ Here(b, Len(h) + Len(x), y)

Parts4(b, h, x, y, z) ==
  /\ b \in Seq(Byte) /\ Len(b) = Len(h) + Len(x) + Len(y) + Len(z)
  /\ Here(b, 0, h) /\ Here(b, Len(h), x) /\ Here(b, Len(h) + Len(x), y)
  /\ Here(b, Len(h) + Len(x) + Len(y), z)

\* A concatenation of three holds each part after those before it.
LEMMA Three ==
  ASSUME NEW h \in Seq(Byte), NEW x \in Seq(Byte), NEW y \in Seq(Byte)
  PROVE  Parts3(h \o x \o y, h, x, y)
<1>1. PICK a, b : a = h \o x /\ b = a \o y
  BY Zenon
<1>2. a \in Seq(Byte) /\ Len(a) = Len(h) + Len(x) /\ Here(a, 0, h) /\ Here(a, Len(h), x)
  BY Zenon, <1>1, Halves
<1>3. b \in Seq(Byte) /\ Len(b) = Len(a) + Len(y) /\ Here(b, 0, a) /\ Here(b, Len(a), y)
  BY Zenon, <1>1, <1>2, Halves
<1>4. Here(b, 0 + 0, h) /\ Here(b, 0 + Len(h), x)
  BY Zenon, <1>2, <1>3, Within
<1>5. 0 + 0 = 0 /\ 0 + Len(h) = Len(h)
  BY LenProperties
<1>6. Parts3(b, h, x, y)
  BY Zenon, <1>2, <1>3, <1>4, <1>5 DEF Parts3
<1> QED
  BY Zenon, <1>1, <1>6

\* A concatenation of four holds each part after those before it.
LEMMA Four ==
  ASSUME NEW h \in Seq(Byte), NEW x \in Seq(Byte), NEW y \in Seq(Byte), NEW z \in Seq(Byte)
  PROVE  Parts4(h \o x \o y \o z, h, x, y, z)
<1>1. PICK a, b : a = h \o x \o y /\ b = a \o z
  BY Zenon
<1>2. Parts3(a, h, x, y)
  BY Zenon, <1>1, Three
<1>3. a \in Seq(Byte)
  BY Zenon, <1>2 DEF Parts3
<1>4. b \in Seq(Byte) /\ Len(b) = Len(a) + Len(z) /\ Here(b, 0, a) /\ Here(b, Len(a), z)
  BY Zenon, <1>1, <1>3, Halves
<1>5. Here(b, 0 + 0, h) /\ Here(b, 0 + Len(h), x) /\ Here(b, 0 + (Len(h) + Len(x)), y)
  BY Zenon, <1>2, <1>4, Within DEF Parts3
<1>6. 0 + 0 = 0 /\ 0 + Len(h) = Len(h) /\ 0 + (Len(h) + Len(x)) = Len(h) + Len(x)
  BY LenProperties
<1>7. Parts4(b, h, x, y, z)
  BY Zenon, <1>2, <1>4, <1>5, <1>6 DEF Parts3, Parts4
<1> QED
  BY Zenon, <1>1, <1>7

\* No two types have one byte.
LEMMA Dispatch ==
  ASSUME NEW t \in Type
  PROVE  TypeByte[t] \in Byte /\ (CHOOSE u \in Type : TypeByte[u] = TypeByte[t]) = t
<1>1. \A u \in Type : TypeByte[u] \in Byte
  BY SMTT(60) DEF Type, TypeByte, Byte
<1>2. \A u, v \in Type : TypeByte[u] = TypeByte[v] => u = v
  BY SMTT(60) DEF Type, TypeByte
<1> QED
  BY Zenon, <1>1, <1>2

\* b begins as the body of a message of type t with these three bytes.
Opens(b, t, b1, b2, b3) ==
  /\ Here(b, 0, <<TypeByte[t], b1, b2, b3>>)
  /\ t \in Type /\ b1 \in Byte /\ b2 \in Byte /\ b3 \in Byte

\* The switch of Decode finds the type, and the flags follow it.
LEMMA Opening ==
  ASSUME NEW b, NEW t, NEW b1, NEW b2, NEW b3, Opens(b, t, b1, b2, b3)
  PROVE  /\ At(b, 0) = TypeByte[t] /\ At(b, 1) = b1 /\ At(b, 2) = b2 /\ At(b, 3) = b3
         /\ (CHOOSE u \in Type : TypeByte[u] = At(b, 0)) = t
<1>1. PICK h : h = <<TypeByte[t], b1, b2, b3>>
  BY Zenon
<1>2. Len(h) = 4 /\ h[1] = TypeByte[t] /\ h[2] = b1 /\ h[3] = b2 /\ h[4] = b3
  BY <1>1
<1>3. \A k \in 1..4 : b[0 + k] = h[k]
  BY Zenon, <1>1, <1>2 DEF Opens, Here
<1>4. b[1] = h[1] /\ b[2] = h[2] /\ b[3] = h[3] /\ b[4] = h[4]
  BY <1>3
<1>5. At(b, 0) = TypeByte[t] /\ At(b, 1) = b1 /\ At(b, 2) = b2 /\ At(b, 3) = b3
  BY <1>2, <1>4 DEF At
<1>6. t \in Type
  BY Zenon DEF Opens
<1>7. (CHOOSE u \in Type : TypeByte[u] = TypeByte[t]) = t
  BY Zenon, <1>6, Dispatch
<1> QED
  BY Zenon, <1>5, <1>7

\* The four bytes of a header are bytes.
LEMMA HeaderType ==
  ASSUME NEW t \in Type, NEW b1 \in Byte, NEW b2 \in Byte, NEW b3 \in Byte
  PROVE  <<TypeByte[t], b1, b2, b3>> \in Seq(Byte) /\ Len(<<TypeByte[t], b1, b2, b3>>) = 4
<1>1. PICK a \in Byte : a = TypeByte[t]
  BY Zenon, Dispatch
<1>2. <<a, b1, b2, b3>> \in Seq(Byte) /\ Len(<<a, b1, b2, b3>>) = 4
  OBVIOUS
<1> QED
  BY Zenon, <1>1, <1>2

\* A flag is one byte, read back by comparing it with 1.
LEMMA FlagByte ==
  ASSUME NEW on \in BOOLEAN
  PROVE  Flag(on) \in Byte /\ (Flag(on) = 1) = on
BY DEF Flag, Byte

\* Decode of a body that opens with t is that of t.
LEMMA Opened ==
  ASSUME NEW b, NEW t, NEW b1, NEW b2, NEW b3, Opens(b, t, b1, b2, b3)
  PROVE  Decode(b) = DecodeAs(t, b)
BY Zenon, Opening DEF Decode

\* A body is a sequence of bytes, a header at least, and read back as the message.
Reads(c) == Body(c) \in Seq(Byte) /\ Len(Body(c)) >= 4 /\ Decode(Body(c)) = Meaning(c)

\* What opens with a header is as long as one.
LEMMA OpensWhole ==
  ASSUME NEW b, NEW t, NEW b1, NEW b2, NEW b3, Opens(b, t, b1, b2, b3)
  PROVE  b \in Seq(Byte) /\ Len(b) >= 4
<1>1. b \in Seq(Byte) /\ Len(<<TypeByte[t], b1, b2, b3>>) = 4
      /\ 0 + Len(<<TypeByte[t], b1, b2, b3>>) <= Len(b)
  BY Zenon, HeaderType DEF Opens, Here
<1>2. Len(b) \in Nat
  BY <1>1, LenProperties
<1>3. Len(b) >= 4
  BY <1>1, <1>2
<1> QED
  BY <1>1, <1>3

\* It is enough that the Decode of its own type reads the body back.
LEMMA ReadsBack ==
  ASSUME NEW c, NEW b, NEW t, NEW b1, NEW b2, NEW b3, Opens(b, t, b1, b2, b3),
         Body(c) = b, DecodeAs(t, b) = Meaning(c)
  PROVE  Reads(c)
BY Zenon, OpensWhole, Opened DEF Reads

\* Only Gool and CopyData are read back as something else than they were.
LEMMA Plain ==
  ASSUME NEW c, c.type # "Gool", c.type # "CopyData"
  PROVE  Meaning(c) = c
BY DEF Meaning

\* Bodies of a header and one to four parts.
Laid2(b, t, b1, b2, b3, x) ==
  /\ Opens(b, t, b1, b2, b3) /\ Len(b) = 4 + Len(x)
  /\ Here(b, 4, x)

\* A header and one part.
LEMMA Body2 ==
  ASSUME NEW t \in Type, NEW b1 \in Byte, NEW b2 \in Byte, NEW b3 \in Byte,
         NEW x \in Seq(Byte)
  PROVE  Laid2(<<TypeByte[t], b1, b2, b3>> \o x, t, b1, b2, b3, x)
<1>1. PICK h, b : h = <<TypeByte[t], b1, b2, b3>> /\ b = h \o x
  BY Zenon
<1>2. h \in Seq(Byte) /\ Len(h) = 4
  BY Zenon, <1>1, HeaderType
<1>3. Here(b, 0, h) /\ Here(b, Len(h), x) /\ Len(b) = Len(h) + Len(x)
  BY Zenon, <1>1, <1>2, Halves
<1>4. Laid2(b, t, b1, b2, b3, x)
  BY Zenon, <1>1, <1>2, <1>3 DEF Opens, Laid2
<1> QED
  BY Zenon, <1>1, <1>4

Laid3(b, t, b1, b2, b3, x, y) ==
  /\ Opens(b, t, b1, b2, b3) /\ Len(b) = 4 + Len(x) + Len(y)
  /\ Here(b, 4, x) /\ Here(b, 4 + Len(x), y)

\* A header and two parts.
LEMMA Body3 ==
  ASSUME NEW t \in Type, NEW b1 \in Byte, NEW b2 \in Byte, NEW b3 \in Byte,
         NEW x \in Seq(Byte), NEW y \in Seq(Byte)
  PROVE  Laid3(<<TypeByte[t], b1, b2, b3>> \o x \o y, t, b1, b2, b3, x, y)
<1>1. PICK h, b : h = <<TypeByte[t], b1, b2, b3>> /\ b = h \o x \o y
  BY Zenon
<1>2. h \in Seq(Byte) /\ Len(h) = 4
  BY Zenon, <1>1, HeaderType
<1>3. Parts3(b, h, x, y)
  BY Zenon, <1>1, <1>2, Three
<1>4. Laid3(b, t, b1, b2, b3, x, y)
  BY Zenon, <1>1, <1>2, <1>3 DEF Parts3, Opens, Laid3
<1> QED
  BY Zenon, <1>1, <1>4

Laid4(b, t, b1, b2, b3, x, y, z) ==
  /\ Opens(b, t, b1, b2, b3) /\ Len(b) = 4 + Len(x) + Len(y) + Len(z)
  /\ Here(b, 4, x) /\ Here(b, 4 + Len(x), y) /\ Here(b, 4 + Len(x) + Len(y), z)

\* A header and three parts.
LEMMA Body4 ==
  ASSUME NEW t \in Type, NEW b1 \in Byte, NEW b2 \in Byte, NEW b3 \in Byte,
         NEW x \in Seq(Byte), NEW y \in Seq(Byte), NEW z \in Seq(Byte)
  PROVE  Laid4(<<TypeByte[t], b1, b2, b3>> \o x \o y \o z, t, b1, b2, b3, x, y, z)
<1>1. PICK h, b : h = <<TypeByte[t], b1, b2, b3>> /\ b = h \o x \o y \o z
  BY Zenon
<1>2. h \in Seq(Byte) /\ Len(h) = 4
  BY Zenon, <1>1, HeaderType
<1>3. Parts4(b, h, x, y, z)
  BY Zenon, <1>1, <1>2, Four
<1>4. Laid4(b, t, b1, b2, b3, x, y, z)
  BY Zenon, <1>1, <1>2, <1>3 DEF Parts4, Opens, Laid4
<1> QED
  BY Zenon, <1>1, <1>4

\* PutMessage is read back.
LEMMA PutRead ==
  ASSUME NEW c \in PutMessage
  PROVE  Reads(c)
<1>1. /\ c.type = "Put" /\ c.Encrypt \in BOOLEAN /\ c.Name \in String
      /\ c = [type |-> "Put", Encrypt |-> c.Encrypt, Name |-> c.Name]
  BY SMTT(30) DEF PutMessage
<1>2. PICK s, b : /\ s = Cstr(c.Name)
                  /\ b = <<TypeByte["Put"], Flag(c.Encrypt), 0, 0>> \o s
  BY Zenon
<1>3. Body(c) = b
  <2>1. Body(c) = PutEncode(c)
    BY <1>1, SMTT(60) DEF Body
  <2> QED
    BY Zenon, <1>1, <1>2, <2>1 DEF PutEncode, Header
<1>4. /\ Opens(b, "Put", Flag(c.Encrypt), 0, 0)
      /\ Here(b, 4, s)
      /\ Len(b) = 4 + Len(s)
  <2>1. Flag(c.Encrypt) \in Byte /\ s \in Seq(Byte)
    BY Zenon, <1>1, <1>2, FlagByte, CstrType
  <2>2. 0 \in Byte /\ "Put" \in Type
    BY SMTT(30) DEF Byte, Type, TypeByte
  <2>3. Laid2(b, "Put", Flag(c.Encrypt), 0, 0, s)
    BY Zenon, <1>2, <2>1, <2>2, Body2
  <2> QED
    BY Zenon, <2>3 DEF Laid2
<1>5. (At(b, 1) = 1) = c.Encrypt
  <2>1. At(b, 1) = Flag(c.Encrypt)
    BY Zenon, <1>4, Opening
  <2> QED
    BY <1>1, <2>1 DEF Flag
<1>6. GetCstring(From(b, 4)).str = c.Name /\ GetCstring(From(b, 4)).offset = Len(c.Name) + 1
  <2>1. GetCstring(From(b, 4)) = [str |-> c.Name, offset |-> Len(c.Name) + 1]
    BY SMTT(60), <1>1, <1>2, <1>4, CstringHere
  <2> QED
    BY <2>1
<1>7. DecodeAs("Put", b) = Meaning(c)
  <2>1. DecodeAs("Put", b) = PutDecode(b)
    BY SMTT(60) DEF DecodeAs
  <2>2. PutDecode(b) = c
    BY Zenon, <1>1, <1>5, <1>6 DEF PutDecode
  <2> QED
    BY Zenon, <1>1, <2>1, <2>2, Plain
<1> QED
  BY Zenon, <1>3, <1>4, <1>7, ReadsBack

\* ListMessage is read back.
LEMMA ListRead ==
  ASSUME NEW c \in ListMessage
  PROVE  Reads(c)
<1>1. /\ c.type = "List" /\ c.Prefix \in String
      /\ c = [type |-> "List", Prefix |-> c.Prefix]
  BY SMTT(30) DEF ListMessage
<1>2. PICK s, b : /\ s = Cstr(c.Prefix)
                  /\ b = <<TypeByte["List"], 0, 0, 0>> \o s
  BY Zenon
<1>3. Body(c) = b
  <2>1. Body(c) = ListEncode(c)
    BY <1>1, SMTT(60) DEF Body
  <2> QED
    BY Zenon, <1>1, <1>2, <2>1 DEF ListEncode, Header
<1>4. /\ Opens(b, "List", 0, 0, 0)
      /\ Here(b, 4, s)
      /\ Len(b) = 4 + Len(s)
  <2>1. s \in Seq(Byte)
    BY Zenon, <1>1, <1>2, CstrType
  <2>2. 0 \in Byte /\ "List" \in Type
    BY SMTT(30) DEF Byte, Type, TypeByte
  <2>3. Laid2(b, "List", 0, 0, 0, s)
    BY Zenon, <1>2, <2>1, <2>2, Body2
  <2> QED
    BY Zenon, <2>3 DEF Laid2
<1>5. GetCstring(From(b, 4)).str = c.Prefix /\ GetCstring(From(b, 4)).offset = Len(c.Prefix) + 1
  <2>1. GetCstring(From(b, 4)) = [str |-> c.Prefix, offset |-> Len(c.Prefix) + 1]
    BY Zenon, <1>1, <1>2, <1>4, CstringHere
  <2> QED
    BY <2>1
<1>6. DecodeAs("List", b) = Meaning(c)
  <2>1. DecodeAs("List", b) = ListDecode(b)
    BY SMTT(60) DEF DecodeAs
  <2>2. ListDecode(b) = c
    BY Zenon, <1>1, <1>5 DEF ListDecode
  <2> QED
    BY Zenon, <1>1, <2>1, <2>2, Plain
<1> QED
  BY Zenon, <1>3, <1>4, <1>6, ReadsBack

\* Delete2Message is read back.
LEMMA Delete2Read ==
  ASSUME NEW c \in Delete2Message
  PROVE  Reads(c)
<1>1. /\ c.type = "Delete2" /\ c.Confirm \in BOOLEAN /\ c.Garbage \in BOOLEAN /\ c.Prefix \in String
      /\ c = [type |-> "Delete2", Confirm |-> c.Confirm, Garbage |-> c.Garbage, Prefix |-> c.Prefix]
  BY Zenon DEF Delete2Message
<1>2. PICK s, b : /\ s = Cstr(c.Prefix)
                  /\ b = <<TypeByte["Delete2"], Flag(c.Confirm), Flag(c.Garbage), 0>> \o s
  BY Zenon
<1>3. Body(c) = b
  <2>1. Body(c) = Delete2Encode(c)
    BY <1>1, SMTT(60) DEF Body
  <2> QED
    BY Zenon, <1>1, <1>2, <2>1 DEF Delete2Encode, Header
<1>4. /\ Opens(b, "Delete2", Flag(c.Confirm), Flag(c.Garbage), 0)
      /\ Here(b, 4, s)
      /\ Len(b) = 4 + Len(s)
  <2>1. Flag(c.Confirm) \in Byte /\ Flag(c.Garbage) \in Byte /\ s \in Seq(Byte)
    BY Zenon, <1>1, <1>2, FlagByte, CstrType
  <2>2. 0 \in Byte /\ "Delete2" \in Type
    BY SMTT(30) DEF Byte, Type, TypeByte
  <2>3. Laid2(b, "Delete2", Flag(c.Confirm), Flag(c.Garbage), 0, s)
    BY Zenon, <1>2, <2>1, <2>2, Body2
  <2> QED
    BY Zenon, <2>3 DEF Laid2
<1>5. (At(b, 1) = 1) = c.Confirm /\ (At(b, 2) = 1) = c.Garbage
  <2>1. At(b, 1) = Flag(c.Confirm) /\ At(b, 2) = Flag(c.Garbage)
    BY Zenon, <1>4, Opening
  <2> QED
    BY <1>1, <2>1 DEF Flag
<1>6. GetCstring(From(b, 4)).str = c.Prefix /\ GetCstring(From(b, 4)).offset = Len(c.Prefix) + 1
  <2>1. GetCstring(From(b, 4)) = [str |-> c.Prefix, offset |-> Len(c.Prefix) + 1]
    BY Zenon, <1>1, <1>2, <1>4, CstringHere
  <2> QED
    BY <2>1
<1>7. DecodeAs("Delete2", b) = Meaning(c)
  <2>1. DecodeAs("Delete2", b) = Delete2Decode(b)
    BY SMTT(60) DEF DecodeAs
  <2>2. Delete2Decode(b) = c
    BY Zenon, <1>1, <1>5, <1>6 DEF Delete2Decode
  <2> QED
    BY Zenon, <1>1, <2>1, <2>2, Plain
<1> QED
  BY Zenon, <1>3, <1>4, <1>7, ReadsBack

\* UntrashifyMessage is read back.
LEMMA UntrashifyRead ==
  ASSUME NEW c \in UntrashifyMessage
  PROVE  Reads(c)
<1>1. /\ c.type = "Untrashify" /\ c.Confirm \in BOOLEAN /\ c.Name \in String /\ c.Segnum \in Uint
      /\ c = [type |-> "Untrashify", Confirm |-> c.Confirm, Name |-> c.Name, Segnum |-> c.Segnum]
  BY SMTT(30) DEF UntrashifyMessage
<1>2. PICK s, n, b : /\ s = Cstr(c.Name) /\ n = PutUint64(c.Segnum)
                     /\ b = <<TypeByte["Untrashify"], Flag(c.Confirm), 0, 0>> \o s \o n
  BY Zenon
<1>3. Body(c) = b
  <2>1. Body(c) = UntrashifyEncode(c)
    BY <1>1, SMTT(60) DEF Body
  <2> QED
    BY Zenon, <1>1, <1>2, <2>1 DEF UntrashifyEncode, Header
<1>4. /\ Opens(b, "Untrashify", Flag(c.Confirm), 0, 0)
      /\ Here(b, 4, s) /\ Here(b, 4 + Len(s), n)
      /\ Len(b) = 4 + Len(s) + Len(n)
  <2>1. Flag(c.Confirm) \in Byte /\ s \in Seq(Byte) /\ n \in Seq(Byte)
    BY SMTT(60), <1>1, <1>2, FlagByte, CstrType, UintRead
  <2>2. 0 \in Byte /\ "Untrashify" \in Type
    BY SMTT(30) DEF Byte, Type, TypeByte
  <2>3. Laid3(b, "Untrashify", Flag(c.Confirm), 0, 0, s, n)
    BY Zenon, <1>2, <2>1, <2>2, Body3
  <2> QED
    BY Zenon, <2>3 DEF Laid3
<1>5. (At(b, 1) = 1) = c.Confirm
  <2>1. At(b, 1) = Flag(c.Confirm)
    BY Zenon, <1>4, Opening
  <2> QED
    BY <1>1, <2>1 DEF Flag
<1>6. GetCstring(From(b, 4)).str = c.Name /\ GetCstring(From(b, 4)).offset = Len(c.Name) + 1
  <2>1. GetCstring(From(b, 4)) = [str |-> c.Name, offset |-> Len(c.Name) + 1]
    BY ZenonT(60), <1>1, <1>2, <1>4, CstringHere
  <2> QED
    BY <2>1
<1>7. Uint64(From(b, Len(b) - W)) = c.Segnum
  <2>1. PICK i : i = 4 + Len(s)
    BY Zenon
  <2>2. Uint64(From(b, i)) = c.Segnum
    BY Zenon, <1>1, <1>2, <1>4, <2>1, UintHere
  <2>3. Len(s) \in Nat /\ Len(n) = W
    BY Zenon, <1>1, <1>2, CstrType, UintRead, LenProperties
  <2>4. Len(b) - W = i
    BY <1>4, <2>1, <2>3, MessageAssumption
  <2> QED
    BY Zenon, <2>2, <2>4
<1>8. DecodeAs("Untrashify", b) = Meaning(c)
  <2>1. DecodeAs("Untrashify", b) = UntrashifyDecode(b)
    BY SMTT(60) DEF DecodeAs
  <2>2. UntrashifyDecode(b) = c
    BY Zenon, <1>1, <1>5, <1>6, <1>7 DEF UntrashifyDecode
  <2> QED
    BY Zenon, <1>1, <2>1, <2>2, Plain
<1> QED
  BY Zenon, <1>3, <1>4, <1>8, ReadsBack

\* PatchMessage is read back, its offset included.
LEMMA PatchRead ==
  ASSUME NEW c \in PatchMessage
  PROVE  Reads(c)
<1>1. /\ c.type = "Patch" /\ c.Encrypt \in BOOLEAN /\ c.Offset \in Uint /\ c.Name \in String
      /\ c = [type |-> "Patch", Encrypt |-> c.Encrypt, Offset |-> c.Offset, Name |-> c.Name]
  BY SMTT(30) DEF PatchMessage
<1>2. PICK n, s, b : /\ n = PutUint64(c.Offset) /\ s = Cstr(c.Name)
                     /\ b = <<TypeByte["Patch"], Flag(c.Encrypt), 0, 0>> \o n \o s
  BY Zenon
<1>3. Body(c) = b
  <2>1. Body(c) = PatchEncode(c)
    BY <1>1, SMTT(60) DEF Body
  <2> QED
    BY Zenon, <1>1, <1>2, <2>1 DEF PatchEncode, Header
<1>4. /\ Opens(b, "Patch", Flag(c.Encrypt), 0, 0)
      /\ Here(b, 4, n) /\ Here(b, 4 + Len(n), s)
      /\ Len(b) = 4 + Len(n) + Len(s)
  <2>1. Flag(c.Encrypt) \in Byte /\ n \in Seq(Byte) /\ s \in Seq(Byte)
    BY Zenon, <1>1, <1>2, FlagByte, CstrType, UintRead
  <2>2. 0 \in Byte /\ "Patch" \in Type
    BY SMTT(30) DEF Byte, Type, TypeByte
  <2>3. Laid3(b, "Patch", Flag(c.Encrypt), 0, 0, n, s)
    BY Zenon, <1>2, <2>1, <2>2, Body3
  <2> QED
    BY Zenon, <2>3 DEF Laid3
<1>5. (At(b, 1) = 1) = c.Encrypt
  <2>1. At(b, 1) = Flag(c.Encrypt)
    BY Zenon, <1>4, Opening
  <2> QED
    BY <1>1, <2>1 DEF Flag
<1>6. Len(n) = W /\ Uint64(Slice(b, 4, 4 + W)) = c.Offset
  BY Zenon, <1>1, <1>2, <1>4, UintHere, UintRead
<1>7. GetCstring(From(b, 4 + W)).str = c.Name
  <2>1. Here(b, 4 + W, Cstr(c.Name))
    BY Zenon, <1>2, <1>4, <1>6
  <2>2. GetCstring(From(b, 4 + W)) = [str |-> c.Name, offset |-> Len(c.Name) + 1]
    BY Zenon, <1>1, <2>1, CstringHere
  <2> QED
    BY <2>2
<1>8. DecodeAs("Patch", b) = Meaning(c)
  <2>1. DecodeAs("Patch", b) = PatchDecode(b)
    BY SMTT(60) DEF DecodeAs
  <2>2. PatchDecode(b) = c
    BY Zenon, <1>1, <1>5, <1>6, <1>7 DEF PatchDecode
  <2> QED
    BY Zenon, <1>1, <2>1, <2>2, Plain
<1> QED
  BY Zenon, <1>3, <1>4, <1>8, ReadsBack

\* DeleteMessage is read back, its port and segment number included.
LEMMA DeleteRead ==
  ASSUME NEW c \in DeleteMessage
  PROVE  Reads(c)
<1>1. /\ c.type = "Delete" /\ c.Confirm \in BOOLEAN /\ c.Garbage \in BOOLEAN
      /\ c.CrazyDrop \in BOOLEAN /\ c.Name \in String /\ c.Port \in Uint /\ c.Segnum \in Uint
      /\ c = [type |-> "Delete", Confirm |-> c.Confirm, Garbage |-> c.Garbage,
              CrazyDrop |-> c.CrazyDrop, Name |-> c.Name, Port |-> c.Port, Segnum |-> c.Segnum]
  BY SMTT(30) DEF DeleteMessage
<1>2. PICK s, p, n, b : /\ s = Cstr(c.Name) /\ p = PutUint64(c.Port) /\ n = PutUint64(c.Segnum)
                        /\ b = <<TypeByte["Delete"], Flag(c.Confirm), Flag(c.Garbage), Flag(c.CrazyDrop)>>
                              \o s \o p \o n
  BY Zenon
<1>3. Body(c) = b
  <2>1. Body(c) = DeleteEncode(c)
    BY Zenon, <1>1 DEF Body
  <2> QED
    BY Zenon, <1>1, <1>2, <2>1 DEF DeleteEncode, Header
<1>4. /\ Opens(b, "Delete", Flag(c.Confirm), Flag(c.Garbage), Flag(c.CrazyDrop))
      /\ Here(b, 4, s) /\ Here(b, 4 + Len(s), p) /\ Here(b, 4 + Len(s) + Len(p), n)
      /\ Len(b) = 4 + Len(s) + Len(p) + Len(n)
  <2>1. /\ Flag(c.Confirm) \in Byte /\ Flag(c.Garbage) \in Byte /\ Flag(c.CrazyDrop) \in Byte
        /\ s \in Seq(Byte) /\ p \in Seq(Byte) /\ n \in Seq(Byte)
    BY Zenon, <1>1, <1>2, FlagByte, CstrType, UintRead
  <2>2. 0 \in Byte /\ "Delete" \in Type
    BY SMTT(30) DEF Byte, Type, TypeByte
  <2>3. Laid4(b, "Delete", Flag(c.Confirm), Flag(c.Garbage), Flag(c.CrazyDrop), s, p, n)
    BY Zenon, <1>2, <2>1, <2>2, Body4
  <2> QED
    BY Zenon, <2>3 DEF Laid4
<1>5. (At(b, 1) = 1) = c.Confirm /\ (At(b, 2) = 1) = c.Garbage /\ (At(b, 3) = 1) = c.CrazyDrop
  <2>1. At(b, 1) = Flag(c.Confirm) /\ At(b, 2) = Flag(c.Garbage) /\ At(b, 3) = Flag(c.CrazyDrop)
    BY Zenon, <1>4, Opening
  <2> QED
    BY <1>1, <2>1 DEF Flag
<1>6. GetCstring(From(b, 4)).str = c.Name /\ GetCstring(From(b, 4)).offset = Len(c.Name) + 1
  <2>1. GetCstring(From(b, 4)) = [str |-> c.Name, offset |-> Len(c.Name) + 1]
    BY SMTT(60), <1>1, <1>2, <1>4, CstringHere
  <2> QED
    BY <2>1
<1>7. /\ Uint64(Slice(b, Len(b) - 2 * W, Len(b) - W)) = c.Port
      /\ Uint64(From(b, Len(b) - W)) = c.Segnum
  <2>1. PICK i, j : i = 4 + Len(s) /\ j = 4 + Len(s) + Len(p)
    BY Zenon
  <2>2. Uint64(Slice(b, i, i + W)) = c.Port /\ Uint64(From(b, j)) = c.Segnum
    BY SMTT(60), <1>1, <1>2, <1>4, <2>1, UintHere
  <2>3. Len(s) \in Nat /\ Len(p) = W /\ Len(n) = W
    BY Zenon, <1>1, <1>2, CstrType, UintRead, LenProperties
  <2>4. Len(b) - 2 * W = i /\ Len(b) - W = j /\ i + W = j
    BY <1>4, <2>1, <2>3, MessageAssumption
  <2> QED
    BY Zenon, <2>2, <2>4
<1>8. DecodeAs("Delete", b) = Meaning(c)
  <2>1. DecodeAs("Delete", b) = DeleteDecode(b)
    BY SMTT(60) DEF DecodeAs
  <2>2. DeleteDecode(b) = c
    BY Zenon, <1>1, <1>5, <1>6, <1>7 DEF DeleteDecode
  <2> QED
    BY Zenon, <1>1, <2>1, <2>2, Plain
<1> QED
  BY Zenon, <1>3, <1>4, <1>8, ReadsBack

\* PutMessageV2 and V3, of one layout, are read back with their settings.
LEMMA PutV2V3Read ==
  ASSUME NEW c \in PutMessageV2V3
  PROVE  Reads(c)
<1>1. /\ c.type \in {"PutV2", "PutV3"} /\ c.Encrypt \in BOOLEAN /\ c.Name \in String
      /\ c.Settings \in Settings
      /\ c = [type |-> c.type, Encrypt |-> c.Encrypt, Name |-> c.Name, Settings |-> c.Settings]
  BY SMTT(30) DEF PutMessageV2V3
<1>2. PICK s, ss, b : /\ s = Cstr(c.Name) /\ ss = PutSettings(c.Settings)
                      /\ b = <<TypeByte[c.type], Flag(c.Encrypt), 0, 0>> \o s \o ss
  BY Zenon
<1>3. Body(c) = b
  <2>1. Body(c) = PutEncode(c) \o PutSettings(c.Settings)
    BY <1>1, SMTT(60) DEF Body, PutV2Encode, PutV3Encode
  <2> QED
    BY SMTT(60), <1>1, <1>2, <2>1 DEF PutEncode, Header
<1>4. /\ Opens(b, c.type, Flag(c.Encrypt), 0, 0)
      /\ Here(b, 4, s) /\ Here(b, 4 + Len(s), ss)
      /\ Len(b) = 4 + Len(s) + Len(ss)
  <2>1. Flag(c.Encrypt) \in Byte /\ s \in Seq(Byte) /\ ss \in Seq(Byte)
    BY Zenon, <1>1, <1>2, FlagByte, CstrType, SettingsType
  <2>2. 0 \in Byte /\ c.type \in Type
    BY <1>1, SMTT(30) DEF Byte, Type, TypeByte
  <2>3. Laid3(b, c.type, Flag(c.Encrypt), 0, 0, s, ss)
    BY Zenon, <1>2, <2>1, <2>2, Body3
  <2> QED
    BY Zenon, <2>3 DEF Laid3
<1>5. (At(b, 1) = 1) = c.Encrypt
  <2>1. At(b, 1) = Flag(c.Encrypt)
    BY Zenon, <1>4, Opening
  <2> QED
    BY <1>1, <2>1 DEF Flag
<1>6. GetCstring(From(b, 4)).str = c.Name /\ GetCstring(From(b, 4)).offset = Len(c.Name) + 1
  <2>1. GetCstring(From(b, 4)) = [str |-> c.Name, offset |-> Len(c.Name) + 1]
    BY SMTT(60), <1>1, <1>2, <1>4, CstringHere
  <2> QED
    BY <2>1
<1>7. GetSettings(From(b, 4 + (Len(c.Name) + 1))) = c.Settings
  <2>1. Here(b, 4 + (Len(c.Name) + 1), PutSettings(c.Settings))
    BY Zenon, <1>1, <1>2, <1>4, CstrType
  <2> QED
    BY Zenon, <1>1, <2>1, SettingsHere
<1>8. DecodeAs(c.type, b) = Meaning(c)
  <2>1. DecodeAs(c.type, b) = WithSettings(c.type, b)
    BY Zenon, <1>1 DEF DecodeAs, PutV2Decode, PutV3Decode
  <2>2. WithSettings(c.type, b) = c
    BY Zenon, <1>1, <1>5, <1>6, <1>7 DEF WithSettings
  <2> QED
    BY Zenon, <1>1, <2>1, <2>2, Plain
<1> QED
  BY Zenon, <1>3, <1>4, <1>8, ReadsBack

\* ListMessageV2 is read back with its settings.
LEMMA ListV2Read ==
  ASSUME NEW c \in ListMessageV2
  PROVE  Reads(c)
<1>1. /\ c.type = "ListV2" /\ c.Prefix \in String /\ c.Settings \in Settings
      /\ c = [type |-> "ListV2", Prefix |-> c.Prefix, Settings |-> c.Settings]
  BY SMTT(30) DEF ListMessageV2
<1>2. PICK s, ss, b : /\ s = Cstr(c.Prefix) /\ ss = PutSettings(c.Settings)
                      /\ b = <<TypeByte["ListV2"], 0, 0, 0>> \o s \o ss
  BY Zenon
<1>3. Body(c) = b
  <2>1. Body(c) = ListV2Encode(c)
    BY <1>1, SMTT(60) DEF Body
  <2> QED
    BY Zenon, <1>1, <1>2, <2>1 DEF ListV2Encode, ListEncode, Header
<1>4. /\ Opens(b, "ListV2", 0, 0, 0)
      /\ Here(b, 4, s) /\ Here(b, 4 + Len(s), ss)
      /\ Len(b) = 4 + Len(s) + Len(ss)
  <2>1. s \in Seq(Byte) /\ ss \in Seq(Byte)
    BY Zenon, <1>1, <1>2, CstrType, SettingsType
  <2>2. 0 \in Byte /\ "ListV2" \in Type
    BY SMTT(30) DEF Byte, Type, TypeByte
  <2>3. Laid3(b, "ListV2", 0, 0, 0, s, ss)
    BY Zenon, <1>2, <2>1, <2>2, Body3
  <2> QED
    BY Zenon, <2>3 DEF Laid3
<1>5. GetCstring(From(b, 4)).str = c.Prefix /\ GetCstring(From(b, 4)).offset = Len(c.Prefix) + 1
  <2>1. GetCstring(From(b, 4)) = [str |-> c.Prefix, offset |-> Len(c.Prefix) + 1]
    BY ZenonT(60), <1>1, <1>2, <1>4, CstringHere
  <2> QED
    BY <2>1
<1>6. GetSettings(From(b, 4 + (Len(c.Prefix) + 1))) = c.Settings
  <2>1. Here(b, 4 + (Len(c.Prefix) + 1), PutSettings(c.Settings))
    BY Zenon, <1>1, <1>2, <1>4, CstrType
  <2> QED
    BY Zenon, <1>1, <2>1, SettingsHere
<1>7. DecodeAs("ListV2", b) = Meaning(c)
  <2>1. DecodeAs("ListV2", b) = ListV2Decode(b)
    BY SMTT(60) DEF DecodeAs
  <2>2. ListV2Decode(b) = c
    BY Zenon, <1>1, <1>5, <1>6 DEF ListV2Decode
  <2> QED
    BY Zenon, <1>1, <2>1, <2>2, Plain
<1> QED
  BY Zenon, <1>3, <1>4, <1>7, ReadsBack

\* CatMessageV2 is read back with its settings and its offset.
LEMMA CatV2Read ==
  ASSUME NEW c \in CatMessageV2
  PROVE  Reads(c)
<1>1. /\ c.type = "CatV2" /\ c.Name \in String /\ c.Decrypt \in BOOLEAN /\ c.KEK \in BOOLEAN
      /\ c.StartOffset \in Uint /\ c.Settings \in Settings
      /\ c = [type |-> "CatV2", Name |-> c.Name, Decrypt |-> c.Decrypt, KEK |-> c.KEK,
              StartOffset |-> c.StartOffset, Settings |-> c.Settings]
  BY SMTT(30) DEF CatMessageV2
<1>2. PICK s, n, ss, b : /\ s = Cstr(c.Name) /\ n = PutUint64(c.StartOffset)
                         /\ ss = PutSettings(c.Settings)
                         /\ b = <<TypeByte["CatV2"], Flag(c.Decrypt), Flag(c.KEK), 0>> \o s \o n \o ss
  BY Zenon
<1>3. Body(c) = b
  <2>1. Body(c) = CatV2Encode(c)
    BY <1>1, SMTT(60) DEF Body
  <2> QED
    BY Zenon, <1>1, <1>2, <2>1 DEF CatV2Encode, Header
<1>4. /\ Opens(b, "CatV2", Flag(c.Decrypt), Flag(c.KEK), 0)
      /\ Here(b, 4, s) /\ Here(b, 4 + Len(s), n) /\ Here(b, 4 + Len(s) + Len(n), ss)
      /\ Len(b) = 4 + Len(s) + Len(n) + Len(ss)
  <2>1. /\ Flag(c.Decrypt) \in Byte /\ Flag(c.KEK) \in Byte
        /\ s \in Seq(Byte) /\ n \in Seq(Byte) /\ ss \in Seq(Byte)
    BY Zenon, <1>1, <1>2, FlagByte, CstrType, UintRead, SettingsType
  <2>2. 0 \in Byte /\ "CatV2" \in Type
    BY SMTT(30) DEF Byte, Type, TypeByte
  <2>3. Laid4(b, "CatV2", Flag(c.Decrypt), Flag(c.KEK), 0, s, n, ss)
    BY Zenon, <1>2, <2>1, <2>2, Body4
  <2> QED
    BY Zenon, <2>3 DEF Laid4
<1>5. (At(b, 1) = 1) = c.Decrypt /\ (At(b, 2) = 1) = c.KEK
  <2>1. At(b, 1) = Flag(c.Decrypt) /\ At(b, 2) = Flag(c.KEK)
    BY Zenon, <1>4, Opening
  <2> QED
    BY <1>1, <2>1 DEF Flag
<1>6. GetCstring(From(b, 4)).str = c.Name /\ GetCstring(From(b, 4)).offset = Len(c.Name) + 1
  <2>1. GetCstring(From(b, 4)) = [str |-> c.Name, offset |-> Len(c.Name) + 1]
    BY SMTT(60), <1>1, <1>2, <1>4, CstringHere
  <2> QED
    BY <2>1
<1>7. /\ Uint64(From(b, 4 + Len(c.Name) + 1)) = c.StartOffset
      /\ GetSettings(From(b, 4 + W + (Len(c.Name) + 1))) = c.Settings
  <2>1. PICK i, j : i = 4 + Len(s) /\ j = 4 + Len(s) + Len(n)
    BY Zenon
  <2>2. Uint64(From(b, i)) = c.StartOffset /\ GetSettings(From(b, j)) = c.Settings
    BY SMTT(60), <1>1, <1>2, <1>4, <2>1, UintHere, SettingsHere
  <2>3. PICK k \in Nat : k = Len(c.Name) /\ Len(s) = k + 1 /\ Len(n) = W
    BY Zenon, <1>1, <1>2, CstrType, UintRead
  <2>4. 4 + (k + 1) = 4 + k + 1 /\ 4 + (k + 1) + W = 4 + W + (k + 1)
    BY MessageAssumption
  <2> QED
    BY Zenon, <2>1, <2>2, <2>3, <2>4
<1>8. DecodeAs("CatV2", b) = Meaning(c)
  <2>1. DecodeAs("CatV2", b) = CatV2Decode(b)
    BY SMTT(60) DEF DecodeAs
  <2>2. CatV2Decode(b) = c
    BY Zenon, <1>1, <1>5, <1>6, <1>7 DEF CatV2Decode
  <2> QED
    BY Zenon, <1>1, <2>1, <2>2, Plain
<1> QED
  BY Zenon, <1>3, <1>4, <1>8, ReadsBack

\* CatMessage is read back: the offset is on the wire only if it is not 0.
LEMMA CatRead ==
  ASSUME NEW c \in CatMessage
  PROVE  Reads(c)
<1>1. /\ c.type = "Cat" /\ c.Name \in String /\ c.Decrypt \in BOOLEAN /\ c.StartOffset \in Uint
      /\ c = [type |-> "Cat", Name |-> c.Name, Decrypt |-> c.Decrypt, StartOffset |-> c.StartOffset]
  BY SMTT(30) DEF CatMessage
<1>2. PICK s, n, b : /\ s = Cstr(c.Name)
                     /\ n = (IF c.StartOffset # 0 THEN PutUint64(c.StartOffset) ELSE << >>)
                     /\ b = <<TypeByte["Cat"], Flag(c.Decrypt), Flag(c.StartOffset # 0), 0>> \o s \o n
  BY Zenon
<1>3. Body(c) = b
  <2>1. Body(c) = CatEncode(c)
    BY Zenon, <1>1 DEF Body
  <2> QED
    BY Zenon, <1>1, <1>2, <2>1 DEF CatEncode, Header
<1>4. /\ Opens(b, "Cat", Flag(c.Decrypt), Flag(c.StartOffset # 0), 0)
      /\ Here(b, 4, s) /\ Here(b, 4 + Len(s), n)
      /\ Len(b) = 4 + Len(s) + Len(n)
  <2>1. /\ Flag(c.Decrypt) \in Byte /\ Flag(c.StartOffset # 0) \in Byte
        /\ s \in Seq(Byte) /\ n \in Seq(Byte)
    <3>1. Flag(c.Decrypt) \in Byte /\ s \in Seq(Byte) /\ PutUint64(c.StartOffset) \in Seq(Byte)
      BY Zenon, <1>1, <1>2, FlagByte, CstrType, UintRead
    <3>2. Flag(c.StartOffset # 0) \in Byte
      BY DEF Flag, Byte
    <3>3. n \in Seq(Byte)
      BY Zenon, <1>2, <3>1, EmptySeq
    <3> QED
      BY Zenon, <3>1, <3>2, <3>3
  <2>2. 0 \in Byte /\ "Cat" \in Type
    BY SMTT(30) DEF Byte, Type, TypeByte
  <2>3. Laid3(b, "Cat", Flag(c.Decrypt), Flag(c.StartOffset # 0), 0, s, n)
    BY Zenon, <1>2, <2>1, <2>2, Body3
  <2> QED
    BY Zenon, <2>3 DEF Laid3
<1>5. (At(b, 1) = 1) = c.Decrypt
  <2>1. At(b, 1) = Flag(c.Decrypt)
    BY Zenon, <1>4, Opening
  <2> QED
    BY <1>1, <2>1 DEF Flag
<1>6. GetCstring(From(b, 4)).str = c.Name /\ GetCstring(From(b, 4)).offset = Len(c.Name) + 1
  <2>1. GetCstring(From(b, 4)) = [str |-> c.Name, offset |-> Len(c.Name) + 1]
    BY SMTT(60), <1>1, <1>2, <1>4, CstringHere
  <2> QED
    BY <2>1
<1>7. (IF At(b, 2) = 1 THEN Uint64(From(b, 4 + Len(c.Name) + 1)) ELSE 0) = c.StartOffset
  <2>1. At(b, 2) = Flag(c.StartOffset # 0)
    BY Zenon, <1>4, Opening
  <2>2. CASE c.StartOffset = 0
    BY <2>1, <2>2 DEF Flag
  <2>3. CASE c.StartOffset # 0
    <3>1. PICK i : i = 4 + Len(s)
      BY Zenon
    <3>2. Here(b, i, PutUint64(c.StartOffset))
      BY Zenon, <1>2, <1>4, <2>3, <3>1
    <3>3. Uint64(From(b, i)) = c.StartOffset
      BY Zenon, <1>1, <3>2, UintHere
    <3>4. Len(c.Name) \in Nat /\ Len(s) = Len(c.Name) + 1
      BY Zenon, <1>1, <1>2, CstrType
    <3>5. i = 4 + Len(c.Name) + 1
      BY <3>1, <3>4
    <3>6. At(b, 2) = 1
      BY <2>1, <2>3 DEF Flag
    <3> QED
      BY Zenon, <3>3, <3>5, <3>6
  <2> QED
    BY Zenon, <2>2, <2>3
<1>8. DecodeAs("Cat", b) = Meaning(c)
  <2>1. DecodeAs("Cat", b) = CatDecode(b)
    BY SMTT(60) DEF DecodeAs
  <2>2. CatDecode(b) = c
    BY Zenon, <1>1, <1>5, <1>6, <1>7 DEF CatDecode
  <2> QED
    BY Zenon, <1>1, <2>1, <2>2, Plain
<1> QED
  BY Zenon, <1>3, <1>4, <1>8, ReadsBack

\* A body that is a header alone.
LEMMA Body1 ==
  ASSUME NEW t \in Type, NEW b1 \in Byte, NEW b2 \in Byte, NEW b3 \in Byte
  PROVE  Opens(<<TypeByte[t], b1, b2, b3>>, t, b1, b2, b3)
<1>1. PICK h : h = <<TypeByte[t], b1, b2, b3>>
  BY Zenon
<1>2. h \in Seq(Byte) /\ Len(h) = 4
  BY Zenon, <1>1, HeaderType
<1>3. 0 + Len(h) <= Len(h) /\ \A k \in 1..Len(h) : h[0 + k] = h[k]
  BY <1>2
<1>4. Here(h, 0, h)
  BY <1>2, <1>3 DEF Here
<1> QED
  BY Zenon, <1>1, <1>4 DEF Opens

\* CopyDone is its header.
LEMMA CopyDoneRead ==
  ASSUME NEW c \in CopyDoneMessage
  PROVE  Reads(c)
<1>1. c.type = "CopyDone" /\ c = [type |-> "CopyDone"]
  BY SMTT(30) DEF CopyDoneMessage
<1>2. Body(c) = <<TypeByte["CopyDone"], 0, 0, 0>>
  <2>1. Body(c) = CopyDoneEncode(c)
    BY <1>1, SMTT(60) DEF Body
  <2> QED
    BY Zenon, <1>1, <2>1 DEF CopyDoneEncode, Header
<1>3. Opens(Body(c), "CopyDone", 0, 0, 0)
  <2>1. 0 \in Byte /\ "CopyDone" \in Type
    BY SMTT(30) DEF Byte, Type, TypeByte
  <2> QED
    BY Zenon, <1>1, <1>2, <2>1, Body1
<1>4. DecodeAs("CopyDone", Body(c)) = Meaning(c)
  <2>1. DecodeAs("CopyDone", Body(c)) = CopyDoneDecode(Body(c))
    BY SMTT(60) DEF DecodeAs
  <2>2. CopyDoneDecode(Body(c)) = c
    BY Zenon, <1>1 DEF CopyDoneDecode
  <2> QED
    BY Zenon, <1>1, <2>1, <2>2, Plain
<1> QED
  BY Zenon, <1>3, <1>4, ReadsBack

\* ReadyForQuery is its header.
LEMMA ReadyForQueryRead ==
  ASSUME NEW c \in ReadyForQueryMessage
  PROVE  Reads(c)
<1>1. c.type = "ReadyForQuery" /\ c = [type |-> "ReadyForQuery"]
  BY SMTT(30) DEF ReadyForQueryMessage
<1>2. Body(c) = <<TypeByte["ReadyForQuery"], 0, 0, 0>>
  <2>1. Body(c) = ReadyForQueryEncode(c)
    BY Zenon, <1>1 DEF Body
  <2> QED
    BY Zenon, <1>1, <2>1 DEF ReadyForQueryEncode, Header
<1>3. Opens(Body(c), "ReadyForQuery", 0, 0, 0)
  <2>1. 0 \in Byte /\ "ReadyForQuery" \in Type
    BY SMTT(30) DEF Byte, Type, TypeByte
  <2> QED
    BY Zenon, <1>1, <1>2, <2>1, Body1
<1>4. DecodeAs("ReadyForQuery", Body(c)) = Meaning(c)
  <2>1. DecodeAs("ReadyForQuery", Body(c)) = ReadyForQueryDecode(Body(c))
    BY SMTT(60) DEF DecodeAs
  <2>2. ReadyForQueryDecode(Body(c)) = c
    BY Zenon, <1>1 DEF ReadyForQueryDecode
  <2> QED
    BY Zenon, <1>1, <2>1, <2>2, Plain
<1> QED
  BY Zenon, <1>3, <1>4, ReadsBack

\* CopyComplete is its header, with a byte of key version.
LEMMA CopyCompleteRead ==
  ASSUME NEW c \in CopyCompleteMessage
  PROVE  Reads(c)
<1>1. /\ c.type = "CopyComplete" /\ c.KeyVersion \in Byte
      /\ c = [type |-> "CopyComplete", KeyVersion |-> c.KeyVersion]
  BY SMTT(30) DEF CopyCompleteMessage
<1>2. Body(c) = <<TypeByte["CopyComplete"], c.KeyVersion, 0, 0>>
  <2>1. Body(c) = CopyCompleteEncode(c)
    BY Zenon, <1>1 DEF Body
  <2> QED
    BY Zenon, <1>1, <2>1 DEF CopyCompleteEncode, Header
<1>3. Opens(Body(c), "CopyComplete", c.KeyVersion, 0, 0)
  <2>1. 0 \in Byte /\ "CopyComplete" \in Type
    BY SMTT(30) DEF Byte, Type, TypeByte
  <2> QED
    BY Zenon, <1>1, <1>2, <2>1, Body1
<1>4. At(Body(c), 1) = c.KeyVersion
  BY Zenon, <1>3, Opening
<1>5. DecodeAs("CopyComplete", Body(c)) = Meaning(c)
  <2>1. DecodeAs("CopyComplete", Body(c)) = CopyCompleteDecode(Body(c))
    BY SMTT(60) DEF DecodeAs
  <2>2. CopyCompleteDecode(Body(c)) = c
    BY Zenon, <1>1, <1>4 DEF CopyCompleteDecode
  <2> QED
    BY Zenon, <1>1, <2>1, <2>2, Plain
<1> QED
  BY Zenon, <1>3, <1>5, ReadsBack

\* The two bytes of a key version.
LEMMA Uint16Read ==
  ASSUME NEW v \in Uint16
  PROVE  (v \div 256) \in Byte /\ (v % 256) \in Byte /\ 256 * (v \div 256) + (v % 256) = v
<1>1. PICK m : m = 256 * 256
  BY Zenon
<1>2. m \in Nat
  BY <1>1
<1>3. v \in 0..(m - 1)
  BY Zenon, <1>1 DEF Uint16
<1>4. v \in Nat /\ v < m
  BY <1>2, <1>3
<1>5. v < 256 * 256
  BY Zenon, <1>1, <1>4
<1> QED
  BY <1>4, <1>5 DEF Byte

\* PutComplete is read back with its 16 bits of key version.
LEMMA PutCompleteRead ==
  ASSUME NEW c \in PutCompleteMessage
  PROVE  Reads(c)
<1>1. /\ c.type = "PutComplete" /\ c.KeyVersion \in Uint16
      /\ c = [type |-> "PutComplete", KeyVersion |-> c.KeyVersion]
  BY SMTT(30) DEF PutCompleteMessage
<1>2. PICK k : k = <<c.KeyVersion \div 256, c.KeyVersion % 256>>
  BY Zenon
<1>3. PICK b : b = <<TypeByte["PutComplete"], 0, 0, 0>> \o k
  BY Zenon
<1>4. Body(c) = b
  <2>1. Body(c) = PutCompleteEncode(c)
    BY <1>1, SMTT(60) DEF Body
  <2> QED
    BY SMTT(60), <1>1, <1>2, <1>3, <2>1 DEF PutCompleteEncode, Header
<1>5. /\ Opens(b, "PutComplete", 0, 0, 0)
      /\ Here(b, 4, k)
      /\ Len(b) = 4 + Len(k)
  <2>1. k \in Seq(Byte)
    <3>1. PICK v \in Uint16 : v = c.KeyVersion
      BY <1>1
    <3>2. (v \div 256) \in Byte /\ (v % 256) \in Byte
      BY SMTT(60), Uint16Read
    <3> QED
      BY <1>2, <3>1, <3>2
  <2>2. 0 \in Byte /\ "PutComplete" \in Type
    BY SMTT(30) DEF Byte, Type, TypeByte
  <2>3. Laid2(b, "PutComplete", 0, 0, 0, k)
    BY Zenon, <1>3, <2>1, <2>2, Body2
  <2> QED
    BY Zenon, <2>3 DEF Laid2
<1>6. 256 * At(b, 4) + At(b, 5) = c.KeyVersion
  <2>1. PICK v \in Uint16 : v = c.KeyVersion
    BY <1>1
  <2>2. Len(k) = 2 /\ k[1] = v \div 256 /\ k[2] = v % 256
    BY <1>2, <2>1
  <2>3. \A i \in 1..2 : b[4 + i] = k[i]
    BY SMTT(60), <1>5, <2>2 DEF Here
  <2>4. At(b, 4) = v \div 256 /\ At(b, 5) = v % 256
    BY <2>2, <2>3 DEF At
  <2>5. 256 * (v \div 256) + (v % 256) = v
    BY SMTT(60), Uint16Read
  <2> QED
    BY SMTT(60), <2>1, <2>4, <2>5
<1>7. DecodeAs("PutComplete", b) = Meaning(c)
  <2>1. DecodeAs("PutComplete", b) = PutCompleteDecode(b)
    BY SMTT(60) DEF DecodeAs
  <2>2. PutCompleteDecode(b) = c
    BY Zenon, <1>1, <1>6 DEF PutCompleteDecode
  <2> QED
    BY Zenon, <1>1, <2>1, <2>2, Plain
<1> QED
  BY Zenon, <1>4, <1>5, <1>7, ReadsBack

\* The used part of a CopyData buffer.
LEMMA BufferPart ==
  ASSUME NEW c \in CopyDataMessage
  PROVE  SubSeq(c.Data, 1, c.Sz) \in Seq(Byte) /\ Len(SubSeq(c.Data, 1, c.Sz)) = c.Sz
<1>1. c.Sz \in Uint /\ c.Data \in Seq(Byte) /\ c.Sz <= Len(c.Data)
  BY DEF CopyDataMessage
<1>2. PICK n \in Nat, m \in Nat : n = c.Sz /\ m = Len(c.Data)
  BY <1>1, PlaceDef, LenProperties DEF Uint
<1>3. \A i \in 1..n : c.Data[i] \in Byte
  BY <1>1, <1>2, ElementOfSeq
<1>4. /\ SubSeq(c.Data, 1, n) \in Seq(Byte)
      /\ Len(SubSeq(c.Data, 1, n)) = IF 1 <= n THEN n - 1 + 1 ELSE 0
  BY <1>3, SubSeqProperties
<1>5. (IF 1 <= n THEN n - 1 + 1 ELSE 0) = n
  OBVIOUS
<1> QED
  BY Zenon, <1>2, <1>4, <1>5

\* CopyData is read back as the used part of its buffer.
LEMMA CopyDataRead ==
  ASSUME NEW c \in CopyDataMessage
  PROVE  Reads(c)
<1>1. /\ c.type = "CopyData" /\ c.Sz \in Uint /\ c.Data \in Seq(Byte)
      /\ c = [type |-> "CopyData", Sz |-> c.Sz, Data |-> c.Data]
  BY SMTT(30) DEF CopyDataMessage
<1>2. PICK n, d, b : /\ n = PutUint64(c.Sz) /\ d = SubSeq(c.Data, 1, c.Sz)
                     /\ b = <<TypeByte["CopyData"], 0, 0, 0>> \o n \o d
  BY Zenon
<1>3. Body(c) = b
  <2>1. Body(c) = CopyDataEncode(c)
    BY Zenon, <1>1 DEF Body
  <2> QED
    BY Zenon, <1>1, <1>2, <2>1 DEF CopyDataEncode, Header
<1>4. /\ Opens(b, "CopyData", 0, 0, 0)
      /\ Here(b, 4, n) /\ Here(b, 4 + Len(n), d)
      /\ Len(b) = 4 + Len(n) + Len(d)
  <2>1. n \in Seq(Byte) /\ d \in Seq(Byte)
    BY SMTT(60), <1>1, <1>2, UintRead, BufferPart
  <2>2. 0 \in Byte /\ "CopyData" \in Type
    BY SMTT(30) DEF Byte, Type, TypeByte
  <2>3. Laid3(b, "CopyData", 0, 0, 0, n, d)
    BY Zenon, <1>2, <2>1, <2>2, Body3
  <2> QED
    BY Zenon, <2>3 DEF Laid3
<1>5. Uint64(Slice(b, 4, 4 + W)) = c.Sz
  BY Zenon, <1>1, <1>2, <1>4, UintHere
<1>6. Slice(b, 4 + W, 4 + W + c.Sz) = d
  <2>1. Len(n) = W /\ Len(d) = c.Sz
    BY Zenon, <1>1, <1>2, UintRead, BufferPart
  <2> QED
    BY SMTT(60), <1>4, <2>1, SliceHere
<1>7. Meaning(c) = [type |-> "CopyData", Sz |-> c.Sz, Data |-> d]
  BY <1>1, <1>2, SMTT(30) DEF Meaning
<1>8. DecodeAs("CopyData", b) = Meaning(c)
  <2>1. DecodeAs("CopyData", b) = CopyDataDecode(b)
    BY SMTT(60) DEF DecodeAs
  <2>2. CopyDataDecode(b) = Meaning(c)
    BY Zenon, <1>1, <1>5, <1>6, <1>7 DEF CopyDataDecode
  <2> QED
    BY Zenon, <1>1, <2>1, <2>2
<1> QED
  BY Zenon, <1>3, <1>4, <1>8, ReadsBack

\* A listing is read back, for any number of objects.
LEMMA ObjectInfoRead ==
  ASSUME NEW c \in ObjectInfoMessage
  PROVE  Reads(c)
<1>1. /\ c.type = "ObjectMeta" /\ c.Content \in ObjectList
      /\ c = [type |-> "ObjectMeta", Content |-> c.Content]
  BY SMTT(30) DEF ObjectInfoMessage, ObjectList
<1>2. PICK j, b : /\ j = Joined(ObjectBytes(c.Content))
                  /\ b = <<TypeByte["ObjectMeta"], 0, 0, 0>> \o j
  BY Zenon
<1>3. Body(c) = b
  <2>1. Body(c) = ObjectMetaEncode(c)
    BY <1>1, SMTT(60) DEF Body
  <2> QED
    BY Zenon, <1>1, <1>2, <2>1 DEF ObjectMetaEncode, ObjectBytes, Header
<1>4. /\ Opens(b, "ObjectMeta", 0, 0, 0)
      /\ Here(b, 4, j)
      /\ Len(b) = 4 + Len(j)
  <2>1. j \in Seq(Byte)
    BY Zenon, <1>1, <1>2, ObjectsType
  <2>2. 0 \in Byte /\ "ObjectMeta" \in Type
    BY SMTT(30) DEF Byte, Type, TypeByte
  <2>3. Laid2(b, "ObjectMeta", 0, 0, 0, j)
    BY Zenon, <1>2, <2>1, <2>2, Body2
  <2> QED
    BY Zenon, <2>3 DEF Laid2
<1>5. ObjectInfos(From(b, 4)) = c.Content
  <2>1. From(b, 4) = j
    BY Zenon, <1>4, RestHere
  <2> QED
    BY Zenon, <1>1, <1>2, <2>1, ObjectsRead
<1>6. DecodeAs("ObjectMeta", b) = Meaning(c)
  <2>1. DecodeAs("ObjectMeta", b) = ObjectMetaDecode(b)
    BY SMTT(60) DEF DecodeAs
  <2>2. ObjectMetaDecode(b) = c
    BY Zenon, <1>1, <1>5 DEF ObjectMetaDecode
  <2> QED
    BY Zenon, <1>1, <2>1, <2>2, Plain
<1> QED
  BY Zenon, <1>3, <1>4, <1>6, ReadsBack

\* The bytes of a string behind its length.
LEMMA LstrType ==
  ASSUME NEW s \in Bytes
  PROVE  Lstr(s) \in Seq(Byte) /\ Len(Lstr(s)) = W + Len(s) /\ Len(s) \in Nat
<1>1. s \in Seq(Byte) /\ Len(s) \in Uint
  BY DEF Bytes
<1>2. PutUint64(Len(s)) \in Seq(Byte) /\ Len(PutUint64(Len(s))) = W
  BY Zenon, <1>1, UintRead
<1> QED
  BY Zenon, <1>1, <1>2, Halves, LenProperties DEF Lstr

\* An error is read back with both its texts.
LEMMA ErrorRead ==
  ASSUME NEW c \in ErrorMessage
  PROVE  Reads(c)
<1>1. /\ c.type = "Error" /\ c.Error \in Bytes /\ c.Message \in Bytes
      /\ c = [type |-> "Error", Error |-> c.Error, Message |-> c.Message]
  BY SMTT(30) DEF ErrorMessage
<1>2. PICK x, y, b : /\ x = Lstr(c.Error) /\ y = Lstr(c.Message)
                     /\ b = <<TypeByte["Error"], 0, 0, 0>> \o x \o y
  BY Zenon
<1>3. Body(c) = b
  <2>1. Body(c) = ErrorEncode(c)
    BY <1>1, SMTT(60) DEF Body
  <2> QED
    BY Zenon, <1>1, <1>2, <2>1 DEF ErrorEncode, Header
<1>4. /\ Opens(b, "Error", 0, 0, 0)
      /\ Here(b, 4, x) /\ Here(b, 4 + Len(x), y)
      /\ Len(b) = 4 + Len(x) + Len(y)
  <2>1. x \in Seq(Byte) /\ y \in Seq(Byte)
    BY Zenon, <1>1, <1>2, LstrType
  <2>2. 0 \in Byte /\ "Error" \in Type
    BY SMTT(30) DEF Byte, Type, TypeByte
  <2>3. Laid3(b, "Error", 0, 0, 0, x, y)
    BY Zenon, <1>2, <2>1, <2>2, Body3
  <2> QED
    BY Zenon, <2>3 DEF Laid3
<1>5. GetLstring(b, 4).str = c.Error /\ GetLstring(b, 4).end = 4 + W + Len(c.Error)
  <2>1. GetLstring(b, 4) = [str |-> c.Error, end |-> 4 + W + Len(c.Error)]
    BY Zenon, <1>1, <1>2, <1>4, LstringHere
  <2> QED
    BY <2>1
<1>6. GetLstring(b, 4 + W + Len(c.Error)).str = c.Message
  <2>1. PICK k \in Nat : k = Len(c.Error) /\ Len(x) = W + k
    BY Zenon, <1>1, <1>2, LstrType
  <2>2. 4 + (W + k) = 4 + W + k
    BY MessageAssumption
  <2>3. PICK i : i = 4 + W + Len(c.Error) /\ Here(b, i, Lstr(c.Message))
    BY Zenon, <1>2, <1>4, <2>1, <2>2
  <2>4. GetLstring(b, i) = [str |-> c.Message, end |-> i + W + Len(c.Message)]
    BY Zenon, <1>1, <2>3, LstringHere
  <2> QED
    BY <2>3, <2>4
<1>7. DecodeAs("Error", b) = Meaning(c)
  <2>1. DecodeAs("Error", b) = ErrorDecode(b)
    BY SMTT(60) DEF DecodeAs
  <2>2. ErrorDecode(b) = c
    BY Zenon, <1>1, <1>5, <1>6 DEF ErrorDecode
  <2> QED
    BY Zenon, <1>1, <2>1, <2>2, Plain
<1> QED
  BY Zenon, <1>3, <1>4, <1>7, ReadsBack

\* The name a Gool message carries.
LEMMA GoolName ==
  ASSUME NEW s \in String
  PROVE  Gool \o s \in String
<1>1. Gool \in Seq(1..255)
  BY DEF Gool
<1> QED
  BY SMTT(60), <1>1, ConcatProperties DEF String

\* Gool is read back with the greeting its Encode puts before the name.
LEMMA GoolRead ==
  ASSUME NEW c \in GoolMessage
  PROVE  Reads(c)
<1>1. /\ c.type = "Gool" /\ c.Name \in String
      /\ c = [type |-> "Gool", Name |-> c.Name]
  BY SMTT(30) DEF GoolMessage
<1>2. PICK s, b : /\ s = Cstr(Gool \o c.Name)
                  /\ b = <<TypeByte["Gool"], 0, 0, 0>> \o s
  BY Zenon
<1>3. Body(c) = b
  <2>1. Body(c) = GoolEncode(c)
    BY <1>1, SMTT(60) DEF Body
  <2> QED
    BY Zenon, <1>1, <1>2, <2>1 DEF GoolEncode, Header
<1>4. /\ Opens(b, "Gool", 0, 0, 0)
      /\ Here(b, 4, s)
      /\ Len(b) = 4 + Len(s)
  <2>1. s \in Seq(Byte)
    BY Zenon, <1>1, <1>2, CstrType, GoolName
  <2>2. 0 \in Byte /\ "Gool" \in Type
    BY SMTT(30) DEF Byte, Type, TypeByte
  <2>3. Laid2(b, "Gool", 0, 0, 0, s)
    BY Zenon, <1>2, <2>1, <2>2, Body2
  <2> QED
    BY Zenon, <2>3 DEF Laid2
<1>5. GetCstring(From(b, 4)).str = Gool \o c.Name
  <2>1. PICK w \in String : w = Gool \o c.Name
    BY Zenon, <1>1, GoolName
  <2>2. GetCstring(From(b, 4)) = [str |-> w, offset |-> Len(w) + 1]
    BY Zenon, <1>2, <1>4, <2>1, CstringHere
  <2>3. GetCstring(From(b, 4)).str = w
    BY <2>2
  <2> QED
    BY Zenon, <2>1, <2>3
<1>6. Meaning(c) = [type |-> "Gool", Name |-> Gool \o c.Name]
  BY <1>1, SMTT(30) DEF Meaning
<1>7. DecodeAs("Gool", b) = Meaning(c)
  <2>1. DecodeAs("Gool", b) = GoolDecode(b)
    BY SMTT(60) DEF DecodeAs
  <2>2. GoolDecode(b) = Meaning(c)
    BY Zenon, <1>1, <1>5, <1>6 DEF GoolDecode
  <2> QED
    BY Zenon, <1>1, <2>1, <2>2
<1> QED
  BY Zenon, <1>3, <1>4, <1>7, ReadsBack

\* CollectObsolete and DeleteObsolete are written as bytes behind a header.
LEMMA ObsoleteWhole ==
  ASSUME NEW c \in ObsoleteMessage
  PROVE  c.type \in Unpaired /\ Body(c) \in Seq(Byte) /\ Len(Body(c)) >= 4
<1>1. c.type \in {"CollectObsolete", "DeleteObsolete"} /\ c.DBName \in Bytes /\ c.Message \in Bytes
  BY SMTT(30) DEF ObsoleteMessage
<1>2. PICK x, y, b : /\ x = Lstr(c.DBName) /\ y = Lstr(c.Message)
                     /\ b = <<TypeByte[c.type], 0, 0, 0>> \o x \o y
  BY Zenon
<1>3. Body(c) = b
  <2>1. Body(c) = ObsoleteEncode(c)
    BY Zenon, <1>1 DEF Body
  <2> QED
    BY Zenon, <1>1, <1>2, <2>1 DEF ObsoleteEncode, Header
<1>4. x \in Seq(Byte) /\ y \in Seq(Byte)
  BY Zenon, <1>1, <1>2, LstrType
<1>5. 0 \in Byte /\ c.type \in Type
  BY <1>1, SMTT(30) DEF Byte, Type, TypeByte
<1>6. Opens(b, c.type, 0, 0, 0)
  <2>1. Laid3(b, c.type, 0, 0, 0, x, y)
    BY Zenon, <1>2, <1>4, <1>5, Body3
  <2> QED
    BY Zenon, <2>1 DEF Laid3
<1>7. Body(c) \in Seq(Byte) /\ Len(Body(c)) >= 4
  BY Zenon, <1>3, <1>6, OpensWhole
<1> QED
  BY Zenon, <1>1, <1>7 DEF Unpaired

\* What both copy messages end with, and how it is read back.
TailFields(c) ==
  c.Name \in Bytes /\ c.OldCfgPath \in Bytes /\ c.Port \in Uint /\ c.Confirm \in BOOLEAN

TailRead(b, c) ==
  LET name == GetLstring(b, 4)
      cfg == GetLstring(b, name.end)
  IN /\ name.str = c.Name /\ cfg.str = c.OldCfgPath
     /\ Uint64(From(b, cfg.end)) = c.Port /\ (At(b, cfg.end + W) = 1) = c.Confirm

\* The tail is the two strings, the port and the flag, in this order.
LEMMA TailParts ==
  ASSUME NEW c, TailFields(c)
  PROVE  /\ CopyTail(c) \in Seq(Byte)
         /\ Parts4(CopyTail(c), Lstr(c.Name), Lstr(c.OldCfgPath), PutUint64(c.Port),
                   <<Flag(c.Confirm)>>)
<1>1. PICK x, y, z, f : /\ x = Lstr(c.Name) /\ y = Lstr(c.OldCfgPath) /\ z = PutUint64(c.Port)
                        /\ f = Flag(c.Confirm)
  BY Zenon
<1>2. x \in Seq(Byte) /\ y \in Seq(Byte) /\ z \in Seq(Byte) /\ f \in Byte
  BY Zenon, <1>1, LstrType, UintRead, FlagByte DEF TailFields
<1>3. <<f>> \in Seq(Byte)
  BY <1>2
<1>4. Parts4(x \o y \o z \o <<f>>, x, y, z, <<f>>)
  BY Zenon, <1>2, <1>3, Four
<1>5. CopyTail(c) = x \o y \o z \o <<f>>
  BY Zenon, <1>1 DEF CopyTail
<1> QED
  BY SMTT(60), <1>1, <1>4, <1>5 DEF Parts4

\* A body that holds the tail after its header is read back from it.
LEMMA TailHere ==
  ASSUME NEW b, NEW c, TailFields(c), Here(b, 4, CopyTail(c))
  PROVE  TailRead(b, c)
<1>1. PICK x, y, z, f : /\ x = Lstr(c.Name) /\ y = Lstr(c.OldCfgPath) /\ z = PutUint64(c.Port)
                        /\ f = Flag(c.Confirm)
  BY Zenon
<1>2. PICK j \in Nat, k \in Nat : /\ j = Len(c.Name) /\ k = Len(c.OldCfgPath)
                                  /\ Len(x) = W + j /\ Len(y) = W + k /\ Len(z) = W
  BY Zenon, <1>1, LstrType, UintRead DEF TailFields
<1>3. Parts4(CopyTail(c), x, y, z, <<f>>)
  BY Zenon, <1>1, TailParts
<1>4. /\ Here(b, 4 + 0, x) /\ Here(b, 4 + (W + j), y) /\ Here(b, 4 + (W + j + (W + k)), z)
      /\ Here(b, 4 + (W + j + (W + k) + W), <<f>>)
  BY ZenonT(60), <1>2, <1>3, Within DEF Parts4
<1>5. PICK p \in Nat, q \in Nat : p = 4 + W + j /\ q = p + W + k
  BY MessageAssumption
<1>6. /\ 4 + 0 = 4 /\ 4 + (W + j) = p /\ 4 + (W + j + (W + k)) = q
      /\ 4 + (W + j + (W + k) + W) = q + W
  BY <1>5, MessageAssumption
<1>7. Here(b, 4, x) /\ Here(b, p, y) /\ Here(b, q, z) /\ Here(b, q + W, <<f>>)
  BY Zenon, <1>4, <1>6
<1>8. GetLstring(b, 4) = [str |-> c.Name, end |-> p]
  BY SMTT(60), <1>1, <1>2, <1>5, <1>7, LstringHere DEF TailFields
<1>9. GetLstring(b, p) = [str |-> c.OldCfgPath, end |-> q]
  <2>1. GetLstring(b, p) = [str |-> c.OldCfgPath, end |-> p + W + Len(c.OldCfgPath)]
    BY Zenon, <1>1, <1>7, LstringHere DEF TailFields
  <2> QED
    BY Zenon, <1>2, <1>5, <2>1
<1>10. Uint64(From(b, q)) = c.Port
  BY Zenon, <1>1, <1>7, UintHere DEF TailFields
<1>11. (At(b, q + W) = 1) = c.Confirm
  <2>1. Len(<<f>>) = 1 /\ <<f>>[1] = f
    OBVIOUS
  <2>2. 1 \in 1..1
    OBVIOUS
  <2>3. b[q + W + 1] = f
    BY Zenon, <1>7, <2>1, <2>2 DEF Here
  <2>4. At(b, q + W) = f
    BY Zenon, <2>3 DEF At
  <2>5. c.Confirm \in BOOLEAN
    BY Zenon DEF TailFields
  <2> QED
    BY <1>1, <2>4, <2>5 DEF Flag
<1>12. /\ GetLstring(b, 4).str = c.Name /\ GetLstring(b, 4).end = p
       /\ GetLstring(b, p).str = c.OldCfgPath /\ GetLstring(b, p).end = q
  BY <1>8, <1>9
<1> QED
  BY Zenon, <1>10, <1>11, <1>12 DEF TailRead

\* CopyMessage is read back.
LEMMA CopyRead ==
  ASSUME NEW c \in CopyMessage
  PROVE  Reads(c)
<1>1. /\ c.type = "Copy" /\ c.Decrypt \in BOOLEAN /\ c.Encrypt \in BOOLEAN /\ c.Name \in Bytes
      /\ c.OldCfgPath \in Bytes /\ c.Port \in Uint /\ c.Confirm \in BOOLEAN
      /\ c = [type |-> "Copy", Decrypt |-> c.Decrypt, Encrypt |-> c.Encrypt, Name |-> c.Name,
              OldCfgPath |-> c.OldCfgPath, Port |-> c.Port, Confirm |-> c.Confirm]
  BY SMTT(30) DEF CopyMessage
<1>2. PICK x, b : /\ x = CopyTail(c)
                  /\ b = <<TypeByte["Copy"], Flag(c.Decrypt), Flag(c.Encrypt), 0>> \o x
  BY Zenon
<1>3. Body(c) = b
  <2>1. Body(c) = CopyEncode(c)
    BY Zenon, <1>1 DEF Body
  <2> QED
    BY Zenon, <1>1, <1>2, <2>1 DEF CopyEncode, Header
<1>4. /\ Opens(b, "Copy", Flag(c.Decrypt), Flag(c.Encrypt), 0)
      /\ Here(b, 4, x)
      /\ Len(b) = 4 + Len(x)
  <2>1. Flag(c.Decrypt) \in Byte /\ Flag(c.Encrypt) \in Byte /\ x \in Seq(Byte)
    BY ZenonT(60), <1>1, <1>2, FlagByte, TailParts DEF TailFields
  <2>2. 0 \in Byte /\ "Copy" \in Type
    BY SMTT(30) DEF Byte, Type, TypeByte
  <2>3. Laid2(b, "Copy", Flag(c.Decrypt), Flag(c.Encrypt), 0, x)
    BY Zenon, <1>2, <2>1, <2>2, Body2
  <2> QED
    BY Zenon, <2>3 DEF Laid2
<1>5. (At(b, 1) = 1) = c.Decrypt /\ (At(b, 2) = 1) = c.Encrypt
  <2>1. At(b, 1) = Flag(c.Decrypt) /\ At(b, 2) = Flag(c.Encrypt)
    BY Zenon, <1>4, Opening
  <2> QED
    BY <1>1, <2>1 DEF Flag
<1>6. TailRead(b, c)
  BY Zenon, <1>1, <1>2, <1>4, TailHere DEF TailFields
<1>7. DecodeAs("Copy", b) = Meaning(c)
  <2>1. DecodeAs("Copy", b) = CopyDecode(b)
    BY SMTT(60) DEF DecodeAs
  <2>2. CopyDecode(b) = c
    BY SMTT(60), <1>1, <1>5, <1>6 DEF CopyDecode, TailRead
  <2> QED
    BY Zenon, <1>1, <2>1, <2>2, Plain
<1> QED
  BY Zenon, <1>3, <1>4, <1>7, ReadsBack

\* The flags of CopyV2, which share a byte.
Bits(v, p, q, r, s) ==
  v \in Byte /\ Bit(v, 1) = p /\ Bit(v, 2) = q /\ Bit(v, 4) = r /\ Bit(v, 8) = s

\* Each flag of the byte is read back by its own bit.
LEMMA FlagBits ==
  ASSUME NEW p \in BOOLEAN, NEW q \in BOOLEAN, NEW r \in BOOLEAN, NEW s \in BOOLEAN
  PROVE  Bits(Flag(p) + 2 * Flag(q) + 4 * Flag(r) + 8 * Flag(s), p, q, r, s)
BY DEF Flag, Bit, Byte, Bits

\* CopyMessageV2 is read back, with the four flags of its first byte.
LEMMA CopyV2Read ==
  ASSUME NEW c \in CopyMessageV2
  PROVE  Reads(c)
<1>1. /\ c.type = "CopyV2" /\ c.Encrypt \in BOOLEAN /\ c.Decrypt \in BOOLEAN
      /\ c.KEKDecrypt \in BOOLEAN /\ c.ServerSideCopy \in BOOLEAN /\ c.Name \in Bytes
      /\ c.OldCfgPath \in Bytes /\ c.Port \in Uint /\ c.Confirm \in BOOLEAN
      /\ c = [type |-> "CopyV2", Encrypt |-> c.Encrypt, Decrypt |-> c.Decrypt,
              KEKDecrypt |-> c.KEKDecrypt, ServerSideCopy |-> c.ServerSideCopy, Name |-> c.Name,
              OldCfgPath |-> c.OldCfgPath, Port |-> c.Port, Confirm |-> c.Confirm]
  BY SMTT(30) DEF CopyMessageV2
<1>2. PICK v, x, b : /\ v = Flag(c.Encrypt) + 2 * Flag(c.Decrypt)
                            + 4 * Flag(c.KEKDecrypt) + 8 * Flag(c.ServerSideCopy)
                     /\ x = CopyTail(c)
                     /\ b = <<TypeByte["CopyV2"], v, 0, 0>> \o x
  BY Zenon
<1>3. Body(c) = b
  <2>1. Body(c) = CopyV2Encode(c)
    BY Zenon, <1>1 DEF Body
  <2> QED
    BY Zenon, <1>1, <1>2, <2>1 DEF CopyV2Encode, Header
<1>4. /\ Opens(b, "CopyV2", v, 0, 0)
      /\ Here(b, 4, x)
      /\ Len(b) = 4 + Len(x)
  <2>1. v \in Byte /\ x \in Seq(Byte)
    <3>1. Bits(v, c.Encrypt, c.Decrypt, c.KEKDecrypt, c.ServerSideCopy)
      BY SMTT(60), <1>1, <1>2, FlagBits
    <3> QED
      BY Zenon, <1>1, <1>2, <3>1, TailParts DEF TailFields, Bits
  <2>2. 0 \in Byte /\ "CopyV2" \in Type
    BY SMTT(30) DEF Byte, Type, TypeByte
  <2>3. Laid2(b, "CopyV2", v, 0, 0, x)
    BY Zenon, <1>2, <2>1, <2>2, Body2
  <2> QED
    BY Zenon, <2>3 DEF Laid2
<1>5. /\ Bit(At(b, 1), 1) = c.Encrypt /\ Bit(At(b, 1), 2) = c.Decrypt
      /\ Bit(At(b, 1), 4) = c.KEKDecrypt /\ Bit(At(b, 1), 8) = c.ServerSideCopy
  <2>1. At(b, 1) = v
    BY SMTT(60), <1>4, Opening
  <2>2. Bits(v, c.Encrypt, c.Decrypt, c.KEKDecrypt, c.ServerSideCopy)
    BY Zenon, <1>1, <1>2, FlagBits
  <2> QED
    BY Zenon, <2>1, <2>2 DEF Bits
<1>6. TailRead(b, c)
  BY Zenon, <1>1, <1>2, <1>4, TailHere DEF TailFields
<1>7. DecodeAs("CopyV2", b) = Meaning(c)
  <2>1. DecodeAs("CopyV2", b) = CopyV2Decode(b)
    BY SMTT(60) DEF DecodeAs
  <2>2. CopyV2Decode(b) = c
    BY Zenon, <1>1, <1>5, <1>6 DEF CopyV2Decode, TailRead
  <2> QED
    BY SMTT(60), <1>1, <2>1, <2>2, Plain
<1> QED
  BY Zenon, <1>3, <1>4, <1>7, ReadsBack

-----------------------------------------------------------------------------

\* Every message of the protocol, whatever its fields hold, is bytes behind a
\* header, and is read back by its Decode from what its Encode puts on the wire:
\* names of any length, settings and object lists of any number, every number W
\* bytes hold. Only the two obsolete-file messages are not: their Decode reads
\* another layout.
THEOREM RoundTrip ==
  \A c \in Messages : /\ Body(c) \in Seq(Byte) /\ Len(Body(c)) >= 4
                      /\ c.type \notin Unpaired => Decode(Body(c)) = Meaning(c)
<1>1. \A c \in Messages : c \in ObsoleteMessage \/ Reads(c)
  BY SMTT(60), CatRead, CatV2Read, PutRead, PutV2V3Read, PatchRead, CopyDataRead, CopyDoneRead,
     PutCompleteRead, ListRead, ListV2Read, ObjectInfoRead, CopyRead, CopyV2Read,
     CopyCompleteRead, DeleteRead, Delete2Read, UntrashifyRead, ErrorRead,
     ReadyForQueryRead, GoolRead DEF Messages
<1> QED
  BY Zenon, <1>1, ObsoleteWhole DEF Reads
============================================================================
