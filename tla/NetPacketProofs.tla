-------------------------- MODULE NetPacketProofs --------------------------
(***************************************************************************)
(* Framing for every number of connections, every assignment of            *)
(* KNetPackages to them and all packet sizes.                              *)
(***************************************************************************)
EXTENDS NetPacket, SequenceTheorems, TLAPS

\* Where the packet begins that is being assembled for s.
From(s) == Start(s, Len(delivered[s]) + 1)

\* The peer writes packets longer than their length field, one after another.
EndsInv ==
    \A s \in Streams :
      /\ \A i \in 1..Len(ends[s]) :
           i <= ends[s][i] /\ ends[s][i] - Start(s, i) \in Sizes
      /\ \A i, j \in 1..Len(ends[s]) : i < j => ends[s][i] < ends[s][j]

\* A read callback that has not returned has bytes left.
ReadingInv ==
    reading \in Streams =>
      taken[reading] < chunkEnd /\ chunkEnd <= Written(reading)

\* The packet being assembled for s, when its package holds bytes of s.
Partial(s) ==
    LET p == PacketOf[s]
        k == taken[s] - From(s)
    IN  /\ Len(delivered[s]) < Len(ends[s])
        /\ taken[s] < ends[s][Len(delivered[s]) + 1]
        /\ buf[p] = Bytes(s, From(s), taken[s])
        /\ packetLen[p] = IF k < LenSize THEN InvalidLen
                          ELSE ends[s][Len(delivered[s]) + 1] - From(s)

Assembled(s) ==
    /\ Len(delivered[s]) <= Len(ends[s])
    /\ \A i \in 1..Len(delivered[s]) : delivered[s][i] = Packet(s, i)
    /\ From(s) <= taken[s]
    /\ From(s) < taken[s] => Partial(s)

\* A package that has not mixed holds the bytes of one connection, if any.
PackageInv ==
    \A p \in Packets \ mixed :
      /\ buf[p] = <<>> => packetLen[p] = InvalidLen
      /\ buf[p] # <<>> =>
           \E s \in Streams : PacketOf[s] = p /\ From(s) < taken[s]
      /\ \A s \in Streams : PacketOf[s] = p => Assembled(s)

\* DeliveredExactly and LoopProgresses speak of complete packets; this adds
\* what the incomplete one looks like and that lengths are read correctly.
FramingInv == TypeOK /\ EndsInv /\ ReadingInv /\ PackageInv
-----------------------------------------------------------------------------
Byte == Streams \X (1..MaxBytes)

\* A chunk is a sequence of bytes of its stream.
LEMMA BytesType ==
    ASSUME NEW s, NEW a \in Nat, NEW b \in Nat, a <= b
    PROVE  /\ Bytes(s, a, b) \in Seq({s} \X Nat)
           /\ (s \in Streams /\ b <= MaxBytes) => Bytes(s, a, b) \in Seq(Byte)
<1>0. b - a \in Nat
  OBVIOUS
<1>1. Bytes(s, a, b) \in Seq({s} \X Nat)
  <2>1. \A j \in 1..(b - a) : <<s, a + j>> \in {s} \X Nat
    OBVIOUS
  <2> QED BY <1>0, <2>1 DEF Bytes
<1>2. ASSUME s \in Streams, b <= MaxBytes PROVE Bytes(s, a, b) \in Seq(Byte)
  <2>1. \A j \in 1..(b - a) : <<s, a + j>> \in Byte
    BY <1>2, SizeAssumption DEF Byte
  <2> QED BY <1>0, <2>1 DEF Bytes
<1> QED BY <1>1, <1>2

\* Length, elements and domain of a chunk.
LEMMA BytesFacts ==
    ASSUME NEW s, NEW a \in Nat, NEW b \in Nat, a <= b
    PROVE  /\ Len(Bytes(s, a, b)) = b - a
           /\ \A j \in 1..(b - a) : Bytes(s, a, b)[j] = <<s, a + j>>
<1>0. b - a \in Nat
  OBVIOUS
<1>1. \A j \in 1..(b - a) : Bytes(s, a, b)[j] = <<s, a + j>>
  BY DEF Bytes
<1>2. Len(Bytes(s, a, b)) = b - a
  BY <1>0 DEF Bytes
<1> QED BY <1>1, <1>2

\* A chunk that is not empty begins with a byte of its stream.
LEMMA BytesFirst ==
    ASSUME NEW s, NEW a \in Nat, NEW b \in Nat, a < b
    PROVE  1 \in DOMAIN Bytes(s, a, b) /\ Bytes(s, a, b)[1] = <<s, a + 1>>
<1>1. 1 \in 1..(b - a)
  OBVIOUS
<1> QED BY <1>1 DEF Bytes

\* A read that consumed nothing leaves an empty chunk.
LEMMA BytesEmpty ==
    ASSUME NEW s, NEW a \in Nat
    PROVE  Bytes(s, a, a) = <<>>
<1>1. 1..(a - a) = {}
  OBVIOUS
<1> QED BY <1>1 DEF Bytes

\* Chunks of a stream that follow one another make a longer chunk.
LEMMA BytesConcat ==
    ASSUME NEW s
    PROVE  \A a, b, c \in Nat : a <= b /\ b <= c =>
             Bytes(s, a, b) \o Bytes(s, b, c) = Bytes(s, a, c)
<1> SUFFICES ASSUME NEW a \in Nat, NEW b \in Nat, NEW c \in Nat, a <= b, b <= c
             PROVE  Bytes(s, a, b) \o Bytes(s, b, c) = Bytes(s, a, c)
  OBVIOUS
<1> DEFINE S == {s} \X Nat
           B == Bytes(s, a, b)
           C == Bytes(s, b, c)
           D == Bytes(s, a, c)
<1>1. ASSUME NEW x \in Nat, NEW y \in Nat, x <= y
      PROVE  /\ Bytes(s, x, y) \in Seq(S) /\ Len(Bytes(s, x, y)) = y - x
             /\ \A j \in 1..(y - x) : Bytes(s, x, y)[j] = <<s, x + j>>
  BY <1>1, BytesFacts, BytesType
<1>2. /\ B \in Seq(S) /\ C \in Seq(S) /\ D \in Seq(S)
      /\ Len(B) = b - a /\ Len(C) = c - b /\ Len(D) = c - a
      /\ \A j \in 1..(b - a) : B[j] = <<s, a + j>>
      /\ \A j \in 1..(c - b) : C[j] = <<s, b + j>>
      /\ \A j \in 1..(c - a) : D[j] = <<s, a + j>>
  <2>1. a <= c
    OBVIOUS
  <2> QED BY <1>1, <2>1
<1> HIDE DEF S, B, C, D
<1> DEFINE E == B \o C
<1>3. /\ E \in Seq(S)
      /\ Len(E) = Len(B) + Len(C)
      /\ \A i \in 1..(Len(B) + Len(C)) :
           E[i] = IF i <= Len(B) THEN B[i] ELSE C[i - Len(B)]
  BY <1>2, ConcatProperties
<1> HIDE DEF E
<1>4. Len(B) + Len(C) = c - a
  BY <1>2
<1>5. ASSUME NEW i \in 1..(c - a) PROVE E[i] = D[i]
  <2>0. E[i] = IF i <= Len(B) THEN B[i] ELSE C[i - Len(B)]
    BY <1>3, <1>4
  <2>1. CASE i <= b - a
    <3>1. i \in 1..(b - a) /\ E[i] = B[i]
      BY <1>2, <2>0, <2>1
    <3> QED BY <1>2, <3>1
  <2>2. CASE ~(i <= b - a)
    <3>1. E[i] = C[i - (b - a)]
      BY <1>2, <2>0, <2>2
    <3>2. i - (b - a) \in 1..(c - b) /\ b + (i - (b - a)) = a + i
      BY <2>2
    <3>3. C[i - (b - a)] = <<s, b + (i - (b - a))>>
      BY <1>2, <3>2
    <3> QED BY <1>2, <3>1, <3>2, <3>3
  <2> QED BY <2>1, <2>2
<1>6. E = D
  <2>1. Len(E) = Len(D) /\ \A i \in 1..Len(E) : E[i] = D[i]
    BY <1>2, <1>3, <1>4, <1>5
  <2> QED BY <1>2, <1>3, <2>1, SeqEqual
<1> QED BY <1>6 DEF B, C, D, E

\* Non-empty chunks are equal only if they are the same piece of one stream.
LEMMA BytesEqual ==
    ASSUME NEW s, NEW a \in Nat, NEW b \in Nat, a < b,
           NEW t, NEW c \in Nat, NEW d \in Nat, c <= d,
           Bytes(s, a, b) = Bytes(t, c, d)
    PROVE  s = t /\ a = c /\ b = d
<1>1. /\ Len(Bytes(s, a, b)) = b - a
      /\ \A j \in 1..(b - a) : Bytes(s, a, b)[j] = <<s, a + j>>
  <2>1. a <= b
    OBVIOUS
  <2> QED BY <2>1, BytesFacts
<1>2. /\ Len(Bytes(t, c, d)) = d - c
      /\ \A j \in 1..(d - c) : Bytes(t, c, d)[j] = <<t, c + j>>
  BY BytesFacts
<1>3. b - a = d - c /\ 1 \in 1..(b - a) /\ 1 \in 1..(d - c)
  BY <1>1, <1>2
<1>4. <<s, a + 1>> = <<t, c + 1>>
  BY <1>1, <1>2, <1>3
<1> QED BY <1>3, <1>4

\* Where packets begin and end.
LEMMA StartFacts ==
    ASSUME TypeOK, EndsInv, NEW s \in Streams
    PROVE  /\ Len(ends[s]) \in Nat
           /\ \A i \in 1..(Len(ends[s]) + 1) :
                Start(s, i) \in Nat /\ Start(s, i) <= MaxBytes
           /\ \A i \in 1..Len(ends[s]) :
                /\ ends[s][i] \in Nat /\ ends[s][i] <= MaxBytes
                /\ i <= ends[s][i]
                /\ Start(s, i) + LenSize < ends[s][i]
                /\ ends[s][i] = Start(s, i + 1)
           /\ \A i, j \in 1..(Len(ends[s]) + 1) :
                i < j => Start(s, i) < Start(s, j)
           /\ Start(s, Len(ends[s]) + 1) = Written(s)
<1>0. /\ ends[s] \in Seq(1..MaxBytes) /\ Len(ends[s]) \in Nat
      /\ LenSize \in Nat \ {0} /\ MaxBytes \in Nat
  BY SizeAssumption DEF TypeOK
<1>1. \A i \in 1..Len(ends[s]) : ends[s][i] \in Nat /\ ends[s][i] <= MaxBytes
                               /\ ends[s][i] >= 1
  BY <1>0
<1>2. \A i \in 1..(Len(ends[s]) + 1) :
        Start(s, i) \in Nat /\ Start(s, i) <= MaxBytes
  BY <1>0, <1>1 DEF Start
<1>3. \A i \in 1..Len(ends[s]) :
        /\ i <= ends[s][i]
        /\ Start(s, i) + LenSize < ends[s][i]
        /\ ends[s][i] = Start(s, i + 1)
  <2> TAKE i \in 1..Len(ends[s])
  <2>1. i <= ends[s][i] /\ ends[s][i] - Start(s, i) \in Sizes
    BY DEF EndsInv
  <2>2. ends[s][i] - Start(s, i) > LenSize
    BY <2>1, SizeAssumption
  <2> QED BY <1>0, <1>1, <1>2, <2>1, <2>2 DEF Start
<1>4. \A i, j \in 1..(Len(ends[s]) + 1) : i < j => Start(s, i) < Start(s, j)
  <2> SUFFICES ASSUME NEW i \in 1..(Len(ends[s]) + 1),
                      NEW j \in 1..(Len(ends[s]) + 1), i < j
               PROVE  Start(s, i) < Start(s, j)
    OBVIOUS
  <2>1. j - 1 \in 1..Len(ends[s]) /\ Start(s, j) = ends[s][j - 1]
    BY <1>0 DEF Start
  <2>2. CASE i = 1
    BY <1>1, <2>1, <2>2 DEF Start
  <2>3. CASE i # 1
    <3>1. i - 1 \in 1..Len(ends[s]) /\ Start(s, i) = ends[s][i - 1]
      BY <1>0, <2>3 DEF Start
    <3> QED BY <2>1, <3>1 DEF EndsInv
  <2> QED BY <2>2, <2>3
<1>5. Start(s, Len(ends[s]) + 1) = Written(s)
  BY <1>0 DEF Start, Written
<1> QED BY <1>0, <1>1, <1>2, <1>3, <1>4, <1>5

\* _InitPackage reads a length that is a natural number ...
LEMMA LengthReadType ==
    ASSUME TypeOK, EndsInv, NEW h
    PROVE  LengthRead(h) \subseteq Nat
<1>1. ASSUME NEW s \in Streams, NEW i \in 1..MaxBytes, i <= Len(ends[s])
      PROVE  ends[s][i] - Start(s, i) \in Nat
  BY <1>1, StartFacts, SizeAssumption
<1> QED BY <1>1, SizeAssumption DEF LengthRead

\* ... and, when the bytes begin a packet, that packet's.
LEMMA LengthReadExact ==
    ASSUME TypeOK, EndsInv, NEW s \in Streams \ Foreign, NEW i \in 1..Len(ends[s])
    PROVE  LengthRead(Bytes(s, Start(s, i), Start(s, i) + LenSize))
             = {ends[s][i] - Start(s, i)}
<1> DEFINE h == Bytes(s, Start(s, i), Start(s, i) + LenSize)
           begins == {b \in (Streams \ Foreign) \X (1..MaxBytes) :
                        /\ b[2] <= Len(ends[b[1]])
                        /\ h = Bytes(b[1], Start(b[1], b[2]),
                                     Start(b[1], b[2]) + LenSize)}
<1>0. LenSize \in Nat \ {0} /\ MaxBytes \in Nat
  BY SizeAssumption
<1>1. <<s, i>> \in begins
  <2>1. Len(ends[s]) \in Nat /\ i <= ends[s][i] /\ ends[s][i] <= MaxBytes
        /\ ends[s][i] \in Nat
    BY StartFacts
  <2>2. i \in 1..MaxBytes /\ i <= Len(ends[s])
    BY <1>0, <2>1
  <2> QED BY <2>2
<1>2. ASSUME NEW t \in Streams \ Foreign, NEW j \in 1..MaxBytes,
             <<t, j>> \in begins
      PROVE  t = s /\ j = i
  <2>1. j \in 1..Len(ends[t]) /\ Start(t, j) \in Nat /\ Start(s, i) \in Nat
    <3>1. Len(ends[t]) \in Nat /\ Len(ends[s]) \in Nat
      BY StartFacts
    <3>2. j \in 1..Len(ends[t]) /\ j \in 1..(Len(ends[t]) + 1)
      BY <1>0, <1>2, <3>1
    <3>3. i \in 1..(Len(ends[s]) + 1)
      BY <3>1
    <3> QED BY <3>2, <3>3, StartFacts
  <2>2. h = Bytes(t, Start(t, j), Start(t, j) + LenSize)
    BY <1>2
  <2>3. t = s /\ Start(t, j) = Start(s, i)
    BY <1>0, <2>1, <2>2, BytesEqual
  <2>4. \A k, l \in 1..(Len(ends[s]) + 1) :
          k < l => Start(s, k) < Start(s, l)
    BY StartFacts
  <2>5. i \in 1..(Len(ends[s]) + 1) /\ j \in 1..(Len(ends[s]) + 1)
    BY <2>1, <2>3, StartFacts
  <2>6. ~(i < j) /\ ~(j < i)
    BY <2>1, <2>3, <2>4, <2>5
  <2> QED BY <2>3, <2>5, <2>6
<1>3. begins = {<<s, i>>}
  BY <1>1, <1>2
<1>4. LengthRead(h) = {ends[b[1]][b[2]] - Start(b[1], b[2]) : b \in begins}
  BY <1>1 DEF LengthRead
<1> HIDE DEF h, begins
<1>5. LengthRead(h) = {ends[s][i] - Start(s, i)}
  BY <1>3, <1>4
<1> QED BY <1>5 DEF h
-----------------------------------------------------------------------------
\* At start-up every KNetPackage is empty and its length is invalid.
LEMMA FramingInitially == Init => FramingInv
<1> SUFFICES ASSUME Init PROVE FramingInv
  OBVIOUS
<1>0. LenSize \in Nat \ {0} /\ MaxBytes \in Nat /\ NoStream \notin Streams
      /\ PacketOf \in [Streams -> Packets]
  BY SizeAssumption, StreamAssumption
<1>1. TypeOK
  BY <1>0 DEF Init, TypeOK, InvalidLen
<1>2. EndsInv /\ ReadingInv
  BY <1>0 DEF Init, EndsInv, ReadingInv
<1>3. ASSUME NEW s \in Streams
      PROVE  Assembled(s) /\ From(s) = 0 /\ taken[s] = 0
  <2>1. /\ delivered[s] = <<>> /\ ends[s] = <<>> /\ taken[s] = 0
        /\ Len(delivered[s]) = 0 /\ Len(ends[s]) = 0
    BY DEF Init
  <2>2. From(s) = 0
    BY <2>1 DEF From, Start
  <2> QED BY <2>1, <2>2 DEF Assembled
<1>4. PackageInv
  BY <1>3 DEF Init, PackageInv
<1> QED BY <1>1, <1>2, <1>4 DEF FramingInv

\* The peer's write appends one packet's end and moves no other.
LEMMA SendAppends ==
    ASSUME FramingInv, NEW s \in Streams, NEW z \in Sizes, Send(s, z)
    PROVE  /\ z \in Nat /\ z > LenSize /\ Len(ends[s]) \in Nat
           /\ Written(s) \in Nat /\ Written(s) + z \in 1..MaxBytes
           /\ Start(s, Len(ends[s]) + 1) = Written(s)
           /\ ends'[s] \in Seq(1..MaxBytes)
           /\ Len(ends'[s]) = Len(ends[s]) + 1
           /\ ends'[s][Len(ends[s]) + 1] = Written(s) + z
           /\ \A t \in Streams \ {s} : ends'[t] = ends[t]
           /\ \A t \in Streams :
                /\ Len(ends[t]) \in Nat /\ Len(ends[t]) <= Len(ends'[t])
                /\ \A i \in 1..Len(ends[t]) : ends'[t][i] = ends[t][i]
                /\ \A i \in 1..(Len(ends[t]) + 1) : Start(t, i)' = Start(t, i)
<1>0. /\ TypeOK /\ EndsInv /\ Written(s) + z <= MaxBytes
      /\ ends' = [ends EXCEPT ![s] = Append(@, Written(s) + z)]
  BY DEF FramingInv, Send
<1>1. /\ z \in Nat /\ z > LenSize /\ LenSize \in Nat \ {0} /\ MaxBytes \in Nat
      /\ Written(s) \in Nat /\ Len(ends[s]) \in Nat
      /\ Start(s, Len(ends[s]) + 1) = Written(s)
  BY <1>0, StartFacts, SizeAssumption
<1>2. PICK n \in Nat, w \in Nat :
        n = Len(ends[s]) /\ w = Written(s) + z /\ w \in 1..MaxBytes
  BY <1>0, <1>1
<1>3. /\ ends'[s] \in Seq(1..MaxBytes) /\ Len(ends'[s]) = n + 1
      /\ \A i \in 1..n : ends'[s][i] = ends[s][i]
      /\ ends'[s][n + 1] = w
      /\ \A t \in Streams \ {s} : ends'[t] = ends[t]
  <2>1. ends[s] \in Seq(1..MaxBytes) /\ ends'[s] = Append(ends[s], w)
    BY <1>0, <1>2 DEF TypeOK
  <2>2. \A t \in Streams \ {s} : ends'[t] = ends[t]
    BY <1>0 DEF TypeOK
  <2> QED BY <1>2, <2>1, <2>2, AppendProperties
<1>4. ASSUME NEW t \in Streams
      PROVE  /\ Len(ends[t]) \in Nat /\ Len(ends[t]) <= Len(ends'[t])
             /\ \A i \in 1..Len(ends[t]) : ends'[t][i] = ends[t][i]
             /\ \A i \in 1..(Len(ends[t]) + 1) : Start(t, i)' = Start(t, i)
  <2>1. Len(ends[t]) \in Nat
    BY <1>0, StartFacts
  <2>2. /\ Len(ends[t]) <= Len(ends'[t])
        /\ \A i \in 1..Len(ends[t]) : ends'[t][i] = ends[t][i]
    BY <1>2, <1>3, <2>1
  <2>3. ASSUME NEW i \in 1..(Len(ends[t]) + 1) PROVE Start(t, i)' = Start(t, i)
    <3>1. CASE i = 1
      BY <3>1 DEF Start
    <3>2. CASE i # 1
      <4>1. i - 1 \in 1..Len(ends[t])
        BY <2>1, <3>2
      <4> QED BY <2>2, <3>2, <4>1 DEF Start
    <3> QED BY <3>1, <3>2
  <2> QED BY <2>1, <2>2, <2>3
<1> QED BY <1>1, <1>2, <1>3, <1>4

\* Nothing that was assembled or handed over depends on what is written later.
LEMMA SendPreservesFraming ==
    ASSUME FramingInv, NEW s \in Streams, NEW z \in Sizes, Send(s, z)
    PROVE  FramingInv'
<1>0. /\ TypeOK /\ EndsInv /\ ReadingInv /\ PackageInv
      /\ UNCHANGED <<taken, reading, chunkEnd, buf, packetLen, delivered, mixed>>
  BY DEF FramingInv, Send
<1>1. /\ z \in Nat /\ z > LenSize /\ LenSize \in Nat \ {0} /\ MaxBytes \in Nat
      /\ Written(s) \in Nat
  BY SendAppends, SizeAssumption
<1>2. PICK n \in Nat, w \in Nat :
        n = Len(ends[s]) /\ w = Written(s) + z /\ w \in 1..MaxBytes
  BY SendAppends
<1>3. /\ ends'[s] \in Seq(1..MaxBytes) /\ Len(ends'[s]) = n + 1
      /\ \A i \in 1..n : ends'[s][i] = ends[s][i]
      /\ ends'[s][n + 1] = w
      /\ \A t \in Streams \ {s} : ends'[t] = ends[t]
      /\ Start(s, n + 1) = Written(s)
  BY <1>2, SendAppends
<1>4. TypeOK'
  <2>1. ends' \in [Streams -> Seq(1..MaxBytes)]
    <3>1. \A t \in Streams : ends'[t] \in Seq(1..MaxBytes)
      BY <1>0, <1>3 DEF TypeOK
    <3> QED BY <1>0, <3>1 DEF Send, TypeOK
  <2> QED BY <1>0, <2>1 DEF TypeOK
<1>5. \A t \in Streams :
        /\ Len(ends[t]) \in Nat /\ Len(ends[t]) <= Len(ends'[t])
        /\ \A i \in 1..Len(ends[t]) : ends'[t][i] = ends[t][i]
        /\ \A i \in 1..(Len(ends[t]) + 1) : Start(t, i)' = Start(t, i)
  BY SendAppends
<1>6. EndsInv'
  <2> SUFFICES ASSUME NEW t \in Streams
               PROVE  /\ \A i \in 1..Len(ends'[t]) :
                           /\ i <= ends'[t][i]
                           /\ ends'[t][i] - Start(t, i)' \in Sizes
                      /\ \A i, j \in 1..Len(ends'[t]) :
                           i < j => ends'[t][i] < ends'[t][j]
    BY DEF EndsInv
  <2>1. CASE t # s
    <3>1. ends'[t] = ends[t]
      BY <1>3, <2>1
    <3>2. \A i \in 1..Len(ends[t]) : Start(t, i)' = Start(t, i)
      BY <1>5
    <3> QED BY <1>0, <3>1, <3>2 DEF EndsInv
  <2>2. CASE t = s
    <3>1. \A i \in 1..n : ends[s][i] <= Written(s) /\ ends[s][i] \in Nat
      <4> TAKE i \in 1..n
      <4>1. ends[s][i] = Start(s, i + 1) /\ ends[s][i] \in Nat
        BY <1>0, <1>2, StartFacts
      <4>2. CASE i = n
        BY <1>3, <4>1, <4>2
      <4>3. CASE i # n
        <5>1. i + 1 \in 1..(n + 1) /\ n + 1 \in 1..(n + 1) /\ i + 1 < n + 1
          BY <1>1, <4>3
        <5>2. Start(s, i + 1) < Start(s, n + 1)
          BY <1>0, <1>2, <5>1, StartFacts
        <5>3. ends[s][i] < Written(s)
          BY <1>3, <4>1, <5>2
        <5> QED BY <1>1, <4>1, <5>3
      <4> QED BY <4>2, <4>3
    <3>2. n <= Written(s)
      <4>1. n = 0 \/ n \in 1..n
        BY <1>1
      <4>2. n # 0 => n <= ends[s][n]
        BY <1>0, <1>2, <4>1 DEF EndsInv
      <4> QED BY <1>1, <3>1, <4>1, <4>2
    <3>3. w - Written(s) = z /\ n + 1 <= w
      BY <1>1, <1>2, <3>2
    <3>4. Start(s, n + 1)' = Written(s)
      <4>1. n + 1 \in 1..(n + 1)
        OBVIOUS
      <4> QED BY <1>2, <1>3, <1>5, <4>1
    <3>5. \A i \in 1..n : i <= ends'[s][i] /\ ends'[s][i] - Start(s, i)' \in Sizes
      <4> TAKE i \in 1..n
      <4>1. i \in 1..Len(ends[s]) /\ i \in 1..(Len(ends[s]) + 1)
        BY <1>2
      <4>2. i <= ends[s][i] /\ ends[s][i] - Start(s, i) \in Sizes
        BY <1>0, <4>1 DEF EndsInv
      <4>3. ends'[s][i] = ends[s][i] /\ Start(s, i)' = Start(s, i)
        BY <1>3, <1>5, <4>1
      <4> QED BY <4>2, <4>3
    <3>6. \A i \in 1..(n + 1) : i \in 1..n \/ i = n + 1
      BY <1>1
    <3>7. \A i \in 1..n : ends'[s][i] < ends'[s][n + 1]
      <4> TAKE i \in 1..n
      <4>1. PICK f \in Nat : f = ends[s][i] /\ f <= Written(s)
        BY <3>1
      <4>2. f < w
        BY <1>1, <1>2, <3>3, <4>1
      <4> QED BY <1>3, <4>1, <4>2
    <3>8. \A i, j \in 1..n : i < j => ends'[s][i] < ends'[s][j]
      BY <1>0, <1>2, <1>3 DEF EndsInv
    <3>9. \A i \in 1..(n + 1) :
            i <= ends'[s][i] /\ ends'[s][i] - Start(s, i)' \in Sizes
      BY <1>3, <3>3, <3>4, <3>5, <3>6
    <3>10. \A i, j \in 1..(n + 1) : i < j => ends'[s][i] < ends'[s][j]
      BY <1>1, <3>6, <3>7, <3>8
    <3> QED BY <1>3, <2>2, <3>9, <3>10
  <2> QED BY <2>1, <2>2
<1>7. ReadingInv'
  <2>1. \A t \in Streams :
          /\ Written(t) \in Nat /\ Written(t)' \in Nat
          /\ Written(t) <= Written(t)'
    <3> TAKE t \in Streams
    <3>1. CASE t = s
      <4>1. Written(s)' = w
        BY <1>2, <1>3 DEF Written
      <4> QED BY <1>1, <1>2, <3>1, <4>1
    <3>2. CASE t # s
      <4>1. Written(t)' = Written(t)
        BY <1>3, <3>2 DEF Written
      <4>2. Written(t) \in Nat
        BY <1>0, StartFacts
      <4> QED BY <4>1, <4>2
    <3> QED BY <3>1, <3>2
  <2> QED BY <1>0, <2>1 DEF ReadingInv, TypeOK
<1>8. ASSUME NEW t \in Streams, Assembled(t)
      PROVE  Assembled(t)' /\ From(t)' = From(t)
  <2>1. Len(delivered[t]) \in Nat /\ Len(delivered[t]) <= Len(ends[t])
    BY <1>0, <1>8 DEF TypeOK, Assembled
  <2>2. From(t)' = From(t)
    BY <1>0, <1>5, <2>1 DEF From
  <2>3. \A i \in 1..Len(delivered[t]) : Packet(t, i)' = Packet(t, i)
    BY <1>5, <2>1 DEF Packet, Bytes
  <2>4. Partial(t) => Partial(t)'
    <3> SUFFICES ASSUME Partial(t) PROVE Partial(t)'
      OBVIOUS
    <3>1. /\ Len(delivered[t]) < Len(ends[t])
          /\ taken[t] < ends[t][Len(delivered[t]) + 1]
          /\ buf[PacketOf[t]] = Bytes(t, From(t), taken[t])
          /\ packetLen[PacketOf[t]] =
               IF taken[t] - From(t) < LenSize THEN InvalidLen
               ELSE ends[t][Len(delivered[t]) + 1] - From(t)
      BY DEF Partial
    <3>2. /\ Len(ends[t]) \in Nat /\ Len(ends'[t]) \in Nat
          /\ Len(ends[t]) <= Len(ends'[t])
      BY <1>4, <1>5 DEF TypeOK
    <3>3. Len(delivered[t]) < Len(ends'[t])
      BY <2>1, <3>1, <3>2
    <3>4. ends'[t][Len(delivered[t]) + 1] = ends[t][Len(delivered[t]) + 1]
      BY <1>5, <2>1, <3>1, <3>2
    <3>5. Bytes(t, From(t), taken[t])' = Bytes(t, From(t), taken[t])
      BY <1>0, <2>2 DEF Bytes
    <3> QED BY <1>0, <2>2, <3>1, <3>3, <3>4, <3>5 DEF Partial, InvalidLen
  <2>5. /\ Len(ends[t]) \in Nat /\ Len(ends'[t]) \in Nat
        /\ Len(ends[t]) <= Len(ends'[t])
    BY <1>4, <1>5 DEF TypeOK
  <2> QED BY <1>0, <1>8, <2>1, <2>2, <2>3, <2>4, <2>5 DEF Assembled
<1>9. PackageInv'
  BY <1>0, <1>8 DEF PackageInv, InvalidLen
<1> QED BY <1>4, <1>6, <1>7, <1>9 DEF FramingInv

\* Only the variables that hold packets matter to what packages hold.
LEMMA PackagesStable ==
    ASSUME EndsInv, PackageInv,
           UNCHANGED <<ends, taken, buf, packetLen, delivered, mixed>>
    PROVE  EndsInv' /\ PackageInv'
<1>1. EndsInv'
  BY DEF EndsInv, Start
<1>2. \A s : From(s)' = From(s)
  BY DEF From, Start
<1>3. \A s, i : Packet(s, i)' = Packet(s, i)
  BY DEF Packet, Start, Bytes
<1>4. ASSUME NEW s, Partial(s) PROVE Partial(s)'
  BY <1>2, <1>4 DEF Partial, Bytes, InvalidLen
<1>5. ASSUME NEW s, Assembled(s) PROVE Assembled(s)'
  BY <1>2, <1>3, <1>4, <1>5 DEF Assembled
<1>6. PackageInv'
  BY <1>2, <1>5 DEF PackageInv, InvalidLen
<1> QED BY <1>1, <1>6

\* A read callback only records where its chunk ends; nothing is assembled yet.
LEMMA ReadPreservesFraming ==
    ASSUME FramingInv, NEW s \in Streams, NEW nread \in 1..MaxBytes,
           ReadCallback(s, nread)
    PROVE  FramingInv'
<1>0. /\ TypeOK /\ EndsInv /\ PackageInv
      /\ reading' = s /\ chunkEnd' = taken[s] + nread
      /\ taken[s] + nread <= Written(s)
      /\ UNCHANGED <<ends, taken, buf, packetLen, delivered, mixed>>
  BY DEF FramingInv, ReadCallback
<1>1. /\ taken[s] \in Nat /\ nread \in Nat /\ nread >= 1
      /\ Written(s) \in Nat /\ Written(s) <= MaxBytes /\ MaxBytes \in Nat
  <2>1. Len(ends[s]) + 1 \in 1..(Len(ends[s]) + 1)
    BY <1>0, StartFacts
  <2>2. Written(s) \in Nat /\ Written(s) <= MaxBytes
    BY <1>0, <2>1, StartFacts
  <2> QED BY <1>0, <2>2, SizeAssumption DEF TypeOK
<1>2. TypeOK'
  <2>1. PICK y \in Nat : y = taken[s] + nread /\ y \in 0..MaxBytes
    BY <1>0, <1>1
  <2> QED BY <1>0, <2>1 DEF TypeOK
<1>3. EndsInv' /\ PackageInv'
  BY <1>0, PackagesStable
<1>4. ReadingInv'
  BY <1>0, <1>1 DEF ReadingInv, Written
<1> QED BY <1>2, <1>3, <1>4 DEF FramingInv

\* KNetPackage::Write never takes more than it is offered.
LEMMA WriteTakes ==
    ASSUME TypeOK, EndsInv, NEW s \in Streams, NEW p \in Packets,
           NEW n \in Nat, NEW len \in LengthAfter(p, s, n)
    PROVE  /\ len \in Nat /\ Len(buf[p]) \in Nat
           /\ HeaderPart(p, n) \in 0..n
           /\ HeaderPart(p, n) + BodyPart(p, n, len) \in 0..n
<1>0. LenSize \in Nat \ {0} /\ Len(buf[p]) \in Nat /\ packetLen[p] \in Nat
  BY SizeAssumption DEF TypeOK
<1>1. len \in Nat
  BY <1>0, LengthReadType DEF LengthAfter
<1>2. HeaderPart(p, n) \in 0..n
  BY <1>0 DEF HeaderPart, Least
<1>3. BodyPart(p, n, len) \in 0..(n - HeaderPart(p, n))
  BY <1>0, <1>1, <1>2 DEF BodyPart, Least
<1> QED BY <1>0, <1>1, <1>2, <1>3

\* The connection whose bytes a package holds, and what the package knows.
LEMMA Owner ==
    ASSUME FramingInv, NEW s \in Streams, PacketOf[s] \notin mixed,
           \A j \in DOMAIN buf[PacketOf[s]] : buf[PacketOf[s]][j][1] = s
    PROVE  /\ Assembled(s)
           /\ From(s) \in Nat /\ taken[s] \in Nat /\ From(s) <= taken[s]
           /\ buf[PacketOf[s]] = Bytes(s, From(s), taken[s])
           /\ Len(buf[PacketOf[s]]) = taken[s] - From(s)
           /\ From(s) = taken[s] => packetLen[PacketOf[s]] = InvalidLen
           /\ \A t \in Streams \ {s} :
                PacketOf[t] = PacketOf[s] => From(t) = taken[t]
<1> DEFINE p == PacketOf[s]
<1>0. TypeOK /\ EndsInv /\ PackageInv /\ p \in Packets
  BY StreamAssumption DEF FramingInv
<1>1. ASSUME NEW t \in Streams, PacketOf[t] = p
      PROVE  /\ Assembled(t) /\ From(t) <= taken[t]
             /\ From(t) \in Nat /\ taken[t] \in Nat
             /\ From(t) < taken[t] => t = s
  <2>1. Assembled(t) /\ From(t) <= taken[t]
    BY <1>0, <1>1 DEF PackageInv, Assembled
  <2>2. Len(delivered[t]) + 1 \in 1..(Len(ends[t]) + 1)
    BY <1>0, <2>1 DEF Assembled, TypeOK
  <2>3. From(t) \in Nat /\ taken[t] \in Nat
    <3>1. From(t) \in Nat
      BY <1>0, <2>2, StartFacts DEF From
    <3>2. taken[t] \in Nat
      BY <1>0 DEF TypeOK
    <3> QED BY <3>1, <3>2
  <2>4. ASSUME From(t) < taken[t] PROVE t = s
    <3>0. PICK f \in Nat, g \in Nat : f = From(t) /\ g = taken[t]
      BY <2>3
    <3>1. buf[p] = Bytes(t, f, g)
      BY <1>1, <2>1, <2>4, <3>0 DEF Assembled, Partial
    <3>2. f < g
      BY <2>4, <3>0
    <3>3. 1 \in DOMAIN Bytes(t, f, g) /\ Bytes(t, f, g)[1] = <<t, f + 1>>
      BY <3>2, BytesFirst
    <3> QED BY <3>1, <3>3
  <2> QED BY <2>1, <2>3, <2>4
<1>2. /\ Assembled(s) /\ From(s) <= taken[s]
      /\ From(s) \in Nat /\ taken[s] \in Nat
  BY <1>1
<1>3. \A t \in Streams \ {s} : PacketOf[t] = p => From(t) = taken[t]
  BY <1>1
<1>4. PICK a \in Nat, x \in Nat : a = From(s) /\ x = taken[s] /\ a <= x
  BY <1>2
<1>5. /\ buf[p] = Bytes(s, a, x)
      /\ a = x => packetLen[p] = InvalidLen
  <2>1. CASE a < x
    BY <1>2, <1>4, <2>1 DEF Assembled, Partial
  <2>2. CASE a = x
    <3>0. \A t \in Streams : PacketOf[t] = p => ~(From(t) < taken[t])
      <4> SUFFICES ASSUME NEW t \in Streams, PacketOf[t] = p,
                          From(t) < taken[t]
                   PROVE  FALSE
        OBVIOUS
      <4>1. t = s
        BY <1>1
      <4>2. a < x
        BY <1>4, <4>1
      <4> QED BY <2>2, <4>2
    <3>1. buf[p] = <<>>
      BY <1>0, <3>0 DEF PackageInv
    <3>2. packetLen[p] = InvalidLen
      BY <1>0, <3>1 DEF PackageInv
    <3> QED BY <2>2, <3>1, <3>2, BytesEmpty
  <2> QED BY <1>4, <2>1, <2>2
<1>6. Len(buf[p]) = x - a
  <2>1. a <= x
    BY <1>4
  <2>2. Len(Bytes(s, a, x)) = x - a
    BY <2>1, BytesFacts
  <2> QED BY <1>5, <2>2
<1> QED BY <1>2, <1>3, <1>4, <1>5, <1>6

\* A pass of s that is offered n bytes, reads the length len and takes k bytes.
IsPass(s, n, len, k, a, d, x) ==
    /\ n = chunkEnd - taken[s] /\ a = From(s)
    /\ d = Len(delivered[s]) /\ x = taken[s]
    /\ len \in LengthAfter(PacketOf[s], s, n)
    /\ k = HeaderPart(PacketOf[s], n) + BodyPart(PacketOf[s], n, len)

\* It takes some bytes, never goes past the packet's end, and knows the packet's
\* length as soon as the length field is complete.
Advances(s, n, len, k, a, d, x) ==
    /\ Len(ends[s]) \in Nat /\ d < Len(ends[s])
    /\ a <= x /\ k \in 1..n
    /\ ends[s][d + 1] \in Nat
    /\ x < ends[s][d + 1] /\ x + k <= ends[s][d + 1]
    /\ len = IF x + k - a < LenSize THEN InvalidLen ELSE ends[s][d + 1] - a
    /\ Len(buf[PacketOf[s]]) < packetLen[PacketOf[s]]

\* What one pass of the loop does to a package that holds bytes of s alone:
\* Write takes at least one byte, none beyond the packet, and learns the length.
LEMMA PassOfOneStream ==
    ASSUME FramingInv, NEW s \in Streams, reading = s, s \notin Foreign,
           PacketOf[s] \notin mixed,
           \A j \in DOMAIN buf[PacketOf[s]] : buf[PacketOf[s]][j][1] = s
    PROVE  \A n, len, k, a, d, x \in Nat :
             IsPass(s, n, len, k, a, d, x) => Advances(s, n, len, k, a, d, x)
<1> DEFINE p == PacketOf[s]
<1>1. SUFFICES ASSUME
        NEW n \in Nat, NEW len \in Nat, NEW k \in Nat,
        NEW a \in Nat, NEW d \in Nat, NEW x \in Nat,
        /\ n = chunkEnd - taken[s] /\ a = From(s)
        /\ d = Len(delivered[s]) /\ x = taken[s]
        /\ len \in LengthAfter(p, s, n)
        /\ k = HeaderPart(p, n) + BodyPart(p, n, len)
      PROVE Advances(s, n, len, k, a, d, x)
  BY DEF IsPass
<1>2. /\ TypeOK /\ EndsInv /\ ReadingInv /\ PackageInv /\ p \in Packets
      /\ LenSize \in Nat \ {0} /\ MaxBytes \in Nat
  BY StreamAssumption, SizeAssumption DEF FramingInv
<1>3. PICK b \in Nat, hp \in Nat :
        b = Len(buf[p]) /\ hp = HeaderPart(p, n) /\ hp <= n
  BY <1>1, <1>2, WriteTakes
<1>4. PICK L \in Nat, M \in Nat : L = LenSize /\ L >= 1 /\ M = InvalidLen
  BY <1>2 DEF InvalidLen
<1>5. Assembled(s) /\ (a = x => packetLen[p] = InvalidLen)
  BY <1>1, Owner
<1>6. a <= x /\ b = x - a
  BY <1>1, <1>3, Owner
<1>7. buf[p] = Bytes(s, a, x)
  BY <1>1, Owner
<1>8. x < chunkEnd /\ chunkEnd <= Written(s) /\ n >= 1
  BY <1>1, <1>2 DEF ReadingInv, TypeOK
<1>9. Len(ends[s]) \in Nat /\ d < Len(ends[s])
  <2>1. d <= Len(ends[s])
    BY <1>1, <1>2, <1>5 DEF Assembled, TypeOK
  <2>2. Len(ends[s]) \in Nat /\ Start(s, Len(ends[s]) + 1) = Written(s)
    BY <1>2, StartFacts
  <2>3. CASE d = Len(ends[s])
    <3>1. a = Written(s)
      BY <1>1, <2>2, <2>3 DEF From
    <3>2. chunkEnd \in Nat
      BY <1>2 DEF TypeOK
    <3> QED BY <1>6, <1>8, <3>1, <3>2
  <2> QED BY <2>1, <2>2, <2>3
<1>10. d + 1 \in 1..Len(ends[s]) /\ a = Start(s, d + 1)
  BY <1>1, <1>2, <1>9 DEF From
<1>11. PICK e \in Nat : e = ends[s][d + 1] /\ e <= MaxBytes /\ a + L < e
  BY <1>2, <1>4, <1>10, StartFacts
<1>12. x < e /\ packetLen[p] = IF b < L THEN M ELSE e - a
  <2>1. CASE a < x
    BY <1>1, <1>4, <1>5, <1>6, <1>11, <2>1 DEF Assembled, Partial
  <2>2. CASE a = x
    BY <1>4, <1>5, <1>6, <1>11, <2>2
  <2> QED BY <1>6, <2>1, <2>2
<1>13. b < packetLen[p]
  BY <1>2, <1>4, <1>6, <1>11, <1>12 DEF InvalidLen
<1>14. /\ buf[p] \o Bytes(s, x, x + hp) = Bytes(s, a, x + hp)
       /\ Len(Bytes(s, a, x + hp)) = b + hp
  <2>1. PICK y \in Nat : y = x + hp
    OBVIOUS
  <2>2. a <= x /\ a <= y /\ x <= y /\ y - a = b + hp
    BY <1>6, <2>1
  <2>3. Len(Bytes(s, a, y)) = y - a
    BY <2>2, BytesFacts
  <2>4. Bytes(s, a, x) \o Bytes(s, x, y) = Bytes(s, a, y)
    <3>1. \A u, v, w \in Nat : u <= v /\ v <= w =>
            Bytes(s, u, v) \o Bytes(s, v, w) = Bytes(s, u, w)
      BY BytesConcat
    <3>2. \A v, w \in Nat : a <= v /\ v <= w =>
            Bytes(s, a, v) \o Bytes(s, v, w) = Bytes(s, a, w)
      BY <3>1
    <3>3. \A w \in Nat : x <= w =>
            Bytes(s, a, x) \o Bytes(s, x, w) = Bytes(s, a, w)
      BY <2>2, <3>2
    <3> QED BY <2>2, <3>3
  <2> QED BY <1>7, <2>1, <2>2, <2>3, <2>4
<1>15. len = IF b < L /\ b + hp # L THEN M ELSE e - a
  <2>1. len \in IF b < L /\ b + hp = L
                THEN LengthRead(Bytes(s, a, x + hp)) ELSE {packetLen[p]}
    BY <1>1, <1>3, <1>4, <1>14 DEF LengthAfter
  <2>2. CASE b < L /\ b + hp = L
    <3>1. x + hp = a + L
      BY <1>6, <2>2
    <3>2. LengthRead(Bytes(s, a, a + L)) = {e - a}
      BY <1>2, <1>4, <1>10, <1>11, LengthReadExact
    <3> QED BY <2>1, <2>2, <3>1, <3>2
  <2>3. CASE ~(b < L /\ b + hp = L)
    BY <1>12, <2>1, <2>3
  <2> QED BY <2>2, <2>3
<1>16. k = hp + (IF hp < n /\ b + hp < len
                 THEN Least(n - hp, len - (b + hp)) ELSE 0)
  BY <1>1, <1>3 DEF BodyPart
<1>17. hp = IF b < L THEN Least(n, L - b) ELSE 0
  BY <1>3, <1>4 DEF HeaderPart
<1>18. /\ k \in 1..n /\ x + k <= e
       /\ len = IF x + k - a < L THEN M ELSE e - a
  <2>0. L >= 1 /\ n >= 1 /\ a <= x /\ b = x - a /\ x < e /\ a + L < e
    BY <1>4, <1>6, <1>8, <1>11, <1>12
  <2>1. CASE b < L /\ n < L - b
    <3>1. hp = n /\ len = M
      BY <1>15, <1>17, <2>1 DEF Least
    <3>2. k = n
      BY <1>16, <3>1
    <3> QED BY <2>0, <2>1, <3>1, <3>2
  <2>2. CASE b < L /\ ~(n < L - b)
    <3>1. hp = L - b /\ hp <= n
      BY <1>17, <2>2 DEF Least
    <3>2. b + hp = L
      BY <3>1
    <3>3. len = e - a
      BY <1>15, <3>2
    <3>4. b + hp < len /\ len - (b + hp) = e - a - L
      BY <2>0, <3>2, <3>3
    <3>5. k = hp + (IF hp < n THEN Least(n - hp, e - a - L) ELSE 0)
      BY <1>16, <3>4
    <3>6. k >= hp /\ k <= n /\ k <= hp + (e - a - L)
      BY <2>0, <3>1, <3>5 DEF Least
    <3> QED BY <2>0, <2>2, <3>1, <3>3, <3>6
  <2>3. CASE ~(b < L)
    <3>1. hp = 0 /\ len = e - a
      BY <1>15, <1>17, <2>3
    <3>2. b + hp < len /\ hp < n /\ n - hp = n /\ len - (b + hp) = e - a - b
      BY <2>0, <3>1
    <3>3. k = hp + Least(n - hp, len - (b + hp))
      BY <1>16, <3>2
    <3>4. k <= n /\ k <= e - a - b /\ k >= 1
      BY <2>0, <3>1, <3>2, <3>3 DEF Least
    <3> QED BY <2>0, <2>3, <3>1, <3>4
  <2> QED BY <2>1, <2>2, <2>3
<1> QED BY <1>3, <1>4, <1>6, <1>9, <1>11, <1>12, <1>13, <1>18 DEF Advances

\* One pass of the loop: Write, and GetData and Reset when the packet is valid.
LEMMA LoopPassPreservesFraming ==
    ASSUME FramingInv, NEW s \in Streams, LoopPass(s)
    PROVE  FramingInv'
<1> DEFINE p == PacketOf[s]
<1>0. /\ TypeOK /\ EndsInv /\ ReadingInv /\ PackageInv /\ p \in Packets
      /\ LenSize \in Nat \ {0} /\ MaxBytes \in Nat /\ NoStream \notin Streams
      /\ reading = s /\ UNCHANGED <<ends, chunkEnd>>
  BY StreamAssumption, SizeAssumption DEF FramingInv, LoopPass
<1>1. PICK x \in Nat, n \in Nat :
        x = taken[s] /\ n = chunkEnd - taken[s] /\ x + n = chunkEnd
        /\ chunkEnd <= MaxBytes
  BY <1>0 DEF TypeOK, ReadingInv
<1>2. PICK len \in LengthAfter(p, s, n) :
        LET uWrite == HeaderPart(p, n) + BodyPart(p, n, len)
            all    == buf[p] \o Bytes(s, taken[s], taken[s] + uWrite)
            valid  == Len(all) = len
        IN  /\ taken' = [taken EXCEPT ![s] = @ + uWrite]
            /\ reading' = IF uWrite = n THEN NoStream ELSE s
            /\ buf' = [buf EXCEPT ![p] = IF valid THEN <<>> ELSE all]
            /\ packetLen' =
                 [packetLen EXCEPT ![p] = IF valid THEN InvalidLen ELSE len]
            /\ delivered' = IF valid
                            THEN [delivered EXCEPT ![s] = Append(@, all)]
                            ELSE delivered
            /\ mixed' = IF s \in Foreign \/ \E j \in DOMAIN buf[p] : buf[p][j][1] # s
                        THEN mixed \cup {p} ELSE mixed
  BY <1>1 DEF LoopPass
<1>3. len \in Nat /\ HeaderPart(p, n) + BodyPart(p, n, len) \in 0..n
  BY <1>0, WriteTakes
<1>4. PICK k \in Nat :
        k = HeaderPart(p, n) + BodyPart(p, n, len) /\ k <= n /\ x + k \in Nat
        /\ x <= x + k
  BY <1>3
<1>5. PICK all : all = buf[p] \o Bytes(s, x, x + k)
  OBVIOUS
<1>6. PICK valid \in BOOLEAN : valid <=> Len(all) = len
  OBVIOUS
<1>7. /\ taken' = [taken EXCEPT ![s] = x + k]
      /\ reading' = IF k = n THEN NoStream ELSE s
      /\ buf' = [buf EXCEPT ![p] = IF valid THEN <<>> ELSE all]
      /\ packetLen' = [packetLen EXCEPT ![p] = IF valid THEN InvalidLen ELSE len]
      /\ delivered' = IF valid THEN [delivered EXCEPT ![s] = Append(@, all)]
                      ELSE delivered
      /\ mixed' = IF s \in Foreign \/ \E j \in DOMAIN buf[p] : buf[p][j][1] # s
                  THEN mixed \cup {p} ELSE mixed
  BY <1>1, <1>2, <1>4, <1>5, <1>6
<1>8. all \in Seq(Byte)
  <2>1. PICK y \in Nat : y = x + k /\ x <= y /\ y <= MaxBytes
    BY <1>0, <1>1, <1>4
  <2>2. Bytes(s, x, y) \in Seq(Byte)
    BY <2>1, BytesType
  <2>3. buf[p] \in Seq(Byte)
    BY <1>0 DEF TypeOK, Byte
  <2> QED BY <1>5, <2>1, <2>2, <2>3
<1>9. TypeOK'
  <2>1. taken' \in [Streams -> 0..MaxBytes]
    <3>1. PICK y \in Nat : y = x + k /\ y \in 0..MaxBytes
      BY <1>0, <1>1, <1>4
    <3> QED BY <1>0, <1>7, <3>1 DEF TypeOK
  <2>2. buf' \in [Packets -> Seq(Byte)]
    BY <1>0, <1>7, <1>8 DEF TypeOK, Byte
  <2>3. packetLen' \in [Packets -> Nat]
    BY <1>0, <1>3, <1>7 DEF TypeOK, InvalidLen
  <2>4. delivered' \in [Streams -> Seq(Seq(Byte))]
    <3>1. delivered \in [Streams -> Seq(Seq(Byte))]
      BY <1>0 DEF TypeOK, Byte
    <3>2. Append(delivered[s], all) \in Seq(Seq(Byte))
      BY <1>8, <3>1
    <3> QED BY <1>7, <3>1, <3>2
  <2>5. reading' \in Streams \cup {NoStream} /\ mixed' \subseteq Packets
    BY <1>0, <1>7 DEF TypeOK
  <2> QED BY <1>0, <2>1, <2>2, <2>3, <2>4, <2>5 DEF TypeOK, Byte
<1>10. EndsInv'
  BY <1>0 DEF EndsInv, Start
<1>11. ReadingInv'
  <2>1. Written(s)' = Written(s) /\ taken'[s] = x + k
    BY <1>0, <1>7 DEF Written, TypeOK
  <2>2. chunkEnd <= Written(s)
    BY <1>0 DEF ReadingInv
  <2>3. reading' \in Streams => reading' = s /\ k # n
    BY <1>0, <1>7
  <2> QED BY <1>0, <1>1, <1>4, <2>1, <2>2, <2>3 DEF ReadingInv
<1>12. ASSUME NEW q \in Packets \ mixed'
       PROVE  /\ buf'[q] = <<>> => packetLen'[q] = InvalidLen
              /\ buf'[q] # <<>> => \E t \in Streams :
                                   PacketOf[t] = q /\ From(t)' < taken'[t]
              /\ \A t \in Streams : PacketOf[t] = q => Assembled(t)'
  <2>0. q \in Packets \ mixed
    BY <1>7
  <2>1. ASSUME NEW t \in Streams, t # s
        PROVE  /\ taken'[t] = taken[t] /\ delivered'[t] = delivered[t]
               /\ From(t)' = From(t)
               /\ \A i : Packet(t, i)' = Packet(t, i)
    <3>1. taken'[t] = taken[t] /\ delivered'[t] = delivered[t]
      BY <1>0, <1>7, <2>1 DEF TypeOK
    <3>2. From(t)' = From(t)
      BY <1>0, <3>1 DEF From, Start
    <3> QED BY <1>0, <3>1, <3>2 DEF Packet, Start, Bytes
  <2>2. CASE q # p
    <3>1. buf'[q] = buf[q] /\ packetLen'[q] = packetLen[q]
      BY <1>0, <1>7, <2>2 DEF TypeOK
    <3>2. \A t \in Streams : PacketOf[t] = q => t # s
      BY <2>2
    <3>3. ASSUME NEW t \in Streams, PacketOf[t] = q PROVE Assembled(t)'
      <4>1. Assembled(t) /\ t # s
        BY <2>0, <3>2, <3>3, <1>0 DEF PackageInv
      <4>2. Partial(t) => Partial(t)'
        BY <1>0, <2>1, <3>1, <3>3, <4>1 DEF Partial, Bytes, InvalidLen
      <4> QED BY <1>0, <2>1, <4>1, <4>2 DEF Assembled
    <3>4. buf[q] = <<>> => packetLen[q] = InvalidLen
      BY <1>0, <2>0 DEF PackageInv
    <3>5. buf[q] # <<>> =>
            \E t \in Streams : PacketOf[t] = q /\ From(t) < taken[t]
      BY <1>0, <2>0 DEF PackageInv
    <3> QED BY <2>1, <3>1, <3>2, <3>3, <3>4, <3>5 DEF InvalidLen
  <2>3. CASE q = p
    <3>0. /\ s \notin Foreign /\ p \notin mixed
          /\ \A j \in DOMAIN buf[p] : buf[p][j][1] = s
      BY <1>7, <2>0, <2>3
    <3>1. PICK a \in Nat, d \in Nat : a = From(s) /\ d = Len(delivered[s])
      <4>1. From(s) \in Nat
        BY <1>0, <3>0, Owner
      <4>2. Len(delivered[s]) \in Nat
        BY <1>0 DEF TypeOK
      <4> QED BY <4>1, <4>2
    <3>2. /\ Len(ends[s]) \in Nat /\ d < Len(ends[s])
          /\ a <= x /\ k \in 1..n
          /\ ends[s][d + 1] \in Nat
          /\ x + k <= ends[s][d + 1]
          /\ len = IF x + k - a < LenSize THEN InvalidLen
                   ELSE ends[s][d + 1] - a
      <4>1. len \in Nat /\ IsPass(s, n, len, k, a, d, x)
        BY <1>1, <1>3, <1>4, <3>1 DEF IsPass
      <4>2. Advances(s, n, len, k, a, d, x)
        BY <1>0, <3>0, <4>1, PassOfOneStream
      <4> QED BY <4>2 DEF Advances
    <3>3. PICK e \in Nat, y \in Nat : e = ends[s][d + 1] /\ y = x + k
      BY <1>4, <3>2
    <3>4. /\ d + 1 \in 1..Len(ends[s]) /\ a = Start(s, d + 1)
          /\ e <= MaxBytes /\ a + LenSize < e /\ e = Start(s, d + 2)
      <4>1. d + 1 \in 1..Len(ends[s])
        BY <3>2
      <4>2. a = Start(s, d + 1)
        BY <3>1 DEF From
      <4>3. /\ ends[s][d + 1] <= MaxBytes
            /\ Start(s, d + 1) + LenSize < ends[s][d + 1]
            /\ ends[s][d + 1] = Start(s, (d + 1) + 1)
        BY <1>0, <4>1, StartFacts
      <4>4. (d + 1) + 1 = d + 2
        OBVIOUS
      <4> QED BY <3>3, <4>1, <4>2, <4>3, <4>4
    <3>5. a < y /\ x <= y /\ y <= e
      BY <3>2, <3>3
    <3>6. all = Bytes(s, a, y) /\ Len(all) = y - a
      <4>1. buf[p] = Bytes(s, a, x)
        BY <1>0, <1>1, <3>0, <3>1, Owner
      <4>2. \A u, v, w \in Nat : u <= v /\ v <= w =>
              Bytes(s, u, v) \o Bytes(s, v, w) = Bytes(s, u, w)
        BY BytesConcat
      <4>3. \A v, w \in Nat : a <= v /\ v <= w =>
              Bytes(s, a, v) \o Bytes(s, v, w) = Bytes(s, a, w)
        BY <4>2
      <4>4. Bytes(s, a, x) \o Bytes(s, x, y) = Bytes(s, a, y)
        BY <3>2, <3>5, <4>3
      <4>5. a <= y
        BY <3>5
      <4>6. Len(Bytes(s, a, y)) = y - a
        BY <4>5, BytesFacts
      <4> QED BY <1>5, <3>3, <4>1, <4>4, <4>6
    <3>7. ASSUME NEW t \in Streams, PacketOf[t] = p, t # s
          PROVE  Assembled(t)' /\ From(t)' = taken'[t]
      <4>1. Assembled(t)
        BY <1>0, <2>0, <2>3, <3>7 DEF PackageInv
      <4>2. From(t) = taken[t]
        BY <1>0, <3>0, <3>7, Owner
      <4>3. From(t)' = taken'[t]
        BY <2>1, <3>7, <4>2
      <4>4. taken'[t] \in Nat
        BY <1>9 DEF TypeOK
      <4> QED BY <1>0, <2>1, <3>7, <4>1, <4>3, <4>4 DEF Assembled
    <3>8. Assembled(s)
      BY <1>0, <2>0, <2>3 DEF PackageInv
    <3>9. /\ taken'[s] = y
          /\ buf'[p] = IF valid THEN <<>> ELSE all
          /\ packetLen'[p] = IF valid THEN InvalidLen ELSE len
      BY <1>0, <1>7, <3>3 DEF TypeOK
    <3>10. CASE valid
      <4>1. y = e
        <5>1. len = y - a
          BY <1>6, <3>6, <3>10
        <5>2. CASE x + k - a < LenSize
          <6>1. y - a = MaxBytes + 1
            BY <3>2, <5>1, <5>2 DEF InvalidLen
          <6> QED BY <1>0, <3>4, <3>5, <6>1
        <5>3. CASE ~(x + k - a < LenSize)
          <6>1. y - a = e - a
            BY <3>2, <3>3, <5>1, <5>3
          <6> QED BY <6>1
        <5> QED BY <5>2, <5>3
      <4>2. /\ Len(delivered'[s]) = d + 1
            /\ \A i \in 1..d : delivered'[s][i] = delivered[s][i]
            /\ delivered'[s][d + 1] = all
        <5>1. delivered[s] \in Seq(Seq(Byte))
          BY <1>0 DEF TypeOK, Byte
        <5>2. delivered'[s] = Append(delivered[s], all)
          BY <1>0, <1>7, <3>10 DEF TypeOK
        <5> QED BY <1>8, <3>1, <5>1, <5>2, AppendProperties
      <4>3. From(s)' = e
        <5>1. From(s)' = Start(s, (d + 1) + 1)'
          BY <4>2 DEF From
        <5>2. (d + 1) + 1 = d + 2
          OBVIOUS
        <5>3. Start(s, d + 2)' = Start(s, d + 2)
          BY <1>0 DEF Start
        <5> QED BY <3>4, <5>1, <5>2, <5>3
      <4>4. \A i : Packet(s, i)' = Packet(s, i)
        BY <1>0 DEF Packet, Start, Bytes
      <4>5. Packet(s, d + 1) = all
        BY <3>3, <3>4, <3>6, <4>1 DEF Packet
      <4>6. \A i \in 1..(d + 1) : delivered'[s][i] = Packet(s, i)'
        <5>1. \A i \in 1..d : delivered[s][i] = Packet(s, i)
          BY <3>1, <3>8 DEF Assembled
        <5>2. \A i \in 1..(d + 1) : i \in 1..d \/ i = d + 1
          OBVIOUS
        <5> QED BY <4>2, <4>4, <4>5, <5>1, <5>2
      <4>7. Assembled(s)'
        BY <1>0, <3>2, <3>9, <4>1, <4>2, <4>3, <4>6 DEF Assembled
      <4> QED BY <2>3, <3>7, <3>9, <3>10, <4>7 DEF InvalidLen
    <3>11. CASE ~valid
      <4>1. y < e
        <5>1. CASE y = e
          <6>1. ~(x + k - a < LenSize)
            BY <1>0, <3>3, <3>4, <5>1
          <6>2. len = e - a
            BY <3>2, <3>3, <6>1
          <6> QED BY <1>6, <3>6, <3>11, <5>1, <6>2
        <5> QED BY <3>5, <5>1
      <4>2. delivered' = delivered /\ From(s)' = a
        <5>1. delivered' = delivered
          BY <1>7, <3>11
        <5> QED BY <1>0, <3>1, <5>1 DEF From, Start
      <4>3. Partial(s)'
        <5>1. buf'[p] = Bytes(s, a, y) /\ packetLen'[p] = len
          BY <3>6, <3>9, <3>11
        <5>2. y - a = x + k - a
          BY <3>3
        <5> QED BY <1>0, <3>1, <3>2, <3>3, <3>9, <4>1, <4>2, <5>1, <5>2
                DEF Partial, Bytes, InvalidLen
      <4>4. \A i : Packet(s, i)' = Packet(s, i)
        BY <1>0 DEF Packet, Start, Bytes
      <4>5. Assembled(s)'
        BY <1>0, <3>5, <3>8, <3>9, <4>2, <4>3, <4>4 DEF Assembled
      <4>6. From(s)' < taken'[s]
        BY <3>5, <3>9, <4>2
      <4>7. buf'[p] # <<>>
        <5>1. Len(all) # 0
          BY <3>5, <3>6
        <5> QED BY <3>9, <3>11, <5>1
      <4> QED BY <2>3, <3>7, <4>5, <4>6, <4>7
    <3> QED BY <3>10, <3>11
  <2> QED BY <2>2, <2>3
<1>13. PackageInv'
  BY <1>12 DEF PackageInv, InvalidLen
<1> QED BY <1>9, <1>10, <1>11, <1>13 DEF FramingInv

\* Every step of the peers, of libuv and of the loop preserves FramingInv.
LEMMA FramingInductive == FramingInv /\ [Next]_vars => FramingInv'
<1> SUFFICES ASSUME FramingInv, [Next]_vars PROVE FramingInv'
  OBVIOUS
<1>1. CASE UNCHANGED vars
  <2>1. TypeOK' /\ ReadingInv'
    BY <1>1 DEF vars, FramingInv, TypeOK, ReadingInv, Written
  <2>2. EndsInv' /\ PackageInv'
    BY <1>1, PackagesStable DEF vars, FramingInv
  <2> QED BY <2>1, <2>2 DEF FramingInv
<1>2. CASE Next
  BY <1>2, SendPreservesFraming, ReadPreservesFraming, LoopPassPreservesFraming
     DEF Next
<1> QED BY <1>1, <1>2

\* FramingInv holds in every reachable state.
LEMMA FramingInvariant == Spec => []FramingInv
BY FramingInitially, FramingInductive, PTL DEF Spec

\* No chunk, however cut, takes the buffer, the announced length or the offsets
\* of a KNetPackage out of their ranges.
THEOREM NetPacketTypeCorrect == Spec => []TypeOK
<1>1. FramingInv => TypeOK
  BY DEF FramingInv
<1> QED BY <1>1, FramingInvariant, PTL

\* A KNetPackage that has not mixed connections hands over the packets that were
\* written, whole and in order (Write, GetData, Reset and the loop around them).
THEOREM PacketsDeliveredExactly == Spec => []DeliveredExactly
<1>1. FramingInv => DeliveredExactly
  BY StreamAssumption DEF FramingInv, PackageInv, Assembled, DeliveredExactly
<1> QED BY <1>1, FramingInvariant, PTL

\* How far any package can be, whatever peers announce and whatever it mixed: its
\* length field is incomplete, or the packet is, or a length below the field was
\* read when the field was complete, and nothing has been taken since.
Room(p) ==
    \/ Len(buf[p]) < LenSize /\ packetLen[p] = InvalidLen
    \/ LenSize <= Len(buf[p]) /\ Len(buf[p]) < packetLen[p]
    \/ Len(buf[p]) = LenSize /\ packetLen[p] < LenSize
RoomInv == \A p \in Packets : Room(p)

\* Write stops at the end of the length field and at the end of the packet, and
\* Reset empties a package whose bytes are as many as its length.
LEMMA LoopPassPreservesRoom ==
    ASSUME FramingInv, RoomInv, NEW s \in Streams, LoopPass(s)
    PROVE  RoomInv'
<1> DEFINE p == PacketOf[s]
<1>0. /\ TypeOK /\ EndsInv /\ ReadingInv /\ p \in Packets /\ Room(p)
      /\ LenSize \in Nat \ {0} /\ MaxBytes \in Nat /\ LenSize <= MaxBytes
      /\ reading = s
  BY StreamAssumption, SizeAssumption DEF FramingInv, RoomInv, LoopPass
<1>1. PICK x \in Nat, n \in Nat :
        x = taken[s] /\ n = chunkEnd - taken[s] /\ n >= 1 /\ x + n <= MaxBytes
  BY <1>0 DEF TypeOK, ReadingInv
<1>2. PICK len \in LengthAfter(p, s, n) :
        LET uWrite == HeaderPart(p, n) + BodyPart(p, n, len)
            all    == buf[p] \o Bytes(s, taken[s], taken[s] + uWrite)
            valid  == Len(all) = len
        IN  /\ buf' = [buf EXCEPT ![p] = IF valid THEN <<>> ELSE all]
            /\ packetLen' =
                 [packetLen EXCEPT ![p] = IF valid THEN InvalidLen ELSE len]
  BY <1>1 DEF LoopPass
<1>3. PICK b \in Nat, h \in Nat, L \in Nat, M \in Nat :
        /\ b = Len(buf[p]) /\ h = HeaderPart(p, n) /\ h <= n
        /\ L = LenSize /\ M = InvalidLen /\ 1 <= L /\ L < M
  <2>1. Len(buf[p]) \in Nat /\ HeaderPart(p, n) \in 0..n
    BY <1>0, WriteTakes
  <2> QED BY <1>0, <2>1 DEF InvalidLen
<1>4. len \in Nat /\ HeaderPart(p, n) + BodyPart(p, n, len) \in 0..n
  BY <1>0, WriteTakes
<1>5. PICK k \in Nat : k = HeaderPart(p, n) + BodyPart(p, n, len) /\ k <= n
  BY <1>4
<1>6. PICK all : all = buf[p] \o Bytes(s, x, x + k)
  OBVIOUS
<1>7. ASSUME NEW j \in Nat, j <= n
      PROVE  Len(buf[p] \o Bytes(s, x, x + j)) = b + j
  <2>1. x + j \in Nat /\ x <= x + j /\ (x + j) - x = j
    OBVIOUS
  <2>2. x + j <= MaxBytes
    BY <1>0, <1>1, <1>7
  <2>3. Bytes(s, x, x + j) \in Seq(Byte) /\ Len(Bytes(s, x, x + j)) = j
    BY <2>1, <2>2, BytesType, BytesFacts
  <2>4. buf[p] \in Seq(Byte)
    BY <1>0 DEF TypeOK, Byte
  <2> QED BY <1>3, <2>3, <2>4, ConcatProperties
<1>8. Len(all) = b + k
  BY <1>5, <1>6, <1>7
<1>9. /\ buf' = [buf EXCEPT ![p] = IF b + k = len THEN <<>> ELSE all]
      /\ packetLen' = [packetLen EXCEPT ![p] = IF b + k = len THEN M ELSE len]
  BY <1>1, <1>2, <1>3, <1>5, <1>6, <1>8
<1>10. /\ h = IF b < L THEN Least(n, L - b) ELSE 0
       /\ k = h + IF h < n /\ b + h < len
                  THEN Least(n - h, len - (b + h)) ELSE 0
  BY <1>3, <1>5 DEF HeaderPart, BodyPart
<1>11. (b < L /\ b + h = L) \/ len = packetLen[p]
  <2>1. Len(buf[p] \o Bytes(s, x, x + h)) = b + h
    BY <1>3, <1>7
  <2> QED BY <1>1, <1>3, <2>1 DEF LengthAfter
<1>12. \/ b + k = len
       \/ b + k < L /\ len = M
       \/ L <= b + k /\ b + k < len
       \/ b + k = L /\ len < L
  <2>1. CASE b < L /\ packetLen[p] = M
    <3>1. CASE n < L - b
      <4>1. h = n /\ k = n /\ len = M
        BY <1>3, <1>10, <1>11, <2>1, <3>1 DEF Least
      <4> QED BY <3>1, <4>1
    <3>2. CASE ~(n < L - b)
      <4>1. h = L - b /\ b + h = L
        BY <1>10, <2>1, <3>2 DEF Least
      <4>2. CASE len <= L
        <5>1. k = h
          BY <1>4, <1>10, <4>1, <4>2
        <5> QED BY <1>4, <4>1, <4>2, <5>1
      <4>3. CASE len > L
        <5>1. k >= h /\ k <= h + (len - L)
          BY <1>4, <1>10, <4>1, <4>3 DEF Least
        <5> QED BY <1>4, <4>1, <4>3, <5>1
      <4> QED BY <1>4, <4>2, <4>3
    <3> QED BY <3>1, <3>2
  <2>2. CASE L <= b /\ b < packetLen[p]
    <3>1. h = 0 /\ len = packetLen[p] /\ b < len
      BY <1>10, <1>11, <2>2
    <3>2. k >= 0 /\ k <= len - b
      BY <1>4, <1>10, <3>1 DEF Least
    <3> QED BY <1>4, <2>2, <3>1, <3>2
  <2>3. CASE b = L /\ packetLen[p] < L
    <3>1. h = 0 /\ len = packetLen[p] /\ len < L
      BY <1>10, <1>11, <2>3
    <3>2. k = 0
      BY <1>4, <1>10, <2>3, <3>1
    <3> QED BY <2>3, <3>1, <3>2
  <2> QED BY <1>0, <1>3, <2>1, <2>2, <2>3 DEF Room
<1>13. ASSUME NEW q \in Packets PROVE Room(q)'
  <2>1. CASE q # p
    <3>1. buf'[q] = buf[q] /\ packetLen'[q] = packetLen[q] /\ Room(q)
      BY <1>0, <1>9, <2>1 DEF TypeOK, RoomInv
    <3> QED BY <3>1 DEF Room, InvalidLen
  <2>2. CASE q = p
    <3>1. /\ buf'[p] = IF b + k = len THEN <<>> ELSE all
          /\ packetLen'[p] = IF b + k = len THEN M ELSE len
      BY <1>0, <1>9 DEF TypeOK
    <3>2. CASE b + k = len
      <4>1. Len(buf'[p]) = 0 /\ packetLen'[p] = M
        BY <3>1, <3>2
      <4> QED BY <1>3, <2>2, <4>1 DEF Room, InvalidLen
    <3>3. CASE b + k # len
      <4>1. Len(buf'[p]) = b + k /\ packetLen'[p] = len
        BY <1>8, <3>1, <3>3
      <4> QED BY <1>3, <1>12, <2>2, <3>3, <4>1 DEF Room, InvalidLen
    <3> QED BY <3>2, <3>3
  <2> QED BY <2>1, <2>2
<1> QED BY <1>13 DEF RoomInv

\* Room holds in every reachable state.
LEMMA RoomInvariant == Spec => []RoomInv
<1>1. Init => RoomInv
  BY SizeAssumption DEF Init, RoomInv, Room
<1>2. FramingInv /\ RoomInv /\ [Next]_vars => RoomInv'
  <2>1. ASSUME RoomInv, UNCHANGED <<buf, packetLen>> PROVE RoomInv'
    BY <2>1 DEF RoomInv, Room, InvalidLen
  <2> QED BY <2>1, LoopPassPreservesRoom DEF Next, vars, Send, ReadCallback
<1> QED BY <1>1, <1>2, FramingInvariant, PTL DEF Spec

\* A package that has put together only what belongs together is never stuck.
LEMMA UnmixedHasRoom ==
    ASSUME FramingInv, NEW p \in Packets \ mixed
    PROVE  Len(buf[p]) < packetLen[p]
<1>0. TypeOK /\ EndsInv /\ PackageInv /\ MaxBytes \in Nat /\ LenSize \in Nat
  BY SizeAssumption DEF FramingInv
<1>1. CASE buf[p] = <<>>
  <2>1. packetLen[p] = MaxBytes + 1 /\ Len(buf[p]) = 0
    BY <1>0, <1>1 DEF PackageInv, InvalidLen
  <2> QED BY <1>0, <2>1
<1>2. CASE buf[p] # <<>>
  <2>1. PICK t \in Streams : PacketOf[t] = p /\ From(t) < taken[t]
    BY <1>0, <1>2 DEF PackageInv
  <2>2. Assembled(t)
    BY <1>0, <2>1 DEF PackageInv
  <2>3. Len(delivered[t]) + 1 \in 1..(Len(ends[t]) + 1)
    BY <1>0, <2>2 DEF Assembled, TypeOK
  <2>4. PICK a \in Nat, x \in Nat : a = From(t) /\ x = taken[t] /\ a < x
    <3>1. From(t) \in Nat
      BY <1>0, <2>3, StartFacts DEF From
    <3>2. taken[t] \in Nat
      BY <1>0 DEF TypeOK
    <3> QED BY <2>1, <3>1, <3>2
  <2>5. PICK e \in Nat :
          /\ x < e /\ e <= MaxBytes
          /\ buf[p] = Bytes(t, a, x)
          /\ packetLen[p] = IF x - a < LenSize THEN InvalidLen ELSE e - a
    <3>1. Partial(t)
      BY <2>1, <2>2 DEF Assembled
    <3>2. Len(delivered[t]) + 1 \in 1..Len(ends[t])
      BY <1>0, <2>3, <3>1, StartFacts DEF Partial
    <3>3. PICK e \in Nat :
            e = ends[t][Len(delivered[t]) + 1] /\ e <= MaxBytes
      BY <1>0, <3>2, StartFacts
    <3> QED BY <2>1, <2>4, <3>1, <3>3 DEF Partial
  <2>6. a <= x
    BY <2>4
  <2>7. Len(buf[p]) = x - a
    <3>1. Len(Bytes(t, a, x)) = x - a
      BY <2>6, BytesFacts
    <3> QED BY <2>5, <3>1
  <2> QED BY <1>0, <2>4, <2>5, <2>7 DEF InvalidLen
<1> QED BY <1>1, <1>2

\* Whatever the bytes read as where a length is looked for, every pass of the
\* do-while loop has bytes left and room for one, with a single exception: a
\* length below its own field, read by a package that put together bytes of two
\* connections or of a foreign peer.  Then the loop takes nothing any more.
THEOREM LoopAlwaysProgresses == Spec => []LoopProgresses
<1>1. FramingInv /\ RoomInv => LoopProgresses
  <2> SUFFICES ASSUME FramingInv, RoomInv, NEW s \in Streams, reading = s
               PROVE  /\ taken[s] < chunkEnd
                      /\ \/ Len(buf[PacketOf[s]]) < packetLen[PacketOf[s]]
                         \/ Stuck(PacketOf[s]) /\ PacketOf[s] \in mixed
    BY DEF LoopProgresses
  <2> DEFINE p == PacketOf[s]
  <2>0. /\ TypeOK /\ p \in Packets /\ Room(p)
        /\ MaxBytes \in Nat /\ LenSize \in Nat /\ LenSize <= MaxBytes
    BY StreamAssumption, SizeAssumption DEF FramingInv, RoomInv
  <2>1. taken[s] < chunkEnd
    BY DEF FramingInv, ReadingInv
  <2>2. CASE p \in mixed
    <3>1. Len(buf[p]) \in Nat /\ packetLen[p] \in Nat
      BY <2>0 DEF TypeOK
    <3>2. Len(buf[p]) < packetLen[p] \/ Stuck(p)
      BY <2>0, <3>1 DEF Room, Stuck, InvalidLen
    <3> QED BY <2>1, <2>2, <3>2
  <2>3. CASE p \notin mixed
    BY <2>0, <2>1, <2>3, UnmixedHasRoom
  <2> QED BY <2>2, <2>3
<1> QED BY <1>1, FramingInvariant, RoomInvariant, PTL
-----------------------------------------------------------------------------
\* The packets the peer of s has written, as the abstract channel sees them.
Sent(s) == [i \in 1..Len(ends[s]) |-> Packet(s, i)]

\* No package that assembles packets written with CreateNetBuffer has mixed.
FramedApart == \A s \in Framed : PacketOf[s] \notin mixed

\* With a package of its own for every connection only foreign bytes are mixed.
LEMMA OwnPackageNeverMixes ==
    ASSUME Exclusive, FramingInv, FramedApart, NEW s \in Streams, LoopPass(s)
    PROVE  FramedApart'
<1> DEFINE p == PacketOf[s]
<1>0. mixed' = mixed \/ mixed' = mixed \cup {p}
  BY DEF LoopPass
<1>1. ASSUME NEW t \in Framed PROVE PacketOf[t] \notin mixed'
  <2>0. t \in Streams /\ t \notin Foreign /\ PacketOf[t] \notin mixed
    BY DEF FramedApart, Framed
  <2>1. CASE t # s
    <3>1. PacketOf[t] # p
      BY <2>0, <2>1 DEF Exclusive
    <3> QED BY <1>0, <2>0, <3>1
  <2>2. CASE t = s
    <3>0. TypeOK /\ EndsInv /\ PackageInv /\ p \in Packets \ mixed
      BY <2>0, <2>2, StreamAssumption DEF FramingInv
    <3>1. \A j \in DOMAIN buf[p] : buf[p][j][1] = s
      <4>1. CASE buf[p] = <<>>
        BY <4>1
      <4>2. CASE buf[p] # <<>>
        <5>1. PICK u \in Streams : PacketOf[u] = p /\ From(u) < taken[u]
          BY <3>0, <4>2 DEF PackageInv
        <5>2. u = s
          BY <5>1 DEF Exclusive
        <5>3. buf[p] = Bytes(s, From(s), taken[s])
          BY <3>0, <5>1, <5>2 DEF PackageInv, Assembled, Partial
        <5> QED BY <5>3 DEF Bytes
      <4> QED BY <4>1, <4>2
    <3> QED BY <2>0, <2>2, <3>1 DEF LoopPass
  <2> QED BY <2>1, <2>2
<1> QED BY <1>1 DEF FramedApart

\* A Send is a Put of the abstract channel.
LEMMA SendIsPut ==
    ASSUME FramingInv, NEW s \in Streams, NEW z \in Sizes, Send(s, z)
    PROVE  /\ \E a \in 0..MaxBytes : Sent(s)' = Append(Sent(s), Bytes(s, a, a + z))
           /\ \A t \in Streams \ {s} : Sent(t)' = Sent(t)
           /\ delivered' = delivered
<1>0. delivered' = delivered
  BY DEF Send
<1>1. PICK n \in Nat, a \in Nat :
        /\ n = Len(ends[s]) /\ a = Written(s) /\ a \in 0..MaxBytes
        /\ Start(s, n + 1) = a
        /\ Len(ends'[s]) = n + 1 /\ ends'[s][n + 1] = a + z
  <2>1. Written(s) \in Nat /\ Written(s) + z \in 1..MaxBytes /\ z \in Nat
        /\ MaxBytes \in Nat /\ Len(ends[s]) \in Nat
    BY SendAppends, SizeAssumption
  <2>2. Written(s) \in 0..MaxBytes
    BY <2>1
  <2> QED BY <2>1, <2>2, SendAppends
<1>2. \A t \in Streams \ {s} : Sent(t)' = Sent(t)
  <2> TAKE t \in Streams \ {s}
  <2>1. ends'[t] = ends[t]
    BY SendAppends
  <2> QED BY <2>1 DEF Sent, Packet, Start, Bytes
<1>3. \A i \in 1..n : Packet(s, i)' = Packet(s, i)
  <2> TAKE i \in 1..n
  <2>1. i \in 1..Len(ends[s]) /\ i \in 1..(Len(ends[s]) + 1)
    BY <1>1
  <2>2. ends'[s][i] = ends[s][i] /\ Start(s, i)' = Start(s, i)
    BY <2>1, SendAppends
  <2> QED BY <2>2 DEF Packet, Bytes
<1>4. Packet(s, n + 1)' = Bytes(s, a, a + z)
  <2>1. PICK j \in Nat : j = n + 1
    OBVIOUS
  <2>2. j \in 1..(Len(ends[s]) + 1)
    BY <1>1, <2>1
  <2>3. Start(s, j)' = a /\ ends'[s][j] = a + z
    BY <1>1, <2>1, <2>2, SendAppends
  <2>4. Packet(s, j)' = Bytes(s, a, a + z)
    BY <2>3 DEF Packet, Bytes
  <2> QED BY <2>1, <2>4
<1>5. Sent(s)' = Append(Sent(s), Bytes(s, a, a + z))
  <2> DEFINE P(i) == Packet(s, i)
             m == Bytes(s, a, a + z)
  <2>1. Sent(s) = [i \in 1..n |-> Packet(s, i)]
    BY <1>1 DEF Sent
  <2>2. Sent(s)' = [i \in 1..(n + 1) |-> Packet(s, i)']
    BY <1>1 DEF Sent
  <2>3. \A i \in 1..(n + 1) :
          Packet(s, i)' = IF i = n + 1 THEN m ELSE Packet(s, i)
    BY <1>3, <1>4
  <2>4. Sent(s)' = [i \in 1..(n + 1) |-> IF i = n + 1 THEN m ELSE Packet(s, i)]
    BY <2>2, <2>3
  <2> HIDE DEF m
  <2>5. PICK S : m \in S /\ \A i \in 1..n : Packet(s, i) \in S
    <3> DEFINE T == {m} \cup {Packet(s, i) : i \in 1..n}
    <3>1. m \in T /\ \A i \in 1..n : Packet(s, i) \in T
      OBVIOUS
    <3> QED BY <3>1
  <2>6. Sent(s) \in Seq(S) /\ Len(Sent(s)) = n
    BY <2>1, <2>5
  <2>7. Append(Sent(s), m) \in Seq(S) /\ Len(Append(Sent(s), m)) = n + 1
        /\ \A i \in 1..n : Append(Sent(s), m)[i] = Sent(s)[i]
        /\ Append(Sent(s), m)[n + 1] = m
    BY <2>5, <2>6, AppendProperties
  <2>8. PICK F : F = Sent(s)'
    OBVIOUS
  <2>9. /\ F \in Seq(S) /\ Len(F) = n + 1
        /\ \A i \in 1..(n + 1) : F[i] = IF i = n + 1 THEN m ELSE Packet(s, i)
    BY <2>4, <2>5, <2>8
  <2>10. \A i \in 1..(n + 1) :
           Append(Sent(s), m)[i] = IF i = n + 1 THEN m ELSE Packet(s, i)
    BY <2>1, <2>7
  <2>11. F = Append(Sent(s), m)
    BY <2>7, <2>9, <2>10, SeqEqual
  <2> QED BY <2>8, <2>11 DEF m
<1> QED BY <1>0, <1>1, <1>2, <1>5

\* A pass of the loop is a Hand of the abstract channel, or a stutter.
LEMMA LoopPassIsHand ==
    ASSUME FramingInv, FramingInv', FramedApart', NEW s \in Framed, LoopPass(s)
    PROVE  /\ \A t \in Streams : Sent(t)' = Sent(t)
           /\ \/ delivered' = delivered
              \/ /\ Len(delivered[s]) < Len(Sent(s))
                 /\ delivered' = [delivered EXCEPT
                       ![s] = Append(@, Sent(s)[Len(delivered[s]) + 1])]
<1>0. /\ TypeOK /\ ends' = ends /\ s \in Streams
      /\ PacketOf[s] \in Packets /\ PacketOf[s] \notin mixed'
  BY StreamAssumption DEF FramingInv, LoopPass, Framed, FramedApart
<1>1. \A t \in Streams : Sent(t)' = Sent(t)
  BY <1>0 DEF Sent, Packet, Start, Bytes
<1>2. \/ delivered' = delivered
      \/ \E all : delivered' = [delivered EXCEPT ![s] = Append(@, all)]
  BY DEF LoopPass
<1>3. ASSUME NEW all, delivered' = [delivered EXCEPT ![s] = Append(@, all)]
      PROVE  /\ Len(delivered[s]) < Len(Sent(s))
             /\ all = Sent(s)[Len(delivered[s]) + 1]
  <2>1. delivered[s] \in Seq(Seq(Byte)) /\ delivered'[s] = Append(delivered[s], all)
    BY <1>0, <1>3 DEF TypeOK, Byte
  <2>2. PICK d \in Nat : d = Len(delivered[s])
    BY <2>1
  <2>3. Len(delivered'[s]) = d + 1 /\ delivered'[s][d + 1] = all
    BY <2>1, <2>2
  <2>4. Assembled(s)'
    BY <1>0 DEF FramingInv, PackageInv
  <2>5. d + 1 <= Len(ends[s])
    BY <1>0, <2>3, <2>4 DEF Assembled
  <2>6. \A i \in 1..(d + 1) : delivered'[s][i] = Packet(s, i)
    <3>1. \A i : Packet(s, i)' = Packet(s, i)
      BY <1>0 DEF Packet, Start, Bytes
    <3> QED BY <2>3, <2>4, <3>1 DEF Assembled
  <2>7. Len(ends[s]) \in Nat
    BY <1>0 DEF TypeOK
  <2>8. Len(Sent(s)) = Len(ends[s])
    BY <2>7 DEF Sent
  <2>9. d + 1 \in 1..Len(ends[s]) /\ d + 1 \in 1..(d + 1)
    BY <2>5, <2>7
  <2>10. all = Packet(s, d + 1)
    BY <2>3, <2>6, <2>9
  <2>11. Sent(s)[d + 1] = Packet(s, d + 1)
    BY <2>9 DEF Sent
  <2> QED BY <2>2, <2>5, <2>7, <2>8, <2>10, <2>11
<1> QED BY <1>1, <1>2, <1>3

\* When every connection has a KNetPackage of its own, as a TCPSession does, the
\* framing loop is a reliable packet channel on each connection whose peer uses
\* CreateNetBuffer, whatever the peers of the others write.
THEOREM FramingImplementsChannel ==
    ASSUME Exclusive
    PROVE  Spec => ImplementsChannel
<1> DEFINE Inv == FramingInv /\ FramedApart
<1>1. Init => Inv
  BY FramingInitially DEF Init, FramedApart
<1>2. Inv /\ [Next]_vars => Inv'
  <2> SUFFICES ASSUME Inv, [Next]_vars PROVE FramedApart'
    BY FramingInductive
  <2>1. mixed' = mixed => FramedApart'
    BY DEF FramedApart
  <2> QED BY <2>1, OwnPackageNeverMixes DEF Next, vars, Send, ReadCallback
<1>3. Init => Channel!ChanInit
  <2> SUFFICES ASSUME Init PROVE Channel!ChanInit
    OBVIOUS
  <2>1. \A s \in Framed : [i \in 1..Len(ends[s]) |-> Packet(s, i)] = <<>>
    <3> TAKE s \in Framed
    <3>1. 1..Len(ends[s]) = {}
      BY DEF Init, Framed
    <3> QED BY <3>1
  <2>2. SentPackets = [s \in Framed |-> <<>>]
    BY <2>1 DEF SentPackets
  <2>3. GotPackets = [s \in Framed |-> <<>>]
    BY DEF Init, GotPackets, Framed
  <2> QED BY <2>2, <2>3 DEF Channel!ChanInit
<1>4. Inv /\ Inv' /\ [Next]_vars => [Channel!ChanNext]_(Channel!chanVars)
  <2> SUFFICES ASSUME Inv, Inv', [Next]_vars
               PROVE  [Channel!ChanNext]_(Channel!chanVars)
    OBVIOUS
  <2>0. /\ SentPackets = [s \in Framed |-> Sent(s)]
        /\ SentPackets' = [s \in Framed |-> Sent(s)']
        /\ GotPackets = [s \in Framed |-> delivered[s]]
        /\ GotPackets' = [s \in Framed |-> delivered'[s]]
        /\ Framed \subseteq Streams
        /\ delivered \in [Streams -> Seq(Seq(Byte))]
    BY DEF SentPackets, GotPackets, Sent, Framed, FramingInv, TypeOK, Byte
  <2>1. CASE UNCHANGED vars
    <3>1. \A s : Sent(s)' = Sent(s)
      BY <2>1 DEF vars, Sent, Packet, Start, Bytes
    <3>2. SentPackets' = SentPackets /\ GotPackets' = GotPackets
      BY <2>0, <2>1, <3>1 DEF vars
    <3> QED BY <3>2 DEF Channel!chanVars
  <2>2. ASSUME NEW s \in Streams, NEW z \in Sizes, Send(s, z)
        PROVE  [Channel!ChanNext]_(Channel!chanVars)
    <3>1. PICK a \in 0..MaxBytes : Sent(s)' = Append(Sent(s), Bytes(s, a, a + z))
      BY <2>2, SendIsPut
    <3>2. /\ \A t \in Streams \ {s} : Sent(t)' = Sent(t)
          /\ delivered' = delivered
      BY <2>2, SendIsPut
    <3>3. GotPackets' = GotPackets
      BY <2>0, <3>2
    <3>4. CASE s \in Framed
      <4>1. SentPackets' = [SentPackets EXCEPT
                              ![s] = Append(@, Bytes(s, a, a + z))]
        BY <2>0, <3>1, <3>2, <3>4
      <4>2. Bytes(s, a, a + z) \in Message
        BY DEF Message
      <4>3. Channel!Put(s)
        BY <3>3, <4>1, <4>2 DEF Channel!Put
      <4> QED BY <3>4, <4>3 DEF Channel!ChanNext
    <3>5. CASE s \notin Framed
      <4>1. SentPackets' = SentPackets
        BY <2>0, <3>2, <3>5
      <4> QED BY <3>3, <4>1 DEF Channel!chanVars
    <3> QED BY <3>4, <3>5
  <2>3. ASSUME NEW s \in Streams, NEW nread \in 1..MaxBytes,
               ReadCallback(s, nread)
        PROVE  UNCHANGED Channel!chanVars
    <3>1. \A t : Sent(t)' = Sent(t)
      BY <2>3 DEF ReadCallback, Sent, Packet, Start, Bytes
    <3>2. delivered' = delivered
      BY <2>3 DEF ReadCallback
    <3>3. SentPackets' = SentPackets /\ GotPackets' = GotPackets
      BY <2>0, <3>1, <3>2
    <3> QED BY <3>3 DEF Channel!chanVars
  <2>4. ASSUME NEW s \in Streams, LoopPass(s)
        PROVE  [Channel!ChanNext]_(Channel!chanVars)
    <3>1. \A t : Sent(t)' = Sent(t)
      BY <2>4 DEF LoopPass, Sent, Packet, Start, Bytes
    <3>2. SentPackets' = SentPackets
      BY <2>0, <3>1
    <3>3. CASE delivered' = delivered
      <4>1. GotPackets' = GotPackets
        BY <2>0, <3>3
      <4> QED BY <3>2, <4>1 DEF Channel!chanVars
    <3>4. CASE s \notin Framed
      <4>1. \A t \in Framed : delivered'[t] = delivered[t]
        <5>1. \/ delivered' = delivered
              \/ \E all : delivered' = [delivered EXCEPT ![s] = Append(@, all)]
          BY <2>4 DEF LoopPass
        <5> QED BY <2>0, <3>4, <5>1
      <4>2. GotPackets' = GotPackets
        BY <2>0, <4>1
      <4> QED BY <3>2, <4>2 DEF Channel!chanVars
    <3>5. CASE /\ s \in Framed
               /\ Len(delivered[s]) < Len(Sent(s))
               /\ delivered' = [delivered EXCEPT
                     ![s] = Append(@, Sent(s)[Len(delivered[s]) + 1])]
      <4>1. SentPackets[s] = Sent(s) /\ GotPackets[s] = delivered[s]
        BY <2>0, <3>5
      <4>2. GotPackets' = [GotPackets EXCEPT
                             ![s] = Append(@, Sent(s)[Len(delivered[s]) + 1])]
        BY <2>0, <3>5
      <4>3. Channel!Hand(s)
        BY <3>2, <3>5, <4>1, <4>2 DEF Channel!Hand
      <4> QED BY <3>5, <4>3 DEF Channel!ChanNext
    <3> QED BY <2>4, <3>3, <3>4, <3>5, LoopPassIsHand
  <2> QED BY <2>1, <2>2, <2>3, <2>4 DEF Next
<1> QED BY <1>1, <1>2, <1>3, <1>4, PTL DEF Spec, ImplementsChannel, Channel!ChanSpec
=============================================================================
