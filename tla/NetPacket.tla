----------------------------- MODULE NetPacket -----------------------------
(***************************************************************************)
(* Packet framing.  A peer writes packets whose first LenSize bytes hold   *)
(* the packet's length; TCP cuts the bytes into arbitrary chunks; each     *)
(* read callback runs a loop (TCPSession::ProcessNetData and its three     *)
(* copies) that feeds the chunk to a KNetPackage and hands over every      *)
(* packet that becomes complete.                                           *)
(*                                                                         *)
(* Which KNetPackage assembles which connection is the constant PacketOf:  *)
(* a TCPSession owns one, but the read callbacks of the three upstream     *)
(* GatewayClients all run on the object GatewayClient::GetInstance(), and  *)
(* all the connections of a GameLogicServer, its CenterClient's included,  *)
(* share the server's single m_pRecvPacket.                                *)
(*                                                                         *)
(* A byte is <<stream, position in the stream>>; only the meaning of a     *)
(* length field is looked at.  The servers write packets with              *)
(* CreateNetBuffer.  A client of the gateway may write anything: the bytes *)
(* of such a peer begin no packet, wherever they are looked at.            *)
(***************************************************************************)
EXTENDS Integers, Sequences

CONSTANTS
    Streams,    \* the connections read by one process
    Packets,    \* its KNetPackage objects
    PacketOf,   \* the KNetPackage that assembles each connection
    Foreign,    \* the connections whose peers do not use CreateNetBuffer
    LenSize,    \* KD_PACKAGE_LEN_SIZE
    Sizes,      \* the lengths CreateNetBuffer gives to packets
    Garbage,    \* what other bytes may read as in the place of a length field
    MaxBytes,   \* bound: the bytes written on one connection
    NoStream    \* no read callback is running

ASSUME StreamAssumption == /\ PacketOf \in [Streams -> Packets]
                           /\ Foreign \subseteq Streams
                           /\ NoStream \notin Streams

\* CreateNetBuffer puts a header of KD_PACKAGE_HEADER_SIZE > LenSize bytes in
\* front of every body, so its packets are longer than their length field.  No
\* such thing is known of Garbage: _InitPackage's checks are commented out.
ASSUME SizeAssumption == /\ LenSize \in Nat \ {0}
                         /\ Sizes \subseteq {z \in Nat : z > LenSize}
                         /\ Garbage \subseteq Nat
                         /\ MaxBytes \in Nat /\ LenSize <= MaxBytes

VARIABLES
    ends,       \* ends[s]: where in the stream each packet of s ends
    taken,      \* taken[s]: how many bytes of s the loop has consumed
    reading,    \* the connection whose read callback is running
    chunkEnd,   \* where in that stream the callback's chunk ends
    buf,        \* buf[p]: m_szRemain and m_pBuffer, the bytes assembled so far
    packetLen,  \* packetLen[p]: m_uPacketLen
    delivered,  \* delivered[s]: the packets handed over by callbacks of s
    mixed       \* history: the packages that put bytes together that do not belong
                \* together, of two streams or of a foreign peer

vars == <<ends, taken, reading, chunkEnd, buf, packetLen, delivered, mixed>>
-----------------------------------------------------------------------------
\* Mutant of InvalidLen: -1 kept as a signed number.
InvalidLenSigned == 0 - 1

\* KD_INVALID_PACKET_LEN, (unsigned)-1: larger than any offset.
InvalidLen == MaxBytes + 1

\* Bytes a+1 .. b of a stream.
Bytes(s, a, b) == [j \in 1..(b - a) |-> <<s, a + j>>]

Written(s) == IF ends[s] = <<>> THEN 0 ELSE ends[s][Len(ends[s])]

\* The i-th packet of s occupies the bytes after Start(s, i) up to ends[s][i].
Start(s, i) == IF i = 1 THEN 0 ELSE ends[s][i - 1]
Packet(s, i) == Bytes(s, Start(s, i), ends[s][i])

\* What _InitPackage may read from LenSize assembled bytes: the length of the
\* packet they begin, or anything when they do not begin one.
LengthRead(h) ==
    LET begins == {b \in (Streams \ Foreign) \X (1..MaxBytes) :
                     /\ b[2] <= Len(ends[b[1]])
                     /\ h = Bytes(b[1], Start(b[1], b[2]),
                                  Start(b[1], b[2]) + LenSize)}
    IN  IF begins = {} THEN Garbage
        ELSE {ends[b[1]][b[2]] - Start(b[1], b[2]) : b \in begins}

Least(a, b) == IF a < b THEN a ELSE b
-----------------------------------------------------------------------------
Init == /\ ends = [s \in Streams |-> <<>>]
        /\ taken = [s \in Streams |-> 0]
        /\ reading = NoStream
        /\ chunkEnd = 0
        /\ buf = [p \in Packets |-> <<>>]
        /\ packetLen = [p \in Packets |-> InvalidLen]
        /\ delivered = [s \in Streams |-> <<>>]
        /\ mixed = {}

\* The peer of s writes a packet of z bytes (CreateNetBuffer, then uv_write), or
\* z bytes of its own making.
Send(s, z) ==
    /\ Written(s) + z <= MaxBytes
    /\ ends' = [ends EXCEPT ![s] = Append(@, Written(s) + z)]
    /\ UNCHANGED <<taken, reading, chunkEnd, buf, packetLen, delivered, mixed>>

\* libuv calls back with the next nread bytes of s.
ReadCallback(s, nread) ==
    /\ reading = NoStream
    /\ taken[s] + nread <= Written(s)
    /\ reading' = s
    /\ chunkEnd' = taken[s] + nread
    /\ UNCHANGED <<ends, taken, buf, packetLen, delivered, mixed>>

\* Mutant of HeaderPart: forgets the bytes already in m_szRemain.
HeaderPartAgain(p, n) == IF Len(buf[p]) < LenSize THEN Least(n, LenSize) ELSE 0

\* Mutant of BodyPart: takes the rest of the chunk, past the packet's end.
BodyPartWhole(p, n, len) ==
    n - (IF Len(buf[p]) < LenSize THEN Least(n, LenSize - Len(buf[p])) ELSE 0)

\* How many bytes KNetPackage::Write takes when n are offered: first the
\* missing bytes of the length field, then, once len is known, of the packet.
HeaderPart(p, n) ==
    IF Len(buf[p]) < LenSize THEN Least(n, LenSize - Len(buf[p])) ELSE 0
BodyPart(p, n, len) ==
    LET offset == Len(buf[p]) + HeaderPart(p, n)
    IN  IF HeaderPart(p, n) < n /\ offset < len
        THEN Least(n - HeaderPart(p, n), len - offset)
        ELSE 0

\* Mutant of LengthAfter: reads the length before its field is complete.
LengthAfterEarly(p, s, n) ==
    IF Len(buf[p]) < LenSize
    THEN LengthRead(buf[p] \o Bytes(s, taken[s], taken[s] + HeaderPart(p, n)))
    ELSE {packetLen[p]}

\* m_uPacketLen after the header part: unchanged, or read from the length field.
LengthAfter(p, s, n) ==
    LET head == buf[p] \o Bytes(s, taken[s], taken[s] + HeaderPart(p, n))
    IN  IF Len(buf[p]) < LenSize /\ Len(head) = LenSize
        THEN LengthRead(head)
        ELSE {packetLen[p]}

\* One pass of the do-while loop: Write, then GetData, hand over and Reset if
\* the packet IsValid, then go on with the rest of the chunk, or return.
LoopPass(s) ==
    /\ reading = s
    /\ LET p == PacketOf[s]
           n == chunkEnd - taken[s]
       IN  \E len \in LengthAfter(p, s, n) :
             LET uWrite == HeaderPart(p, n) + BodyPart(p, n, len)
                 all    == buf[p] \o Bytes(s, taken[s], taken[s] + uWrite)
                 valid  == Len(all) = len
             IN  /\ taken' = [taken EXCEPT ![s] = @ + uWrite]
                 /\ reading' = IF uWrite = n THEN NoStream ELSE s
                 /\ buf' = [buf EXCEPT ![p] = IF valid THEN <<>> ELSE all]
                 /\ packetLen' =
                      [packetLen EXCEPT ![p] = IF valid THEN InvalidLen ELSE len]
                 /\ delivered' = IF valid
                                 THEN [delivered EXCEPT ![s] = Append(@, all)]
                                 ELSE delivered
                 /\ mixed' = IF s \in Foreign \/ \E j \in DOMAIN buf[p] : buf[p][j][1] # s
                             THEN mixed \cup {p}
                             ELSE mixed
    /\ UNCHANGED <<ends, chunkEnd>>

Next == \E s \in Streams :
          \/ \E z \in Sizes : Send(s, z)
          \/ \E nread \in 1..MaxBytes : ReadCallback(s, nread)
          \/ LoopPass(s)

Spec == Init /\ [][Next]_vars

\* The kernel reports a readable socket again until it is drained
\* (level-triggered epoll), and a callback that has started runs on.
Fairness == \A s \in Streams :
              /\ WF_vars(\E nread \in 1..MaxBytes : ReadCallback(s, nread))
              /\ WF_vars(LoopPass(s))
FairSpec == Spec /\ Fairness
-----------------------------------------------------------------------------
TypeOK == /\ ends \in [Streams -> Seq(1..MaxBytes)]
          /\ taken \in [Streams -> 0..MaxBytes]
          /\ reading \in Streams \cup {NoStream}
          /\ chunkEnd \in 0..MaxBytes
          /\ buf \in [Packets -> Seq(Streams \X (1..MaxBytes))]
          /\ packetLen \in [Packets -> Nat]
          /\ delivered \in [Streams -> Seq(Seq(Streams \X (1..MaxBytes)))]
          /\ mixed \subseteq Packets

\* As long as a KNetPackage has not put bytes together that do not belong
\* together, what it hands over are the packets written, whole and in order,
\* however the chunks were cut (KNetPackage::Write, Reset and the loops).
DeliveredExactly ==
    \A s \in Streams : PacketOf[s] \notin mixed =>
      /\ Len(delivered[s]) <= Len(ends[s])
      /\ \A i \in 1..Len(delivered[s]) : delivered[s][i] = Packet(s, i)

\* A package that has read a length shorter than its own field takes nothing any
\* more: uPacketSize > KD_PACKAGE_LEN_SIZE is commented out (knetpacket.cpp:137).
Stuck(p) == packetLen[p] < LenSize

\* Every pass of the loop has bytes to take and room for one, whatever lengths
\* peers announce and packages make of mixed bytes, but for the one case that a
\* length below LenSize was read from bytes that do not belong together: Write
\* then takes nothing and the loop spins.  With peers that use CreateNetBuffer
\* and a package for each, the case never comes.
LoopProgresses ==
    \A s \in Streams : reading = s =>
      LET p == PacketOf[s]
      IN  /\ taken[s] < chunkEnd
          /\ Len(buf[p]) < packetLen[p] \/ (Stuck(p) /\ p \in mixed)

\* Each connection has a KNetPackage of its own (TCPSession).
Exclusive == \A s, t \in Streams : PacketOf[s] = PacketOf[t] => s = t

\* The refinement mapping: the packets written on each connection by peers that
\* use CreateNetBuffer, those handed over, and every packet they could write.
Framed == Streams \ Foreign
SentPackets == [s \in Framed |-> [i \in 1..Len(ends[s]) |-> Packet(s, i)]]
GotPackets  == [s \in Framed |-> delivered[s]]
Message == {Bytes(s, a, a + z) :
              s \in Streams, a \in 0..MaxBytes, z \in Sizes}

\* Framing implements the abstract channel when packages are exclusive, whatever
\* the peers of other connections write.
Channel == INSTANCE MessageChannel
           WITH Streams <- Framed, sent <- SentPackets, got <- GotPackets
ImplementsChannel == Channel!ChanSpec

\* Every packet written is handed over in the end, unless its package was mixed
\* up or the process spins in the read callback of another connection.
EventuallyDelivered ==
    \A s \in Framed : \A i \in 1..MaxBytes :
      (Len(ends[s]) >= i) ~>
         \/ Len(delivered[s]) >= i \/ PacketOf[s] \in mixed
         \/ reading # NoStream /\ Stuck(PacketOf[reading])
=============================================================================
