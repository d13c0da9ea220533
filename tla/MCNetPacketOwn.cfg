\* Two connections, a KNetPackage each: what TCPSession sets up.  The peer of one
\* writes what it likes.
CONSTANTS
    s1 = s1
    s2 = s2
    p1 = p1
    p2 = p2
    NoStream = NoStream
    Streams = {s1, s2}
    Packets = {p1, p2}
    PacketOf <- OwnPackage
    Foreign = {s2}
    LenSize = 2
    Sizes = {3, 4}
    Garbage = {1, 2, 5}
    MaxBytes = 7
SPECIFICATION FairSpec
INVARIANTS TypeOK
PROPERTIES ImplementsChannel EventuallyDelivered
CHECK_DEADLOCK FALSE
