\* Two connections read through one KNetPackage: GatewayClient, GameLogicServer.
CONSTANTS
    s1 = s1
    s2 = s2
    p1 = p1
    p2 = p2
    NoStream = NoStream
    Streams = {s1, s2}
    Packets = {p1}
    PacketOf <- SharedPackage
    Foreign = {}
    LenSize = 2
    Sizes = {3, 4}
    Garbage = {1, 2, 5}
    MaxBytes = 7
SPECIFICATION Spec
INVARIANTS DeliveredExactly LoopProgresses
CHECK_DEADLOCK FALSE
