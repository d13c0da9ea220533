\* Two connections, two requests, one round settled, one restart of any process.
\* Clients name the first connection's handler: their own, or another's.
CONSTANTS
    Logic = Logic
    Room = Room
    ToGateway = ToGateway
    NoConnection = NoConnection
    Enter = Enter
    Game = Game
    Other = Other
    NoticeEvent = NoticeEvent
    Register = Register
    Settlement = Settlement
    Named = {1}
    MaxConnections = 2
    MaxRequests = 2
    MaxSettlements = 1
    MaxRestarts = 1
SPECIFICATION Spec
CHECK_DEADLOCK FALSE
INVARIANTS
    TypeOK
    NoticeIsLast
    RepliesReachTheirConnection
    ActsForOwner
PROPERTIES
    SentOnIsSeated
    WrittenToIsReleased
