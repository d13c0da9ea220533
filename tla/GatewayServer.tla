--------------------------- MODULE GatewayServer ---------------------------
(***************************************************************************)
(* The gateway's handlers (tcp/gateway_server.cpp, and the request side of *)
(* tcp/tcp_session.cpp).  Connections are numbered by their order of       *)
(* arrival.  What a handler writes to a server or to a client is an        *)
(* operator; module Network puts it on the links.                          *)
(***************************************************************************)
EXTENDS TCPBaseServer

CONSTANTS Logic, NoticeEvent     \* the server type LOGIC; the event 4001

\* OnNewConnection
OnNewConnection(c) == AddSession(c)

\* OnMsgRecv finds the connection.
Known(c) == c \in DOMAIN sessions

\* Mutant of Stamped: AddHanderIdToBuffer is left out, and the handler id is
\* the one the client wrote into the packet.
Unstamped(c, claimed) == claimed

\* The handler id ProcessNetData writes into a request of c.
Stamped(c, claimed) == sessions[c]

\* OnMsgRecv reads the end of the connection c.
OnEOF(c) == Known(c) /\ RemoveClient(c)

\* Mutant of Notice: the id is taken from the head of the packet.
NoticeOfHead(h, about) ==
    [event |-> NoticeEvent, h |-> 0, of |-> 0, conn |-> about]

\* NotifyUserSocketDisconnect and NotifyLogicServer: the notice that the
\* connection of h has gone; the head of its packet carries handler id 0.
Notice(h, about) ==
    [event |-> NoticeEvent, h |-> 0, of |-> h, conn |-> about]

NotifyUserSocketDisconnect(h) ==
    /\ idToHandler' = Erase(idToHandler, h)
    /\ UNCHANGED <<sessionId, sessions, handlerToId>>

\* TransferToClient: a handler id without a connection has its entry erased.
TransferToClient(h) ==
    IF GetHandlerById(h) = NoConnection
    THEN NotifyUserSocketDisconnect(h)
    ELSE UNCHANGED tables
=============================================================================
