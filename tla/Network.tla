------------------------------ MODULE Network ------------------------------
(***************************************************************************)
(* The processes of one installation and the TCP links between them: the   *)
(* gateway (module GatewayServer), the center (module CenterServer), a     *)
(* logic server and a room server, of which only what concerns the network *)
(* is here: the connection each user entered on, at the logic server, and  *)
(* the seats, at the room server.  Any process may die and be started      *)
(* again; a link that broke is never made again by the side that is alive. *)
(*                                                                         *)
(* A life is the number of a process's start, 0 at first.  A client        *)
(* connection is its number in the order in which the gateway accepted it. *)
(* What a dead process wrote can still be read; what was written to it is  *)
(* lost.  A connection is accepted in the step that makes it: until it is, *)
(* its messages wait, and those for its predecessor are lost as before.    *)
(***************************************************************************)
EXTENDS Naturals, Sequences, FiniteSets

CONSTANTS
    Logic, Room,        \* the server types LOGIC and ROOM
    ToGateway,          \* the server type GATEWAY
    NoConnection,
    Enter, Game, Other, \* kinds of requests: the user enters, enters a game, else
    NoticeEvent,        \* USER_DISCONNECT, 4001
    Register,           \* a server's registration at the center, 3001
    Settlement,         \* GAME_SETTLEMENT
    Named,              \* handlers that clients name in a USER_DISCONNECT
    MaxConnections,     \* bound: client connections
    MaxRequests,        \* bound: requests of clients
    MaxSettlements,     \* bound: rounds settled by the room server
    MaxRestarts         \* bound: processes that die and start again

Servers == {Logic, Room}

ASSUME NetworkAssumption ==
    /\ Logic # Room /\ ToGateway \notin {Logic, Room}
    /\ NoConnection \notin Nat
    /\ NoticeEvent \notin {Enter, Game, Other}
    /\ {Register, Settlement} \cap {Enter, Game, Other, NoticeEvent} = {}
    /\ Named \subseteq 0..MaxConnections
    /\ MaxConnections \in Nat /\ MaxRequests \in Nat
    /\ MaxSettlements \in Nat /\ MaxRestarts \in Nat

Lives == 0..MaxRestarts

VARIABLES
    gatewayLife,
    sessionId, sessions, idToHandler, handlerToId,  \* the gateway's tables
    client,     \* per connection of a client, in order: the gateway's life, the
                \* handler id it was given and what has become of it
    toServer,   \* per gateway life and server: what the gateway wrote
    upstream,   \* the servers whose link to this gateway is not broken
    toGateway,  \* per server: what was written to the gateway
    gatewayOf,  \* m_pGatewayClient: the gateway's life of the last connection
                \* a server accepted; NoConnection before the first
    serverLife,
    centerLife,
    cSessionId, cSessions, cIdToHandler, cHandlerToId, serverTypeToHandler,
    centerOf,   \* per server: the life of the center it connected to
    toCenter,   \* per connection: what the server wrote to the center
    fromCenter, \* per server: what the center wrote to it
    entered,    \* at the logic server: the connection whose user entered, per
                \* handler id
    seats,      \* at the room server: the same, for the users at its tables
    requests, settlements, restarts,    \* what the bounds count
    noticed     \* history: connections whose notice the logic server has read

gatewayVars == <<gatewayLife, sessionId, sessions, idToHandler, handlerToId>>
centerTables == <<cSessionId, cSessions, cIdToHandler, cHandlerToId,
                  serverTypeToHandler>>
centerVars  == <<centerLife, centerTables>>
serverVars  == <<gatewayOf, serverLife, entered, seats>>
linkVars    == <<toServer, upstream, toGateway>>
centerLinks == <<centerOf, toCenter, fromCenter>>
bounds      == <<requests, settlements, restarts>>
vars == <<gatewayVars, centerVars, client, serverVars, linkVars, centerLinks,
          bounds, noticed>>

Gateway == INSTANCE GatewayServer
Center  == INSTANCE CenterServer WITH
             sessionId <- cSessionId, sessions <- cSessions,
             idToHandler <- cIdToHandler, handlerToId <- cHandlerToId

\* A message of the handler id h, about a client connection (history).  The body
\* of a USER_DISCONNECT names a handler too, of; it is 0 in all others.
Message(event, h, of, conn) ==
    [event |-> event, h |-> h, of |-> of, conn |-> conn]

Connections == DOMAIN client

\* The center knows a server by its process: the type and the life.
Process(s) == <<s, serverLife[s]>>
-----------------------------------------------------------------------------
Init ==
    /\ gatewayLife = 0 /\ Gateway!Constructed
    /\ centerLife = 0 /\ cSessionId = 2 /\ serverTypeToHandler = Gateway!Empty
    /\ cSessions = [p \in Servers \X {0} |-> IF p[1] = Logic THEN 1 ELSE 2]
    /\ cHandlerToId = cSessions
    /\ cIdToHandler = <<<<Logic, 0>>, <<Room, 0>>>>
    /\ client = <<>>
    /\ toServer = [l \in Lives \X Servers |-> <<>>]
    /\ upstream = Servers
    /\ toGateway = [s \in Servers |-> <<>>]
    /\ gatewayOf = [s \in Servers |-> 0]
    /\ serverLife = [s \in Servers |-> 0]
    /\ centerOf = [s \in Servers |-> 0]
    /\ toCenter = [p \in Servers \X Lives |->
                     IF p[2] = 0 THEN <<Message(Register, 0, 0, 0)>> ELSE <<>>]
    /\ fromCenter = [s \in Servers |-> <<>>]
    /\ entered = Gateway!Empty /\ seats = Gateway!Empty
    /\ requests = 0 /\ settlements = 0 /\ restarts = 0
    /\ noticed = {}

\* GatewayClient::TransferToLogicServer: over a broken link the write fails.
TransferToLogicServer(s, m) ==
    toServer' = IF s \in upstream
                THEN [toServer EXCEPT ![<<gatewayLife, s>>] = Append(@, m)]
                ELSE toServer

\* GameLogicServer::SendDataToGateway writes to the last connection accepted;
\* that there is one is a guard of those who call it.
SentToGateway(s, m) ==
    IF gatewayOf[s] = gatewayLife THEN Append(toGateway[s], m) ELSE toGateway[s]

\* CenterClient::TransferToCenterServer
SentToCenter(s, m) ==
    IF centerOf[s] = centerLife
    THEN [toCenter EXCEPT ![Process(s)] = Append(@, m)] ELSE toCenter

\* CNet.SendToServer: directly to the gateway, or to the center, which knows the
\* servers of the other types.  Without a gateway, which a server restarted alone
\* has not, the write goes through a null pointer: the process dies, and that
\* step is ServerRestarts.  At the bound of restarts it stays dead, and whatever
\* it would have read stays unread.
SendToServer(s, type, m) ==
    IF type = ToGateway
    THEN /\ gatewayOf[s] # NoConnection
         /\ toGateway' = [toGateway EXCEPT ![s] = SentToGateway(s, m)]
         /\ UNCHANGED toCenter
    ELSE /\ toCenter' = SentToCenter(s, m)
         /\ UNCHANGED toGateway
-----------------------------------------------------------------------------
(* The gateway and its clients. *)

GatewayAccepts ==
    /\ Len(client) < MaxConnections
    /\ LET c == Len(client) + 1
       IN  /\ Gateway!OnNewConnection(c)
           /\ client' = Append(client, [life |-> gatewayLife,
                                        id |-> sessionId', state |-> "open"])
    /\ UNCHANGED <<gatewayLife, centerVars, serverVars, linkVars, centerLinks,
                   bounds, noticed>>

\* A request arrives from c for the servers of a type, with the handler id
\* claimed in its packet: TCPSession::ProcessNetData, which forwards any event.
\* A USER_DISCONNECT of a client's own names any handler.
GatewayForwards(c, s, event, of, claimed) ==
    /\ client[c].life = gatewayLife /\ client[c].state = "open"
    /\ Gateway!Known(c)
    /\ requests < MaxRequests
    /\ requests' = requests + 1
    /\ TransferToLogicServer(s, Message(event, Gateway!Stamped(c, claimed), of, c))
    /\ UNCHANGED <<gatewayVars, centerVars, client, serverVars, upstream,
                   toGateway, centerLinks, settlements, restarts,
                   noticed>>

\* The client closes the connection.
GatewayReadsEOF(c) ==
    /\ client[c].life = gatewayLife /\ client[c].state = "open"
    /\ Gateway!OnEOF(c)
    /\ client' = [client EXCEPT ![c].state = "closed"]
    /\ UNCHANGED <<gatewayLife, centerVars, serverVars, linkVars, centerLinks,
                   bounds, noticed>>

\* The connection is reset: OnMsgRecv ignores every error but the end of file,
\* so it stays in the tables and what is written to it is lost.
ConnectionReset(c) ==
    /\ client[c].life = gatewayLife /\ client[c].state = "open"
    /\ client' = [client EXCEPT ![c].state = "reset"]
    /\ UNCHANGED <<gatewayVars, centerVars, serverVars, linkVars, centerLinks,
                   bounds, noticed>>

\* A message of a server for a client (GatewayClient::_ProcessNetData): it is
\* written to the connection of its handler id, or the logic server is told that
\* there is none.
GatewayTransfersToClient(s) ==
    /\ toGateway[s] # <<>>
    /\ toGateway' = [toGateway EXCEPT ![s] = Tail(@)]
    /\ LET m == Head(toGateway[s])
       IN  /\ Gateway!TransferToClient(m.h)
           /\ IF Gateway!GetHandlerById(m.h) = NoConnection
              THEN TransferToLogicServer(Logic, Gateway!Notice(m.h, m.conn))
              ELSE UNCHANGED toServer
    /\ UNCHANGED <<gatewayLife, centerVars, client, serverVars, upstream,
                   centerLinks, bounds, noticed>>
-----------------------------------------------------------------------------
(* The logic server and the room server. *)

\* GameLogicServer::OnMsgRecv: the next message from a gateway's connection is m.
ServerReads(g, s, m) ==
    /\ toServer[g, s] # <<>>
    /\ m = Head(toServer[g, s])
    /\ toServer' = [toServer EXCEPT ![<<g, s>>] = Tail(@)]
    /\ UNCHANGED <<gatewayVars, centerVars, client, gatewayOf, serverLife,
                   upstream, centerOf, fromCenter,
                   bounds>>

\* ENTER_GAME at the logic server (OnClientEnterHall): from now on the handler
\* is that of the user of this connection.  That the answer may have to wait for
\* the user's data is left to module Session.
LogicEnters(g, m) ==
    /\ ServerReads(g, Logic, m)
    /\ m.event = Enter
    /\ entered' = [x \in DOMAIN entered \cup {m.h} |->
                     IF x = m.h THEN m.conn ELSE entered[x]]
    /\ SendToServer(Logic, ToGateway, m)
    /\ UNCHANGED <<seats, noticed>>

\* Any other request: it is executed for the user who entered on its handler,
\* and answered, or sent on to the room server (GameManager:EnterGame).
LogicExecutes(g, m) ==
    /\ ServerReads(g, Logic, m)
    /\ m.event \in {Game, Other}
    /\ IF m.h \in DOMAIN entered
       THEN SendToServer(Logic, IF m.event = Game THEN Room ELSE ToGateway, m)
       ELSE UNCHANGED <<toCenter, toGateway>>
    /\ UNCHANGED <<entered, seats, noticed>>

\* USER_DISCONNECT (OnUserDisconnect) releases the user of the handler its body
\* names.  It does not ask who sent it: the gateway, whose packet carries handler
\* id 0, or a client.
LogicReleases(g, m) ==
    /\ ServerReads(g, Logic, m)
    /\ m.event = NoticeEvent
    /\ entered' = Gateway!Erase(entered, m.of)
    /\ noticed' = IF m.h = 0 THEN noticed \cup {m.conn} ELSE noticed
    /\ UNCHANGED <<seats, toCenter, toGateway>>

\* A client's request to the room server (a bet) is answered when its user sits
\* at a table.
RoomExecutes(g, m) ==
    /\ ServerReads(g, Room, m)
    /\ m.event = Other
    /\ IF m.h \in DOMAIN seats
       THEN SendToServer(Room, ToGateway, m)
       ELSE UNCHANGED <<toCenter, toGateway>>
    /\ UNCHANGED <<entered, seats, noticed>>

\* The room server runs the same protocol.lua: a client's USER_DISCONNECT takes
\* a user's handler there, and nothing more is written to that user.  The gateway
\* sends its own to the logic server only.
RoomReleases(g, m) ==
    /\ ServerReads(g, Room, m)
    /\ m.event = NoticeEvent
    /\ seats' = Gateway!Erase(seats, m.of)
    /\ UNCHANGED <<entered, noticed, toCenter, toGateway>>

\* CenterClient::OnMsgRecv: a message the center sent on to the server s.
CenterClientReads(s, m) ==
    /\ fromCenter[s] # <<>>
    /\ m = Head(fromCenter[s])
    /\ fromCenter' = [fromCenter EXCEPT ![s] = Tail(@)]
    /\ UNCHANGED <<gatewayVars, centerVars, client, gatewayOf, serverLife,
                   entered, toServer, upstream, centerOf, bounds,
                   noticed>>

\* RoomManager:ClientEnterRoom: the user sits down, plays on the handler h from
\* now on, and is told so through the gateway.
RoomSeats(m) ==
    /\ CenterClientReads(Room, m)
    /\ m.event = Game
    /\ seats' = [x \in (DOMAIN seats \ {y \in DOMAIN seats : seats[y] = m.conn})
                        \cup {m.h} |-> IF x = m.h THEN m.conn ELSE seats[x]]
    /\ SendToServer(Room, ToGateway, m)

\* RoomService:GameSettlement changes users and answers nothing.  The center's
\* answer to a registration carries the center's session id of the server; the
\* request that OnCenterRequest queues under it is popped again by
\* CenterRequest, and no user is of that handler.
CenterMessageIgnored(s, m) ==
    /\ CenterClientReads(s, m)
    /\ m.event \in {Settlement, Register}
    /\ UNCHANGED <<seats, toCenter, toGateway>>

\* A round ends at the table of the user of h: the room server tells the user,
\* through the gateway, and the logic server, through the center.
RoomSettles(h) ==
    /\ h \in DOMAIN seats
    /\ gatewayOf[Room] # NoConnection
    /\ settlements < MaxSettlements
    /\ settlements' = settlements + 1
    /\ toGateway' = [toGateway EXCEPT ![Room] =
                       SentToGateway(Room, Message(Other, h, 0, seats[h]))]
    /\ toCenter' = SentToCenter(Room, Message(Settlement, 0, 0, seats[h]))
    /\ UNCHANGED <<gatewayVars, centerVars, client, serverVars, toServer,
                   upstream, centerOf, fromCenter, requests,
                   restarts, noticed>>
-----------------------------------------------------------------------------
(* The center. *)

\* CenterServer::TransferToClient: what the center writes to the process p is
\* lost when p has died.
CenterWrites(p, m) ==
    fromCenter' = IF p \in {Process(s) : s \in Servers}
                  THEN [fromCenter EXCEPT ![p[1]] = Append(@, m)]
                  ELSE fromCenter

\* CNet.SendToLogicServer: the answer to the process p, on its handler id.
SendToLogicServer(p, m) ==
    LET to == Center!GetHandlerById(cSessions[p])
    IN  IF to = NoConnection THEN UNCHANGED fromCenter ELSE CenterWrites(to, m)

\* TCPSession::CenterServerProcessNetData: a message of the process p for the
\* center itself (the registration of its type, which is answered), or one that
\* is transferred to the server registered under the type it is for.
CenterDispatches(p) ==
    /\ p \in DOMAIN cSessions
    /\ toCenter[p] # <<>>
    /\ toCenter' = [toCenter EXCEPT ![p] = Tail(@)]
    /\ LET m    == Head(toCenter[p])
           type == IF m.event = Settlement THEN Logic ELSE Room
           to   == Center!Target(type, p)
       IN  IF m.event = Register
           THEN /\ Center!SetServerTypeToHandler(p[1], cSessions[p])
                /\ SendToLogicServer(p, m)
           ELSE /\ IF to = NoConnection
                   THEN UNCHANGED fromCenter
                   ELSE CenterWrites(to, m)
                /\ UNCHANGED centerTables
    /\ UNCHANGED <<gatewayVars, centerLife, client, serverVars, linkVars,
                   centerOf, bounds, noticed>>

\* CenterServer::OnMsgRecv reads the end of the connection of a dead process.
CenterReadsEOF(p) ==
    /\ p \in DOMAIN cSessions
    /\ p \notin {Process(s) : s \in Servers}
    /\ toCenter[p] = <<>>
    /\ Center!OnEOF(p)
    /\ UNCHANGED <<gatewayVars, centerLife, client, serverVars, linkVars,
                   centerLinks, bounds, noticed>>
-----------------------------------------------------------------------------
(* A process dies and is started again.  Its peers read the end of their   *)
(* connection and do nothing about it: the branch for reconnecting is empty. *)

Dies == restarts < MaxRestarts /\ restarts' = restarts + 1

\* GatewayClient::Init and OnConnect: the gateway connects to every server ...
GatewayConnects == upstream' = Servers /\ toGateway' = [s \in Servers |-> <<>>]

\* ... and GameLogicServer::OnNewConnection: its connection takes the place of
\* the one before.
ServersAccept == gatewayOf' = [s \in Servers |-> gatewayLife']

\* gateway/main.cpp: handler ids start again at 1, and every client has to
\* connect again.
GatewayRestarts ==
    /\ Dies
    /\ gatewayLife' = gatewayLife + 1
    /\ Gateway!Restarted
    /\ client' = [c \in Connections |-> [client[c] EXCEPT !.state = "closed"]]
    /\ GatewayConnects
    /\ ServersAccept
    /\ UNCHANGED <<centerVars, serverLife, entered, seats, toServer, centerLinks,
                   requests, settlements, noticed>>

\* GameLogicServer::Init: no gateway is connected ...
ServerListens(s) ==
    /\ gatewayOf' = [gatewayOf EXCEPT ![s] = NoConnection]
    /\ upstream' = upstream \ {s}
    /\ toServer' = [l \in DOMAIN toServer |->
                      IF l[2] = s THEN <<>> ELSE toServer[l]]

\* ... and LuaEngine::InitState: no users are known.
InitState(s) ==
    /\ entered' = IF s = Logic THEN Gateway!Empty ELSE entered
    /\ seats' = IF s = Room THEN Gateway!Empty ELSE seats

\* CenterClient::Init, OnConnect and RegisterToCenter.
ConnectsToCenter(s) ==
    /\ centerOf' = [centerOf EXCEPT ![s] = centerLife]
    /\ Center!OnNewConnection(Process(s)')
    /\ toCenter' = [toCenter EXCEPT ![Process(s)'] = <<Message(Register, 0, 0, 0)>>]
    /\ fromCenter' = [fromCenter EXCEPT ![s] = <<>>]

\* logic/main.cpp: a server starts, connects to the center and registers.
ServerRestarts(s) ==
    /\ Dies
    /\ serverLife' = [serverLife EXCEPT ![s] = @ + 1]
    /\ ServerListens(s)
    /\ InitState(s)
    /\ ConnectsToCenter(s)
    /\ UNCHANGED <<gatewayVars, centerLife, client, toGateway, requests,
                   settlements, noticed>>

\* center/main.cpp: the center forgets every server.
CenterRestarts ==
    /\ Dies
    /\ centerLife' = centerLife + 1
    /\ Center!Restart
    /\ toCenter' = [p \in DOMAIN toCenter |-> <<>>]
    /\ UNCHANGED <<gatewayVars, client, serverVars, linkVars, centerOf,
                   fromCenter, requests, settlements, noticed>>
-----------------------------------------------------------------------------
GatewayActs ==
    \/ GatewayAccepts
    \/ \E c \in Connections :
         \/ \E s \in Servers, event \in {Enter, Game, Other, NoticeEvent},
              of \in 0..MaxConnections, claimed \in 0..MaxConnections :
              /\ s = Room => event \in {Other, NoticeEvent}
              /\ event # NoticeEvent => of = 0
              /\ event = NoticeEvent => of \in Named
              /\ GatewayForwards(c, s, event, of, claimed)
         \/ GatewayReadsEOF(c)
         \/ ConnectionReset(c)
    \/ \E s \in Servers : GatewayTransfersToClient(s)

\* LuaEngine::CallLua and OnClientRequest: the script of the server s handles m.
CallLua(g, s, m) ==
    \/ s = Logic /\ (LogicEnters(g, m) \/ LogicExecutes(g, m) \/ LogicReleases(g, m))
    \/ s = Room  /\ (RoomExecutes(g, m) \/ RoomReleases(g, m))

\* LuaEngine::CallCenterRequestLua and OnCenterRequest.
CallCenterRequestLua(s, m) ==
    \/ s = Room /\ RoomSeats(m)
    \/ CenterMessageIgnored(s, m)

\* GameLogicServer::_ProcessNetData, of a packet from the gateway or the center.
ServerReadsGateway(g, s) ==
    \E i \in DOMAIN toServer[g, s] : CallLua(g, s, toServer[g, s][i])

ServerReadsCenter(s) ==
    \E i \in DOMAIN fromCenter[s] : CallCenterRequestLua(s, fromCenter[s][i])

ServerActs ==
    \/ \E g \in Lives, s \in Servers : ServerReadsGateway(g, s)
    \/ \E s \in Servers : ServerReadsCenter(s)
    \/ \E h \in DOMAIN seats : RoomSettles(h)

CenterActs ==
    \E p \in Servers \X Lives :
      CenterDispatches(p) \/ CenterReadsEOF(p)

Restarts ==
    GatewayRestarts \/ (\E s \in Servers : ServerRestarts(s)) \/ CenterRestarts

Next == GatewayActs \/ ServerActs \/ CenterActs \/ Restarts

\* The loop of each process reads a connection that has something to read.
\* Clients, rounds, resets and restarts are not fair.
Fairness ==
    /\ WF_vars(\E s \in Servers : GatewayTransfersToClient(s))
    /\ \A s \in Servers :
         WF_vars(ServerReadsCenter(s) \/ \E g \in Lives : ServerReadsGateway(g, s))
    /\ WF_vars(\E p \in Servers \X Lives : CenterDispatches(p))

Spec == Init /\ [][Next]_vars /\ Fairness
-----------------------------------------------------------------------------
Ids == 0..MaxConnections
Messages == [event : {Enter, Game, Other, NoticeEvent, Register, Settlement},
             h : Ids, of : Ids, conn : Ids]

\* Types, and that the gateway's tables are about the same connections:
\* those it has read no end of.  OnMsgRecv looks a connection up in one table,
\* RemoveClient in another.
TypeOK ==
    /\ gatewayLife \in Lives /\ sessionId \in Ids
    /\ DOMAIN sessions \subseteq Connections
    /\ handlerToId = sessions
    /\ DOMAIN sessions = {c \in Connections : client[c].life = gatewayLife
                                             /\ client[c].state # "closed"}
    /\ \A c \in DOMAIN sessions : sessions[c] = client[c].id
    /\ \A id \in DOMAIN idToHandler : client[idToHandler[id]].id = id
    /\ client \in Seq([life : Lives, id : Ids, state : {"open", "closed", "reset"}])
    /\ toServer \in [Lives \X Servers -> Seq(Messages)]
    /\ toGateway \in [Servers -> Seq(Messages)]
    /\ fromCenter \in [Servers -> Seq(Messages)]
    /\ toCenter \in [Servers \X Lives -> Seq(Messages)]
    /\ gatewayOf \in [Servers -> Lives \cup {NoConnection}]
    /\ DOMAIN entered \subseteq Ids /\ DOMAIN seats \subseteq Ids

\* The connection a user entered on, at the logic server (GetHandlerId).
Entered(c) == \E h \in DOMAIN entered : entered[h] = c

\* A USER_DISCONNECT of the gateway's own.
OfGateway(m) == m.event = NoticeEvent /\ m.h = 0

\* The gateway's USER_DISCONNECT is told of connections that are gone, after
\* everything they sent, so that no request of a connection is executed after it
\* and no user is entered again on it: a user released this way stays released.
\* (A client's own USER_DISCONNECT promises nothing: it may name a connection
\* that is open and goes on.)  As long as the gateway has not been restarted:
\* what the old one sent may be read after what the new one sends.
NoticeIsLast ==
    gatewayLife = 0 =>
      /\ \A i \in DOMAIN toServer[0, Logic] :
           LET m == toServer[0, Logic][i]
           IN  /\ OfGateway(m) => m.of = m.conn /\ client[m.conn].state # "open"
               /\ m.conn \in noticed => OfGateway(m)
               /\ \A j \in 1..(i - 1) : (/\ OfGateway(toServer[0, Logic][j])
                                        /\ toServer[0, Logic][j].conn = m.conn)
                                       => OfGateway(m)
      /\ \A c \in noticed : ~Entered(c)

\* What a server writes under a handler id reaches only the connection whose
\* request or seat it is about: TransferToClient relies on ids that are not used
\* again.  A restarted gateway uses them again, while the servers go on writing
\* to those of the old one.
RepliesReachTheirConnection ==
    gatewayLife = 0 =>
      \A s \in Servers : \A i \in DOMAIN toGateway[s] :
        LET m == toGateway[s][i]
        IN  m.h \in DOMAIN idToHandler => idToHandler[m.h] = m.conn

\* A request is executed for the user who entered on the connection it came
\* from, whatever handler id the client put into the packet; the servers know a
\* client by nothing else.  USER_DISCONNECT is the one request that acts for the
\* handler its body names.
ActsForOwner ==
    gatewayLife = 0 =>
      \A i \in DOMAIN toServer[0, Logic] :
        LET m == toServer[0, Logic][i]
        IN  (m.event # NoticeEvent /\ m.h \in DOMAIN entered) => entered[m.h] = m.conn

\* An ENTER_GAME that the logic server sends on while the room server is
\* registered seats its user, if no process is restarted.  The center drops it,
\* without telling anybody, before the registration and after a restart.
SentOnIsSeated ==
    \A c \in 1..MaxConnections :
      (/\ Room \in DOMAIN serverTypeToHandler
       /\ \E i \in DOMAIN toCenter[Logic, 0] :
            toCenter[Logic, 0][i].event = Game /\ toCenter[Logic, 0][i].conn = c)
      ~> (restarts > 0 \/ \E h \in DOMAIN seats : seats[h] = c)

\* A message to a connection that is gone from the gateway's tables makes the
\* logic server release its user, if no process is restarted: the only way a
\* closed connection is ever noticed.
WrittenToIsReleased ==
    \A c \in 1..MaxConnections :
      (/\ Entered(c) /\ client[c].id \notin DOMAIN idToHandler
       /\ \E s \in Servers : \E i \in DOMAIN toGateway[s] :
            toGateway[s][i].h = client[c].id)
      ~> (restarts > 0 \/ ~Entered(c))
=============================================================================
