--------------------------- MODULE NetworkProofs ---------------------------
(***************************************************************************)
(* What Network guarantees for every number of connections, requests,      *)
(* settlements and restarts.                                               *)
(***************************************************************************)
EXTENDS Network, SequenceTheorems, TLAPS

\* The records of connections.
ClientRecords == [life : Lives, id : Ids, state : {"open", "closed", "reset"}]

\* The gateway's tables and clients.  Its process is started at most once more
\* for every restart, and handler ids are counted with the connections.
TablesOK ==
    /\ restarts \in Nat /\ gatewayLife \in Nat
    /\ gatewayLife <= restarts /\ restarts <= MaxRestarts
    /\ client \in Seq(ClientRecords)
    /\ sessionId \in Nat /\ sessionId <= Len(client) /\ Len(client) <= MaxConnections
    /\ handlerToId = sessions
    /\ DOMAIN sessions = {c \in Connections : client[c].life = gatewayLife
                                             /\ client[c].state # "closed"}
    /\ \A c \in DOMAIN sessions : sessions[c] = client[c].id
    /\ \A id \in DOMAIN idToHandler :
         /\ id \in Ids \ {0} /\ idToHandler[id] \in Connections
         /\ client[idToHandler[id]].id = id

LinksOK ==
    /\ toServer \in [Lives \X Servers -> Seq(Messages)]
    /\ toGateway \in [Servers -> Seq(Messages)]
    /\ fromCenter \in [Servers -> Seq(Messages)]
    /\ toCenter \in [Servers \X Lives -> Seq(Messages)]

UsersOK ==
    /\ gatewayOf \in [Servers -> Lives \cup {NoConnection}]
    /\ DOMAIN entered \subseteq Ids /\ DOMAIN seats \subseteq Ids
    /\ \A h \in DOMAIN entered : entered[h] \in Ids
    /\ \A h \in DOMAIN seats : seats[h] \in Ids

TypeInv == TablesOK /\ LinksOK /\ UsersOK

\* The parts of TypeInv are TypeOK and the bounds it needs to be inductive.
LEMMA TypeInvImpliesTypeOK == TypeInv => TypeOK
<1> SUFFICES ASSUME TypeInv PROVE TypeOK
  OBVIOUS
<1>1. gatewayLife \in Lives /\ sessionId \in Ids
  BY NetworkAssumption DEF TypeInv, TablesOK, Lives, Ids
<1>2. DOMAIN sessions \subseteq Connections
  BY DEF TypeInv, TablesOK
<1> QED BY <1>1, <1>2
         DEF TypeInv, TablesOK, LinksOK, UsersOK, TypeOK, ClientRecords

-----------------------------------------------------------------------------
(* Links: a message is appended to one, or the first one of it is taken. *)

LEMMA Sent ==
    ASSUME NEW S, NEW T, NEW f \in [S -> Seq(T)], NEW m \in T, NEW x
    PROVE  [f EXCEPT ![x] = Append(@, m)] \in [S -> Seq(T)]
<1>1. \A y \in S : Append(f[y], m) \in Seq(T)
  OBVIOUS
<1> QED BY <1>1

LEMMA Received ==
    ASSUME NEW S, NEW T, NEW f \in [S -> Seq(T)], NEW x \in S, f[x] # <<>>
    PROVE  /\ [f EXCEPT ![x] = Tail(@)] \in [S -> Seq(T)]
           /\ Head(f[x]) \in T
<1>1. f[x] \in Seq(T)
  OBVIOUS
<1>2. Tail(f[x]) \in Seq(T) /\ Head(f[x]) \in T
  BY <1>1
<1> QED BY <1>2

\* SendToGateway and SendToCenter, of a message of any set T.
LEMMA SendToServerType ==
    ASSUME NEW T, toGateway \in [Servers -> Seq(T)],
           NEW U, toCenter \in [Servers \X Lives -> Seq(U)],
           NEW s \in Servers, NEW type, NEW m \in T \cap U,
           SendToServer(s, type, m)
    PROVE  /\ toGateway' \in [Servers -> Seq(T)]
           /\ toCenter' \in [Servers \X Lives -> Seq(U)]
<1>1. toCenter' \in {toCenter, [toCenter EXCEPT ![Process(s)] = Append(@, m)]}
  BY DEF SendToServer, SentToCenter
<1>2. toGateway' \in {toGateway, [toGateway EXCEPT ![s] = Append(@, m)]}
  <2>1. [toGateway EXCEPT ![s] = toGateway[s]] = toGateway
    OBVIOUS
  <2>2. [toGateway EXCEPT ![s] = Append(@, m)]
          = [toGateway EXCEPT ![s] = Append(toGateway[s], m)]
    OBVIOUS
  <2> QED BY <2>1, <2>2 DEF SendToServer, SentToGateway
<1>3. [toCenter EXCEPT ![Process(s)] = Append(@, m)]
        \in [Servers \X Lives -> Seq(U)]
  BY Sent
<1>4. [toGateway EXCEPT ![s] = Append(@, m)] \in [Servers -> Seq(T)]
  BY Sent
<1> QED BY <1>1, <1>2, <1>3, <1>4

\* TransferToLogicServer, of a message of any set T.
LEMMA TransferType ==
    ASSUME NEW T, toServer \in [Lives \X Servers -> Seq(T)],
           NEW s, NEW m \in T, TransferToLogicServer(s, m)
    PROVE  toServer' \in [Lives \X Servers -> Seq(T)]
<1>1. toServer' \in {toServer,
                     [toServer EXCEPT ![<<gatewayLife, s>>] = Append(@, m)]}
  BY DEF TransferToLogicServer
<1>2. [toServer EXCEPT ![<<gatewayLife, s>>] = Append(@, m)]
        \in [Lives \X Servers -> Seq(T)]
  BY Sent
<1> QED BY <1>1, <1>2

LEMMA CenterWritesType ==
    ASSUME NEW T, fromCenter \in [Servers -> Seq(T)],
           NEW p, NEW m \in T, CenterWrites(p, m)
    PROVE  fromCenter' \in [Servers -> Seq(T)]
<1>1. fromCenter' \in {fromCenter, [fromCenter EXCEPT ![p[1]] = Append(@, m)]}
  BY DEF CenterWrites
<1>2. [fromCenter EXCEPT ![p[1]] = Append(@, m)] \in [Servers -> Seq(T)]
  BY Sent
<1> QED BY <1>1, <1>2

\* What the gateway's two operations do with its tables.
LEMMA AcceptsTables ==
    ASSUME TypeInv, GatewayAccepts
    PROVE  /\ Len(client') = Len(client) + 1 /\ Len(client) < MaxConnections
           /\ sessionId' = sessionId + 1
           /\ client' = Append(client, [life |-> gatewayLife,
                                        id |-> sessionId + 1, state |-> "open"])
           /\ sessions' = [x \in DOMAIN sessions \cup {Len(client) + 1} |->
                             IF x \in DOMAIN sessions THEN sessions[x]
                             ELSE sessionId + 1]
           /\ handlerToId' = sessions'
           /\ idToHandler' = [x \in DOMAIN idToHandler \cup {sessionId + 1} |->
                                IF x \in DOMAIN idToHandler THEN idToHandler[x]
                                ELSE Len(client) + 1]
  BY DEF TypeInv, TablesOK, GatewayAccepts, Gateway!OnNewConnection,
         Gateway!AddSession, Gateway!NewId, Gateway!Insert

LEMMA EOFTables ==
    ASSUME NEW c, Gateway!OnEOF(c), handlerToId = sessions
    PROVE  /\ c \in DOMAIN sessions /\ sessionId' = sessionId
           /\ sessions' = [x \in DOMAIN sessions \ {c} |-> sessions[x]]
           /\ handlerToId' = sessions'
           /\ \E id \in {sessions[c], 0} :
                idToHandler' = [x \in DOMAIN idToHandler \ {id} |-> idToHandler[x]]
  BY DEF Gateway!OnEOF, Gateway!Known, Gateway!RemoveClient, Gateway!Erase

LEMMA TransferTables ==
    ASSUME NEW h, Gateway!TransferToClient(h)
    PROVE  /\ UNCHANGED <<sessionId, sessions, handlerToId>>
           /\ \/ Gateway!GetHandlerById(h) # NoConnection /\ UNCHANGED idToHandler
              \/ /\ Gateway!GetHandlerById(h) = NoConnection
                 /\ idToHandler' = [x \in DOMAIN idToHandler \ {h} |-> idToHandler[x]]
  BY DEF Gateway!TransferToClient, Gateway!NotifyUserSocketDisconnect,
         Gateway!Erase, Gateway!tables

-----------------------------------------------------------------------------
(* Every step keeps the types. *)

LEMMA StateChanged ==
    ASSUME NEW s \in Seq(ClientRecords), NEW c \in DOMAIN s,
           NEW st \in {"open", "closed", "reset"},
           NEW t, t = [s EXCEPT ![c].state = st]
    PROVE  /\ t \in Seq(ClientRecords) /\ Len(t) = Len(s) /\ DOMAIN t = DOMAIN s
           /\ \A x \in DOMAIN s : x # c => t[x] = s[x]
           /\ \A x \in DOMAIN s : t[x].life = s[x].life /\ t[x].id = s[x].id
           /\ t[c].state = st
<1> PICK r : r = [s[c] EXCEPT !.state = st]
  OBVIOUS
<1>1. s[c] \in ClientRecords
  OBVIOUS
<1>2. /\ r \in ClientRecords /\ r.state = st
      /\ r.life = s[c].life /\ r.id = s[c].id
  BY <1>1 DEF ClientRecords
<1>3. t = [s EXCEPT ![c] = r]
  OBVIOUS
<1>4. /\ t \in Seq(ClientRecords) /\ Len(t) = Len(s) /\ DOMAIN t = DOMAIN s
      /\ \A x \in DOMAIN s : x # c => t[x] = s[x]
      /\ t[c] = r
  <2> HIDE DEF ClientRecords
  <2> QED BY <1>2, <1>3
<1> QED BY <1>2, <1>4

\* Connections and their records, whatever becomes of the tables.
LEMMA TablesKept ==
    ASSUME TablesOK,
           UNCHANGED <<gatewayLife, sessionId, sessions, handlerToId, client, restarts>>,
           \/ UNCHANGED idToHandler
           \/ \E h : idToHandler' = [x \in DOMAIN idToHandler \ {h} |-> idToHandler[x]]
    PROVE  TablesOK'
<1>1. \A id \in DOMAIN idToHandler' :
        id \in DOMAIN idToHandler /\ idToHandler'[id] = idToHandler[id]
  OBVIOUS
<1> QED BY <1>1 DEF TablesOK, Connections

LEMMA AcceptsType == ASSUME TypeInv, GatewayAccepts PROVE TypeInv'
<1>0. /\ TablesOK /\ LinksOK /\ UsersOK
      /\ UNCHANGED <<gatewayLife, restarts, toServer, toGateway, fromCenter,
                     toCenter, gatewayOf, entered, seats>>
  BY DEF TypeInv, GatewayAccepts, serverVars, linkVars, centerLinks, bounds
<1> PICK n : n = Len(client) + 1
  OBVIOUS
<1> DEFINE new == [life |-> gatewayLife, id |-> sessionId + 1, state |-> "open"]
<1>1. /\ Len(client) \in Nat /\ n \in Nat /\ Connections = 1..Len(client)
      /\ client \in Seq(ClientRecords) /\ sessionId \in Nat /\ gatewayLife \in Lives
      /\ MaxConnections \in Nat /\ Len(client) < MaxConnections
      /\ sessionId <= Len(client)
  BY <1>0, AcceptsTables, NetworkAssumption DEF TablesOK, Connections, Lives
<1>2. new \in ClientRecords
  BY <1>1 DEF Ids, ClientRecords
<1>3. client' = Append(client, new)
  BY AcceptsTables
<1> HIDE DEF new
<1>4. /\ client' \in Seq(ClientRecords) /\ Connections' = Connections \cup {n}
      /\ client'[n] = new /\ n \notin Connections
      /\ \A c \in Connections : client'[c] = client[c]
      /\ Len(client') = n
  BY <1>1, <1>2, <1>3 DEF Connections
<1>5. /\ sessions' = [x \in DOMAIN sessions \cup {n} |->
                        IF x \in DOMAIN sessions THEN sessions[x] ELSE sessionId + 1]
      /\ idToHandler' = [x \in DOMAIN idToHandler \cup {sessionId + 1} |->
                           IF x \in DOMAIN idToHandler THEN idToHandler[x] ELSE n]
      /\ handlerToId' = sessions' /\ sessionId' = sessionId + 1
  BY AcceptsTables
<1>6. DOMAIN sessions' = {c \in Connections' : client'[c].life = gatewayLife
                                              /\ client'[c].state # "closed"}
  <2>1. DOMAIN sessions = {c \in Connections : client[c].life = gatewayLife
                                              /\ client[c].state # "closed"}
    BY <1>0 DEF TablesOK
  <2>2. client'[n].life = gatewayLife /\ client'[n].state # "closed"
    BY <1>4 DEF new
  <2> QED BY <1>4, <1>5, <2>1, <2>2
<1>7. \A c \in DOMAIN sessions' : sessions'[c] = client'[c].id
  <2>1. DOMAIN sessions \subseteq Connections
        /\ \A c \in DOMAIN sessions : sessions[c] = client[c].id
    BY <1>0 DEF TablesOK
  <2>2. client'[n].id = sessionId + 1
    BY <1>4 DEF new
  <2> QED BY <1>4, <1>5, <2>1, <2>2
<1>8. \A id \in DOMAIN idToHandler' :
         /\ id \in Ids \ {0} /\ idToHandler'[id] \in Connections'
         /\ client'[idToHandler'[id]].id = id
  <2> SUFFICES ASSUME NEW id \in DOMAIN idToHandler'
               PROVE  /\ id \in Ids \ {0} /\ idToHandler'[id] \in Connections'
                      /\ client'[idToHandler'[id]].id = id
    OBVIOUS
  <2>1. CASE id \in DOMAIN idToHandler
    <3>1. idToHandler'[id] = idToHandler[id]
      BY <1>5, <2>1
    <3> QED BY <1>0, <1>4, <2>1, <3>1 DEF TablesOK
  <2>2. CASE id \notin DOMAIN idToHandler
    <3>1. id = sessionId + 1 /\ idToHandler'[id] = n
      BY <1>5, <2>2
    <3>2. client'[n].id = sessionId + 1
      BY <1>4 DEF new
    <3>3. id \in Ids \ {0}
      BY <1>1, <3>1 DEF Ids
    <3> QED BY <1>4, <3>1, <3>2, <3>3
  <2> QED BY <2>1, <2>2
<1>9. TablesOK'
  <2>1. sessionId' \in Nat /\ sessionId' <= Len(client') /\ Len(client') <= MaxConnections
    BY <1>1, <1>4, <1>5
  <2> QED BY <1>0, <1>4, <1>5, <1>6, <1>7, <1>8, <2>1 DEF TablesOK
<1> QED BY <1>0, <1>9 DEF TypeInv, LinksOK, UsersOK

LEMMA ForwardsType ==
    ASSUME TypeInv, NEW c \in Connections, NEW s \in Servers,
           NEW event \in {Enter, Game, Other, NoticeEvent}, NEW of \in Ids,
           NEW claimed, GatewayForwards(c, s, event, of, claimed)
    PROVE  /\ TypeInv' /\ c \in DOMAIN sessions
           /\ Message(event, sessions[c], of, c) \in Messages
           /\ TransferToLogicServer(s, Message(event, sessions[c], of, c))
<1>0. /\ TablesOK /\ LinksOK /\ UsersOK /\ c \in DOMAIN sessions
      /\ TransferToLogicServer(s, Message(event, sessions[c], of, c))
      /\ UNCHANGED <<gatewayVars, client, restarts, toGateway, fromCenter,
                     toCenter, gatewayOf, entered, seats>>
  BY DEF TypeInv, GatewayForwards, serverVars, centerLinks, Gateway!Known,
         Gateway!Stamped
<1>1. Message(event, sessions[c], of, c) \in Messages
  <2>1. c \in Ids
    BY <1>0, NetworkAssumption DEF TablesOK, Connections, Ids
  <2>2. sessions[c] \in Ids
    <3>1. client[c] \in ClientRecords /\ sessions[c] = client[c].id
      BY <1>0 DEF TablesOK, Connections
    <3> QED BY <3>1 DEF ClientRecords
  <2> QED BY <2>1, <2>2 DEF Message, Messages
<1>2. toServer' \in [Lives \X Servers -> Seq(Messages)]
  BY <1>0, <1>1, TransferType DEF LinksOK
<1>3. TablesOK'
  BY <1>0, TablesKept DEF gatewayVars
<1> QED BY <1>0, <1>1, <1>2, <1>3 DEF TypeInv, LinksOK, UsersOK

LEMMA EOFType ==
    ASSUME TypeInv, NEW c \in Connections, GatewayReadsEOF(c)
    PROVE  TypeInv'
<1>0. /\ TablesOK /\ LinksOK /\ UsersOK
      /\ client' = [client EXCEPT ![c].state = "closed"]
      /\ UNCHANGED <<gatewayLife, restarts, toServer, toGateway, fromCenter,
                     toCenter, gatewayOf, entered, seats>>
  BY DEF TypeInv, GatewayReadsEOF, serverVars, linkVars, centerLinks, bounds
<1>1. /\ c \in DOMAIN sessions /\ sessionId' = sessionId
      /\ sessions' = [x \in DOMAIN sessions \ {c} |-> sessions[x]]
      /\ handlerToId' = sessions'
      /\ \E id : idToHandler' = [x \in DOMAIN idToHandler \ {id} |-> idToHandler[x]]
  BY <1>0, EOFTables DEF GatewayReadsEOF, TablesOK
<1>2. client \in Seq(ClientRecords) /\ c \in DOMAIN client
  BY <1>0 DEF TablesOK, Connections
<1>3. /\ client' \in Seq(ClientRecords) /\ Len(client') = Len(client)
      /\ Connections' = Connections
      /\ \A x \in Connections : x # c => client'[x] = client[x]
      /\ \A x \in Connections : /\ client'[x].life = client[x].life
                                /\ client'[x].id = client[x].id
      /\ client'[c].state = "closed"
  <2> PICK t : t = client'
    OBVIOUS
  <2>1. "closed" \in {"open", "closed", "reset"} /\ t = [client EXCEPT ![c].state = "closed"]
    BY <1>0
  <2>2. /\ t \in Seq(ClientRecords) /\ Len(t) = Len(client)
        /\ DOMAIN t = DOMAIN client
        /\ \A x \in DOMAIN client : x # c => t[x] = client[x]
        /\ \A x \in DOMAIN client : /\ t[x].life = client[x].life
                                    /\ t[x].id = client[x].id
        /\ t[c].state = "closed"
    BY <1>2, <2>1, StateChanged
  <2> QED BY <2>2 DEF Connections
<1>4. \A x \in Connections : client'[x].id = client[x].id
  BY <1>3
<1>5. DOMAIN sessions' = {x \in Connections' : client'[x].life = gatewayLife
                                              /\ client'[x].state # "closed"}
  <2>1. DOMAIN sessions = {x \in Connections : client[x].life = gatewayLife
                                              /\ client[x].state # "closed"}
    BY <1>0 DEF TablesOK
  <2> QED BY <1>1, <1>3, <1>4, <2>1
<1>6. \A x \in DOMAIN sessions' : sessions'[x] = client'[x].id
  BY <1>0, <1>1, <1>3, <1>4 DEF TablesOK
<1>7. \A id \in DOMAIN idToHandler' :
         /\ id \in Ids \ {0} /\ idToHandler'[id] \in Connections'
         /\ client'[idToHandler'[id]].id = id
  <2>1. \A id \in DOMAIN idToHandler' :
          id \in DOMAIN idToHandler /\ idToHandler'[id] = idToHandler[id]
    BY <1>1
  <2> QED BY <1>0, <1>3, <1>4, <2>1 DEF TablesOK
<1>8. TablesOK'
  BY <1>0, <1>1, <1>3, <1>5, <1>6, <1>7 DEF TablesOK
<1> QED BY <1>0, <1>8 DEF TypeInv, LinksOK, UsersOK

LEMMA ResetType ==
    ASSUME TypeInv, NEW c \in Connections, ConnectionReset(c)
    PROVE  TypeInv'
<1>0. /\ TablesOK /\ LinksOK /\ UsersOK
      /\ client' = [client EXCEPT ![c].state = "reset"]
      /\ client[c].state = "open"
      /\ UNCHANGED <<gatewayVars, restarts, toServer, toGateway, fromCenter,
                     toCenter, gatewayOf, entered, seats>>
  BY DEF TypeInv, ConnectionReset, serverVars, linkVars, centerLinks, bounds
<1>2. client \in Seq(ClientRecords) /\ c \in DOMAIN client
  BY <1>0 DEF TablesOK, Connections
<1>3. /\ client' \in Seq(ClientRecords) /\ Len(client') = Len(client)
      /\ Connections' = Connections
      /\ \A x \in Connections : x # c => client'[x] = client[x]
      /\ \A x \in Connections : /\ client'[x].life = client[x].life
                                /\ client'[x].id = client[x].id
      /\ client'[c].state = "reset"
  <2> PICK t : t = client'
    OBVIOUS
  <2>1. "reset" \in {"open", "closed", "reset"} /\ t = [client EXCEPT ![c].state = "reset"]
    BY <1>0
  <2>2. /\ t \in Seq(ClientRecords) /\ Len(t) = Len(client)
        /\ DOMAIN t = DOMAIN client
        /\ \A x \in DOMAIN client : x # c => t[x] = client[x]
        /\ \A x \in DOMAIN client : /\ t[x].life = client[x].life
                                    /\ t[x].id = client[x].id
        /\ t[c].state = "reset"
    BY <1>2, <2>1, StateChanged
  <2> QED BY <2>2 DEF Connections
<1>4. \A x \in Connections : client'[x].id = client[x].id
  BY <1>3
<1>5. DOMAIN sessions' = {x \in Connections' : client'[x].life = gatewayLife
                                              /\ client'[x].state # "closed"}
  <2>1. DOMAIN sessions = {x \in Connections : client[x].life = gatewayLife
                                              /\ client[x].state # "closed"}
    BY <1>0 DEF TablesOK
  <2> QED BY <1>0, <1>3, <1>4, <2>1 DEF gatewayVars
<1>6. \A x \in DOMAIN sessions' : sessions'[x] = client'[x].id
  BY <1>0, <1>4 DEF TablesOK, gatewayVars
<1>7. \A id \in DOMAIN idToHandler' :
         /\ id \in Ids \ {0} /\ idToHandler'[id] \in Connections'
         /\ client'[idToHandler'[id]].id = id
  BY <1>0, <1>3, <1>4 DEF TablesOK, gatewayVars
<1>8. TablesOK'
  BY <1>0, <1>3, <1>5, <1>6, <1>7 DEF TablesOK, gatewayVars
<1> QED BY <1>0, <1>8 DEF TypeInv, LinksOK, UsersOK

LEMMA TransfersType ==
    ASSUME TypeInv, NEW s \in Servers, GatewayTransfersToClient(s)
    PROVE  TypeInv'
<1>0. /\ TablesOK /\ LinksOK /\ UsersOK /\ toGateway[s] # <<>>
      /\ toGateway' = [toGateway EXCEPT ![s] = Tail(@)]
      /\ UNCHANGED <<gatewayLife, client, restarts, fromCenter,
                     toCenter, gatewayOf, entered, seats>>
  BY DEF TypeInv, GatewayTransfersToClient, serverVars, centerLinks, bounds
<1> PICK m : m = Head(toGateway[s])
  OBVIOUS
<1>1. /\ Gateway!TransferToClient(m.h)
      /\ \/ TransferToLogicServer(Logic, Gateway!Notice(m.h, m.conn))
         \/ UNCHANGED toServer
  BY DEF GatewayTransfersToClient
<1>2. m \in Messages /\ toGateway' \in [Servers -> Seq(Messages)]
  BY <1>0, Received DEF LinksOK
<1>3. Gateway!Notice(m.h, m.conn) \in Messages
  BY <1>2, NetworkAssumption DEF Gateway!Notice, Messages, Ids
<1>4. toServer' \in [Lives \X Servers -> Seq(Messages)]
  <2>1. CASE TransferToLogicServer(Logic, Gateway!Notice(m.h, m.conn))
    BY <1>0, <1>3, <2>1, TransferType DEF LinksOK
  <2> QED BY <1>0, <1>1, <2>1 DEF LinksOK
<1>5. TablesOK'
  BY <1>0, <1>1, TransferTables, TablesKept
<1> QED BY <1>0, <1>2, <1>4, <1>5 DEF TypeInv, LinksOK, UsersOK

\* The logic and the room server, reading what the gateway wrote.
LEMMA ReadsType ==
    ASSUME TypeInv, NEW g \in Lives, NEW s \in Servers, NEW m, ServerReads(g, s, m)
    PROVE  /\ TablesOK' /\ m \in Messages
           /\ toServer' \in [Lives \X Servers -> Seq(Messages)]
           /\ UNCHANGED <<fromCenter, gatewayOf, client, gatewayLife, sessionId,
                          sessions, idToHandler, handlerToId>>
<1>0. /\ TablesOK /\ LinksOK
      /\ toServer[<<g, s>>] # <<>> /\ m = Head(toServer[<<g, s>>])
      /\ toServer' = [toServer EXCEPT ![<<g, s>>] = Tail(@)]
      /\ UNCHANGED <<fromCenter, gatewayOf, client, restarts, gatewayLife,
                     sessionId, sessions, idToHandler, handlerToId>>
  BY DEF TypeInv, ServerReads, gatewayVars, bounds
<1>1. <<g, s>> \in Lives \X Servers
  OBVIOUS
<1>2. m \in Messages /\ toServer' \in [Lives \X Servers -> Seq(Messages)]
  BY <1>0, <1>1, Received DEF LinksOK
<1>3. TablesOK'
  BY <1>0, TablesKept
<1> QED BY <1>0, <1>2, <1>3

\* The table of users, when one enters on the handler h and those of gone leave.
LEMMA UsersType ==
    ASSUME NEW f, DOMAIN f \subseteq Ids, \A h \in DOMAIN f : f[h] \in Ids,
           NEW h \in Ids, NEW c \in Ids, NEW gone,
           NEW g, g = [x \in (DOMAIN f \ gone) \cup {h} |-> IF x = h THEN c ELSE f[x]]
    PROVE  DOMAIN g \subseteq Ids /\ \A x \in DOMAIN g : g[x] \in Ids
  OBVIOUS

LEMMA CallLuaType ==
    ASSUME TypeInv, NEW g \in Lives, NEW s \in Servers, NEW m, CallLua(g, s, m)
    PROVE  TypeInv'
<1>0. TablesOK /\ LinksOK /\ UsersOK /\ ServerReads(g, s, m)
  BY DEF TypeInv, CallLua, LogicEnters, LogicExecutes, LogicReleases, RoomExecutes,
         RoomReleases
<1>1. /\ TablesOK' /\ m \in Messages
      /\ toServer' \in [Lives \X Servers -> Seq(Messages)]
      /\ UNCHANGED <<fromCenter, gatewayOf>>
  BY <1>0, ReadsType
<1>2. m.h \in Ids /\ m.conn \in Ids /\ m \in Messages \cap Messages
  BY <1>1 DEF Messages
<1>3. ASSUME NEW t \in Servers, NEW type, SendToServer(t, type, m)
      PROVE  /\ toGateway' \in [Servers -> Seq(Messages)]
             /\ toCenter' \in [Servers \X Lives -> Seq(Messages)]
  BY <1>0, <1>2, <1>3, SendToServerType DEF LinksOK
<1>4. /\ toGateway' \in [Servers -> Seq(Messages)]
      /\ toCenter' \in [Servers \X Lives -> Seq(Messages)]
  <2>1. \/ \E t \in Servers : \E type : SendToServer(t, type, m)
        \/ UNCHANGED <<toCenter, toGateway>>
    BY DEF CallLua, LogicEnters, LogicExecutes, LogicReleases, RoomExecutes,
         RoomReleases, Servers
  <2>2. CASE UNCHANGED <<toCenter, toGateway>>
    BY <1>0, <2>2 DEF LinksOK
  <2> QED BY <1>3, <2>1, <2>2
<1>5. UsersOK'
  <2>1. CASE LogicEnters(g, m)
    <3>1. /\ entered' = [x \in (DOMAIN entered \ {}) \cup {m.h} |->
                           IF x = m.h THEN m.conn ELSE entered[x]]
          /\ seats' = seats
      BY <2>1 DEF LogicEnters
    <3>2. DOMAIN entered' \subseteq Ids /\ \A x \in DOMAIN entered' : entered'[x] \in Ids
      BY <1>0, <1>2, <3>1, UsersType DEF UsersOK
    <3> QED BY <1>0, <1>1, <3>1, <3>2 DEF UsersOK
  <2>2. CASE LogicReleases(g, m)
    <3>1. /\ entered' = [x \in DOMAIN entered \ {m.of} |-> entered[x]]
          /\ seats' = seats
      BY <2>2 DEF LogicReleases, Gateway!Erase
    <3> QED BY <1>0, <1>1, <3>1 DEF UsersOK
  <2>3. CASE RoomReleases(g, m)
    <3>1. /\ seats' = [x \in DOMAIN seats \ {m.of} |-> seats[x]]
          /\ entered' = entered
      BY <2>3 DEF RoomReleases, Gateway!Erase
    <3> QED BY <1>0, <1>1, <3>1 DEF UsersOK
  <2>4. CASE LogicExecutes(g, m) \/ RoomExecutes(g, m)
    BY <1>0, <1>1, <2>4 DEF LogicExecutes, RoomExecutes, UsersOK
  <2> QED BY <2>1, <2>2, <2>3, <2>4 DEF CallLua
<1>6. LinksOK'
  BY <1>0, <1>1, <1>4 DEF LinksOK
<1> QED BY <1>1, <1>5, <1>6 DEF TypeInv

\* What the center sent on, and the seats.
LEMMA CenterReadType ==
    ASSUME TypeInv, NEW s \in Servers, NEW m, CenterClientReads(s, m)
    PROVE  /\ TablesOK' /\ m \in Messages
           /\ fromCenter' \in [Servers -> Seq(Messages)]
           /\ UNCHANGED <<toServer, gatewayOf, client, gatewayLife, sessionId,
                          sessions, idToHandler, handlerToId, entered, noticed>>
<1>0. /\ TablesOK /\ LinksOK
      /\ fromCenter[s] # <<>> /\ m = Head(fromCenter[s])
      /\ fromCenter' = [fromCenter EXCEPT ![s] = Tail(@)]
      /\ UNCHANGED <<toServer, gatewayOf, client, restarts, gatewayLife,
                     sessionId, sessions, idToHandler, handlerToId, entered, noticed>>
  BY DEF TypeInv, CenterClientReads, gatewayVars, bounds
<1>2. m \in Messages /\ fromCenter' \in [Servers -> Seq(Messages)]
  BY <1>0, Received DEF LinksOK
<1>3. TablesOK'
  BY <1>0, TablesKept
<1> QED BY <1>0, <1>2, <1>3

LEMMA CallCenterType ==
    ASSUME TypeInv, NEW s \in Servers, NEW m, CallCenterRequestLua(s, m)
    PROVE  TypeInv'
<1>0. TablesOK /\ LinksOK /\ UsersOK /\ CenterClientReads(s, m)
  BY DEF TypeInv, CallCenterRequestLua, RoomSeats, CenterMessageIgnored
<1>1. /\ TablesOK' /\ m \in Messages
      /\ fromCenter' \in [Servers -> Seq(Messages)]
      /\ UNCHANGED <<toServer, gatewayOf, entered>>
  BY <1>0, CenterReadType
<1>2. m.h \in Ids /\ m.conn \in Ids /\ m \in Messages \cap Messages
  BY <1>1 DEF Messages
<1>3. /\ toGateway' \in [Servers -> Seq(Messages)]
      /\ toCenter' \in [Servers \X Lives -> Seq(Messages)]
  <2>1. CASE SendToServer(Room, ToGateway, m)
    <3>1. Room \in Servers
      BY DEF Servers
    <3> QED BY <1>0, <1>2, <2>1, <3>1, SendToServerType DEF LinksOK
  <2>2. CASE UNCHANGED <<toCenter, toGateway>>
    BY <1>0, <2>2 DEF LinksOK
  <2> QED BY <2>1, <2>2 DEF CallCenterRequestLua, RoomSeats, CenterMessageIgnored
<1>4. UsersOK'
  <2>1. CASE RoomSeats(m)
    <3>1. seats' = [x \in (DOMAIN seats \ {y \in DOMAIN seats : seats[y] = m.conn})
                            \cup {m.h} |-> IF x = m.h THEN m.conn ELSE seats[x]]
      BY <2>1 DEF RoomSeats
    <3>2. DOMAIN seats' \subseteq Ids /\ \A x \in DOMAIN seats' : seats'[x] \in Ids
      BY <1>0, <1>2, <3>1, UsersType DEF UsersOK
    <3> QED BY <1>0, <1>1, <3>2 DEF UsersOK
  <2>2. CASE UNCHANGED seats
    BY <1>0, <1>1, <2>2 DEF UsersOK
  <2> QED BY <2>1, <2>2 DEF CallCenterRequestLua, CenterMessageIgnored
<1> QED BY <1>1, <1>3, <1>4, <1>0 DEF TypeInv, LinksOK

LEMMA SettlesType ==
    ASSUME TypeInv, NEW h \in DOMAIN seats, RoomSettles(h)
    PROVE  TypeInv'
<1>0. /\ TablesOK /\ LinksOK /\ UsersOK
      /\ toGateway' = [toGateway EXCEPT ![Room] =
                         SentToGateway(Room, Message(Other, h, 0, seats[h]))]
      /\ toCenter' = SentToCenter(Room, Message(Settlement, 0, 0, seats[h]))
      /\ UNCHANGED <<gatewayVars, client, restarts, gatewayOf, entered, seats,
                     toServer, fromCenter>>
  BY DEF TypeInv, RoomSettles, serverVars
<1>1. /\ Message(Other, h, 0, seats[h]) \in Messages
      /\ Message(Settlement, 0, 0, seats[h]) \in Messages
      /\ Room \in Servers
  <2>1. h \in Ids /\ seats[h] \in Ids /\ 0 \in Ids
    BY <1>0, NetworkAssumption DEF UsersOK, Ids
  <2> QED BY <2>1 DEF Message, Messages, Servers
<1>2. toGateway' \in [Servers -> Seq(Messages)]
  <2>1. toGateway' \in
          {toGateway, [toGateway EXCEPT ![Room] = Append(@, Message(Other, h, 0, seats[h]))]}
    BY <1>0, <1>1 DEF SentToGateway, LinksOK
  <2> HIDE DEF Message
  <2>2. [toGateway EXCEPT ![Room] = Append(@, Message(Other, h, 0, seats[h]))]
          \in [Servers -> Seq(Messages)]
    BY <1>0, <1>1, Sent DEF LinksOK
  <2> QED BY <1>0, <2>1, <2>2 DEF LinksOK
<1>3. toCenter' \in [Servers \X Lives -> Seq(Messages)]
  <2>0. PICK p, m : p = Process(Room) /\ m = Message(Settlement, 0, 0, seats[h])
    OBVIOUS
  <2>1. m \in Messages /\ toCenter \in [Servers \X Lives -> Seq(Messages)]
    BY <1>0, <1>1, <2>0 DEF LinksOK
  <2>2. toCenter' \in {toCenter, [toCenter EXCEPT ![p] = Append(@, m)]}
    BY <1>0, <2>0 DEF SentToCenter
  <2>3. [toCenter EXCEPT ![p] = Append(@, m)] \in [Servers \X Lives -> Seq(Messages)]
    BY <2>1, Sent
  <2> QED BY <2>1, <2>2, <2>3
<1>4. TablesOK'
  BY <1>0, TablesKept DEF gatewayVars
<1> QED BY <1>0, <1>2, <1>3, <1>4 DEF TypeInv, LinksOK, UsersOK

\* The center: a message is dropped, answered, or passed on as it is.
LEMMA DispatchLinks ==
    ASSUME NEW p, CenterDispatches(p)
    PROVE  /\ toCenter[p] # <<>>
           /\ toCenter' = [toCenter EXCEPT ![p] = Tail(@)]
           /\ \/ UNCHANGED fromCenter
              \/ \E to : CenterWrites(to, Head(toCenter[p]))
           /\ UNCHANGED <<gatewayVars, client, serverVars, linkVars, bounds, noticed>>
  BY DEF CenterDispatches, SendToLogicServer

LEMMA DispatchesType ==
    ASSUME TypeInv, NEW p \in Servers \X Lives, CenterDispatches(p)
    PROVE  TypeInv'
<1>0. /\ TablesOK /\ LinksOK /\ UsersOK /\ toCenter[p] # <<>>
      /\ toCenter' = [toCenter EXCEPT ![p] = Tail(@)]
      /\ UNCHANGED <<gatewayVars, client, restarts, gatewayOf, entered, seats,
                     toServer, toGateway>>
  BY DispatchLinks DEF TypeInv, serverVars, linkVars, bounds
<1> PICK m : m = Head(toCenter[p])
  OBVIOUS
<1>1. m \in Messages /\ toCenter' \in [Servers \X Lives -> Seq(Messages)]
  BY <1>0, Received DEF LinksOK
<1>2. fromCenter' \in [Servers -> Seq(Messages)]
  <2>1. CASE UNCHANGED fromCenter
    BY <1>0, <2>1 DEF LinksOK
  <2>2. ASSUME NEW to, CenterWrites(to, m)
        PROVE  fromCenter' \in [Servers -> Seq(Messages)]
    BY <1>0, <1>1, <2>2, CenterWritesType DEF LinksOK
  <2> QED BY <2>1, <2>2, DispatchLinks
<1>3. TablesOK'
  BY <1>0, TablesKept DEF gatewayVars
<1> QED BY <1>0, <1>1, <1>2, <1>3 DEF TypeInv, LinksOK, UsersOK

LEMMA CenterEOFType ==
    ASSUME TypeInv, NEW p, CenterReadsEOF(p)
    PROVE  TypeInv'
<1>0. /\ TablesOK /\ LinksOK /\ UsersOK
      /\ UNCHANGED <<gatewayVars, client, restarts, gatewayOf, entered, seats,
                     toServer, toGateway, toCenter, fromCenter>>
  BY DEF TypeInv, CenterReadsEOF, serverVars, linkVars, centerLinks, bounds
<1>1. TablesOK'
  BY <1>0, TablesKept DEF gatewayVars
<1> QED BY <1>0, <1>1 DEF TypeInv, LinksOK, UsersOK

\* A gateway that is started again has no connection: every one is closed.
LEMMA GatewayRestartsType == ASSUME TypeInv, GatewayRestarts PROVE TypeInv'
<1>0. /\ TablesOK /\ LinksOK /\ UsersOK
      /\ restarts < MaxRestarts /\ restarts' = restarts + 1
      /\ gatewayLife' = gatewayLife + 1
      /\ client' = [c \in Connections |-> [client[c] EXCEPT !.state = "closed"]]
      /\ toGateway' = [s \in Servers |-> <<>>]
      /\ gatewayOf' = [s \in Servers |-> gatewayLife']
      /\ UNCHANGED <<toServer, fromCenter, toCenter, entered, seats>>
  BY DEF TypeInv, GatewayRestarts, Dies, GatewayConnects, ServersAccept, centerLinks
<1>1. /\ sessionId' = 0 /\ handlerToId' = sessions'
      /\ DOMAIN sessions' = {} /\ DOMAIN idToHandler' = {}
  BY DEF GatewayRestarts, Gateway!Restarted, Gateway!Empty
<1>2. PICK n \in Nat : n = Len(client)
  BY <1>0 DEF TablesOK
<1>3. client \in Seq(ClientRecords) /\ Connections = 1..n
  BY <1>0, <1>2 DEF TablesOK, Connections
<1>4. \A c \in 1..n : /\ client'[c] \in ClientRecords
                      /\ client'[c].state = "closed"
  <2> SUFFICES ASSUME NEW c \in 1..n
               PROVE  client'[c] \in ClientRecords /\ client'[c].state = "closed"
    OBVIOUS
  <2>1. client[c] \in ClientRecords
    BY <1>2, <1>3
  <2>2. client'[c] = [client[c] EXCEPT !.state = "closed"]
    BY <1>0, <1>3
  <2> QED BY <2>1, <2>2 DEF ClientRecords
<1>5. client' \in [1..n -> ClientRecords]
  <2> HIDE DEF ClientRecords
  <2> QED BY <1>0, <1>3, <1>4
<1>6. client' \in Seq(ClientRecords) /\ Len(client') = n /\ Connections' = 1..n
  <2> HIDE DEF ClientRecords
  <2> QED BY <1>2, <1>5, SeqDef DEF Connections
<1>7. TablesOK'
  <2>1. DOMAIN sessions' = {c \in Connections' : client'[c].life = gatewayLife'
                                                /\ client'[c].state # "closed"}
    BY <1>1, <1>4, <1>6
  <2>2. restarts' \in Nat /\ gatewayLife' \in Nat /\ gatewayLife' <= restarts'
        /\ restarts' <= MaxRestarts
    BY <1>0, NetworkAssumption DEF TablesOK
  <2>3. n <= MaxConnections
    BY <1>0, <1>2 DEF TablesOK
  <2> QED BY <1>1, <1>2, <1>6, <2>1, <2>2, <2>3 DEF TablesOK
<1>8. gatewayOf' \in [Servers -> Lives \cup {NoConnection}]
  <2>1. gatewayLife' \in Lives
    BY <1>0, NetworkAssumption DEF TablesOK, Lives
  <2> QED BY <1>0, <2>1
<1>9. toGateway' \in [Servers -> Seq(Messages)]
  BY <1>0
<1> QED BY <1>0, <1>7, <1>8, <1>9 DEF TypeInv, LinksOK, UsersOK

LEMMA ServerRestartsLinks ==
    ASSUME NEW s \in Servers, ServerRestarts(s)
    PROVE  /\ restarts < MaxRestarts /\ restarts' = restarts + 1
           /\ gatewayOf' = [gatewayOf EXCEPT ![s] = NoConnection]
           /\ toServer' = [l \in DOMAIN toServer |->
                             IF l[2] = s THEN <<>> ELSE toServer[l]]
           /\ entered' \in {entered, Gateway!Empty}
           /\ seats' \in {seats, Gateway!Empty}
           /\ \E p : toCenter' = [toCenter EXCEPT ![p] = <<Message(Register, 0, 0, 0)>>]
           /\ fromCenter' = [fromCenter EXCEPT ![s] = <<>>]
           /\ UNCHANGED <<gatewayLife, sessionId, sessions, idToHandler,
                          handlerToId, client, toGateway, noticed>>
<1>1. \E p : toCenter' = [toCenter EXCEPT ![p] = <<Message(Register, 0, 0, 0)>>]
  <2> PICK p : p = Process(s)'
    OBVIOUS
  <2>1. toCenter' = [toCenter EXCEPT ![p] = <<Message(Register, 0, 0, 0)>>]
    BY DEF ServerRestarts, ConnectsToCenter
  <2> QED BY <2>1
<1> QED BY <1>1 DEF ServerRestarts, Dies, ServerListens, InitState,
                    ConnectsToCenter, gatewayVars

LEMMA ServerRestartsType ==
    ASSUME TypeInv, NEW s \in Servers, ServerRestarts(s)
    PROVE  TypeInv'
<1>0. /\ TablesOK /\ LinksOK /\ UsersOK
      /\ restarts < MaxRestarts /\ restarts' = restarts + 1
      /\ UNCHANGED <<gatewayLife, sessionId, sessions, idToHandler, handlerToId,
                     client, toGateway>>
  BY ServerRestartsLinks DEF TypeInv
<1>1. TablesOK'
  <2>1. restarts' \in Nat /\ gatewayLife <= restarts' /\ restarts' <= MaxRestarts
    BY <1>0, NetworkAssumption DEF TablesOK
  <2> QED BY <1>0, <2>1 DEF TablesOK, Connections
<1>2. toServer' \in [Lives \X Servers -> Seq(Messages)]
  <2> PICK S : S = Lives \X Servers
    OBVIOUS
  <2>1. toServer \in [S -> Seq(Messages)]
    BY <1>0 DEF LinksOK
  <2>2. toServer' = [l \in S |-> IF l[2] = s THEN <<>> ELSE toServer[l]]
    BY <2>1, ServerRestartsLinks
  <2>3. toServer' \in [S -> Seq(Messages)]
    BY <2>1, <2>2
  <2> QED BY <2>3
<1>3. fromCenter' \in [Servers -> Seq(Messages)]
  <2>1. /\ fromCenter \in [Servers -> Seq(Messages)]
        /\ fromCenter' = [fromCenter EXCEPT ![s] = <<>>]
    BY <1>0, ServerRestartsLinks DEF LinksOK
  <2> QED BY <2>1
<1>4. toCenter' \in [Servers \X Lives -> Seq(Messages)]
  <2>1. PICK p, m : /\ m = Message(Register, 0, 0, 0)
                    /\ toCenter' = [toCenter EXCEPT ![p] = <<m>>]
    BY ServerRestartsLinks
  <2>2. m \in Messages
    BY <2>1, NetworkAssumption DEF Message, Messages, Ids
  <2>3. <<m>> \in Seq(Messages)
    BY <2>2
  <2>4. toCenter \in [Servers \X Lives -> Seq(Messages)]
    BY <1>0 DEF LinksOK
  <2> QED BY <2>1, <2>3, <2>4
<1>5. UsersOK'
  <2>1. DOMAIN Gateway!Empty = {}
    BY DEF Gateway!Empty
  <2>2. gatewayOf' \in [Servers -> Lives \cup {NoConnection}]
    BY <1>0, ServerRestartsLinks DEF UsersOK
  <2>3. entered' \in {entered, Gateway!Empty} /\ seats' \in {seats, Gateway!Empty}
    BY ServerRestartsLinks
  <2> QED BY <1>0, <2>1, <2>2, <2>3 DEF UsersOK
<1> QED BY <1>0, <1>1, <1>2, <1>3, <1>4, <1>5 DEF TypeInv, LinksOK

LEMMA CenterRestartsType == ASSUME TypeInv, CenterRestarts PROVE TypeInv'
<1>0. /\ TablesOK /\ LinksOK /\ UsersOK
      /\ restarts < MaxRestarts /\ restarts' = restarts + 1
      /\ toCenter' = [p \in DOMAIN toCenter |-> <<>>]
      /\ UNCHANGED <<gatewayLife, sessionId, sessions, idToHandler, handlerToId,
                     client, toGateway, toServer, fromCenter, gatewayOf,
                     entered, seats>>
  BY DEF TypeInv, CenterRestarts, Dies, gatewayVars, serverVars, linkVars
<1>1. TablesOK'
  <2>1. restarts' \in Nat /\ gatewayLife <= restarts' /\ restarts' <= MaxRestarts
    BY <1>0, NetworkAssumption DEF TablesOK
  <2> QED BY <1>0, <2>1 DEF TablesOK, Connections
<1>2. toCenter' \in [Servers \X Lives -> Seq(Messages)]
  BY <1>0 DEF LinksOK
<1> QED BY <1>0, <1>1, <1>2 DEF TypeInv, LinksOK, UsersOK

LEMMA InitType == Init => TypeInv
<1> SUFFICES ASSUME Init PROVE TypeInv
  OBVIOUS
<1>1. TablesOK
  BY NetworkAssumption DEF Init, Gateway!Constructed, Gateway!Empty, TablesOK,
     Connections
<1>2. LinksOK
  <2>1. Message(Register, 0, 0, 0) \in Messages
    BY NetworkAssumption DEF Message, Messages, Ids
  <2>2. <<Message(Register, 0, 0, 0)>> \in Seq(Messages) /\ <<>> \in Seq(Messages)
    BY <2>1
  <2>3. toCenter \in [Servers \X Lives -> Seq(Messages)]
    BY <2>2 DEF Init
  <2> QED BY <2>2, <2>3 DEF Init, LinksOK
<1>3. UsersOK
  BY NetworkAssumption DEF Init, UsersOK, Gateway!Empty, Lives
<1> QED BY <1>1, <1>2, <1>3 DEF TypeInv

\* The steps of Next, one after the other.
LEMMA StepType == TypeInv /\ [Next]_vars => TypeInv'
<1> SUFFICES ASSUME TypeInv, [Next]_vars PROVE TypeInv'
  OBVIOUS
<1>1. CASE GatewayActs
  BY <1>1, AcceptsType, ForwardsType, EOFType, ResetType, TransfersType
     DEF GatewayActs, Ids
<1>2. CASE ServerActs
  BY <1>2, CallLuaType, CallCenterType, SettlesType
     DEF ServerActs, ServerReadsGateway, ServerReadsCenter
<1>3. CASE CenterActs
  BY <1>3, DispatchesType, CenterEOFType DEF CenterActs
<1>4. CASE Restarts
  BY <1>4, GatewayRestartsType, ServerRestartsType, CenterRestartsType DEF Restarts
<1>5. CASE UNCHANGED vars
  <2>1. UNCHANGED <<gatewayLife, sessionId, sessions, idToHandler, handlerToId,
                    client, restarts, toServer, toGateway, fromCenter, toCenter,
                    gatewayOf, entered, seats>>
    BY <1>5 DEF vars, gatewayVars, serverVars, linkVars, centerLinks, bounds
  <2>2. TablesOK'
    BY <2>1, TablesKept DEF TypeInv
  <2> QED BY <2>1, <2>2 DEF TypeInv, LinksOK, UsersOK
<1> QED BY <1>1, <1>2, <1>3, <1>4, <1>5 DEF Next

\* The gateway's four tables are always about the same connections: those it
\* accepted in this life and has read no end of.
THEOREM NetworkTypeCorrect == Spec => []TypeOK
<1>1. Init => TypeInv
  BY InitType
<1>2. TypeInv /\ [Next]_vars => TypeInv'
  BY StepType
<1>3. TypeInv => TypeOK
  BY TypeInvImpliesTypeOK
<1> QED BY <1>1, <1>2, <1>3, PTL DEF Spec

-----------------------------------------------------------------------------
(* The gateway's first life.  Handler ids are the numbers of connections, so *)
(* whatever is written under one is about that connection, on every link and *)
(* in both servers' tables of users; the gateway's own USER_DISCONNECT names *)
(* it in its body.                                                           *)

Own(m) == m.h = m.conn /\ m.conn \in Connections
OwnMessages == {m \in Messages : Own(m)}
\* What the gateway writes: requests, and notices of its own.
OwnNotice(m) == OfGateway(m) /\ m.of = m.conn /\ m.conn \in Connections
GatewayMessages == {m \in Messages : Own(m) \/ OwnNotice(m)}
\* Between the servers and the center, only the users who enter a game carry
\* the handler id of their connection.
CenterMessages == {m \in Messages : m.event = Game => Own(m)}

RecordsFirst ==
    /\ sessionId = Len(client)
    /\ \A c \in Connections :
         /\ client[c].id = c /\ client[c].life = 0
         /\ client[c].state # "closed" => c \in DOMAIN idToHandler

LinksFirst ==
    /\ toServer \in [Lives \X Servers -> Seq(GatewayMessages)]
    /\ \A l \in Lives \ {0}, s \in Servers : toServer[l, s] = <<>>
    /\ toGateway \in [Servers -> Seq(OwnMessages)]
    /\ fromCenter \in [Servers -> Seq(CenterMessages)]
    /\ toCenter \in [Servers \X Lives -> Seq(CenterMessages)]

UsersFirst ==
    /\ \A h \in DOMAIN entered : entered[h] = h /\ h \in Connections
    /\ \A h \in DOMAIN seats : seats[h] = h /\ h \in Connections

\* The connections that can send nothing more.
Quiet == {c \in Connections : client[c].state # "open"}

\* In the queue q, a notice is about a connection that is quiet, and nothing
\* else of a connection follows its notice, or waits when it was told before.
LastNotice(q, quiet, told) ==
    \A i \in DOMAIN q :
      /\ OfGateway(q[i]) => q[i].conn \in quiet
      /\ q[i].conn \in told => OfGateway(q[i])
      /\ \A j \in DOMAIN q : (/\ j < i /\ OfGateway(q[j])
                              /\ q[j].conn = q[i].conn)
                             => OfGateway(q[i])

NoticesFirst ==
    /\ LastNotice(toServer[0, Logic], Quiet, noticed)
    /\ noticed \subseteq Quiet
    /\ \A h \in DOMAIN entered : entered[h] \notin noticed

FirstInv ==
    gatewayLife = 0 => RecordsFirst /\ LinksFirst /\ UsersFirst /\ NoticesFirst

LEMMA NoticeSent ==
    ASSUME NEW T, NEW q \in Seq(T), NEW quiet, NEW told, told \subseteq quiet,
           LastNotice(q, quiet, told), NEW m,
           OfGateway(m) <=> m.conn \in quiet
    PROVE  LastNotice(Append(q, m), quiet, told)
<1> PICK n \in Nat : n = Len(q)
  OBVIOUS
<1>1. /\ DOMAIN Append(q, m) = 1..(n + 1) /\ DOMAIN q = 1..n
      /\ \A i \in 1..n : Append(q, m)[i] = q[i]
      /\ Append(q, m)[n + 1] = m
  OBVIOUS
<1> PICK r : r = Append(q, m)
  OBVIOUS
<1> SUFFICES ASSUME NEW i \in 1..(n + 1)
             PROVE  /\ OfGateway(r[i]) => r[i].conn \in quiet
                    /\ r[i].conn \in told => OfGateway(r[i])
                    /\ \A j \in 1..(n + 1) :
                         (j < i /\ OfGateway(r[j]) /\ r[j].conn = r[i].conn)
                         => OfGateway(r[i])
  BY <1>1 DEF LastNotice
<1>2. CASE i \in 1..n
  <2>1. \A j \in 1..(n + 1) : j < i => j \in 1..n
    OBVIOUS
  <2> QED BY <1>1, <1>2, <2>1 DEF LastNotice
<1>3. CASE i = n + 1
  <2>1. r[i] = m
    BY <1>1, <1>3
  <2>2. ASSUME NEW j \in 1..(n + 1), j < i, OfGateway(r[j]),
               r[j].conn = r[i].conn
        PROVE  OfGateway(r[i])
    <3>1. j \in 1..n
      BY <1>3, <2>2
    <3>2. r[j].conn \in quiet
      BY <1>1, <2>2, <3>1 DEF LastNotice
    <3> QED BY <2>1, <2>2, <3>2
  <2> QED BY <2>1, <2>2
<1> QED BY <1>2, <1>3

LEMMA NoticeTaken ==
    ASSUME NEW T, NEW q \in Seq(T), q # <<>>, NEW quiet, NEW told,
           LastNotice(q, quiet, told), NEW more,
           \A c \in more : c = Head(q).conn /\ OfGateway(Head(q))
    PROVE  LastNotice(Tail(q), quiet, told \cup more)
<1> PICK n \in Nat : n = Len(q)
  OBVIOUS
<1>1. /\ DOMAIN Tail(q) = 1..(n - 1) /\ DOMAIN q = 1..n /\ n > 0
      /\ \A i \in 1..(n - 1) : Tail(q)[i] = q[i + 1] /\ i + 1 \in 1..n
      /\ Head(q) = q[1] /\ 1 \in 1..n
  OBVIOUS
<1> PICK r : r = Tail(q)
  OBVIOUS
<1> SUFFICES ASSUME NEW i \in 1..(n - 1)
             PROVE  /\ OfGateway(r[i]) => r[i].conn \in quiet
                    /\ r[i].conn \in told \cup more => OfGateway(r[i])
                    /\ \A j \in 1..(n - 1) :
                         (j < i /\ OfGateway(r[j]) /\ r[j].conn = r[i].conn)
                         => OfGateway(r[i])
  BY <1>1 DEF LastNotice
<1>2. r[i] = q[i + 1] /\ i + 1 \in 1..n /\ 1 < i + 1
  BY <1>1
<1>3. ASSUME NEW j \in 1..(n - 1), j < i, OfGateway(r[j]),
             r[j].conn = r[i].conn
      PROVE  OfGateway(r[i])
  <2>1. r[j] = q[j + 1] /\ j + 1 \in 1..n /\ j + 1 < i + 1
    BY <1>1, <1>3
  <2> QED BY <1>1, <1>2, <1>3, <2>1 DEF LastNotice
<1>4. ASSUME r[i].conn \in more PROVE OfGateway(r[i])
  <2>1. OfGateway(q[1]) /\ q[1].conn = q[i + 1].conn
    BY <1>1, <1>2, <1>4
  <2> QED BY <1>1, <1>2, <2>1 DEF LastNotice
<1> QED BY <1>1, <1>2, <1>3, <1>4 DEF LastNotice

LEMMA NoticeQuieter ==
    ASSUME NEW q, NEW quiet, NEW told, LastNotice(q, quiet, told),
           NEW more, quiet \subseteq more
    PROVE  LastNotice(q, more, told)
  BY DEF LastNotice

LEMMA Before ==
    ASSUME NEW T, NEW q \in Seq(T), NEW i \in DOMAIN q
    PROVE  q[i] \in T /\ \A j \in 1..(i - 1) : j \in DOMAIN q /\ j < i
  OBVIOUS

\* What the first life of the gateway guarantees, of the properties TLC checks.
\* A request is not taken for a notice of the gateway's own.
LEMMA OwnIsNoNotice ==
    ASSUME TablesOK, NEW m, Own(m) PROVE ~OfGateway(m)
  BY DEF TablesOK, Own, OfGateway, Connections

LEMMA FirstInvGives ==
    ASSUME TypeInv, FirstInv
    PROVE  NoticeIsLast /\ RepliesReachTheirConnection /\ ActsForOwner
<1>0. Logic \in Servers /\ 0 \in Lives
  BY NetworkAssumption DEF Servers, Lives
<1>1. NoticeIsLast
  <2> SUFFICES ASSUME gatewayLife = 0 PROVE NoticeIsLast
    BY DEF NoticeIsLast
  <2>1. LinksFirst /\ NoticesFirst /\ UsersFirst
    BY DEF FirstInv
  <2> PICK q : q = toServer[0, Logic]
    OBVIOUS
  <2>2. q \in Seq(GatewayMessages)
    BY <1>0, <2>1 DEF LinksFirst
  <2>3. \A i \in DOMAIN q : \A j \in 1..(i - 1) : j \in DOMAIN q /\ j < i
    BY <2>2, Before
  <2>4. \A i \in DOMAIN q :
          /\ OfGateway(q[i]) => /\ q[i].of = q[i].conn
                               /\ client[q[i].conn].state # "open"
          /\ q[i].conn \in noticed => OfGateway(q[i])
          /\ \A j \in 1..(i - 1) : (OfGateway(q[j]) /\ q[j].conn = q[i].conn)
                                   => OfGateway(q[i])
    <3>1. \A i \in DOMAIN q : OfGateway(q[i]) => q[i].of = q[i].conn
      <4> SUFFICES ASSUME NEW i \in DOMAIN q, OfGateway(q[i])
                   PROVE  q[i].of = q[i].conn
        OBVIOUS
      <4>1. q[i] \in GatewayMessages
        BY <2>2, Before
      <4>2. ~Own(q[i])
        BY OwnIsNoNotice DEF TypeInv
      <4> QED BY <4>1, <4>2 DEF GatewayMessages, OwnNotice
    <3> QED BY <2>1, <2>3, <3>1 DEF NoticesFirst, LastNotice, Quiet
  <2>5. \A c \in noticed : ~Entered(c)
    BY <2>1 DEF NoticesFirst, Entered
  <2> QED BY <2>4, <2>5 DEF NoticeIsLast
<1>2. RepliesReachTheirConnection
  <2> SUFFICES ASSUME gatewayLife = 0, NEW s \in Servers,
                      NEW i \in DOMAIN toGateway[s],
                      toGateway[s][i].h \in DOMAIN idToHandler
               PROVE  idToHandler[toGateway[s][i].h] = toGateway[s][i].conn
    BY DEF RepliesReachTheirConnection
  <2> PICK m : m = toGateway[s][i]
    OBVIOUS
  <2>1. RecordsFirst /\ LinksFirst /\ TablesOK
    BY DEF FirstInv, TypeInv
  <2>2. m.h = m.conn
    <3>1. toGateway[s] \in Seq(OwnMessages)
      BY <2>1 DEF LinksFirst
    <3>2. m \in OwnMessages
      BY <3>1
    <3> QED BY <3>2 DEF OwnMessages, Own
  <2>3. idToHandler[m.h] \in Connections /\ client[idToHandler[m.h]].id = m.h
    BY <2>1 DEF TablesOK
  <2> QED BY <2>1, <2>2, <2>3 DEF RecordsFirst
<1>3. ActsForOwner
  <2> SUFFICES ASSUME gatewayLife = 0, NEW i \in DOMAIN toServer[0, Logic],
                      toServer[0, Logic][i].event # NoticeEvent,
                      toServer[0, Logic][i].h \in DOMAIN entered
               PROVE  entered[toServer[0, Logic][i].h] = toServer[0, Logic][i].conn
    BY DEF ActsForOwner
  <2> PICK m : m = toServer[0, Logic][i]
    OBVIOUS
  <2>1. UsersFirst /\ LinksFirst
    BY DEF FirstInv
  <2>2. m.h = m.conn
    <3>1. toServer[0, Logic] \in Seq(GatewayMessages)
      BY <1>0, <2>1 DEF LinksFirst
    <3>2. m \in GatewayMessages
      BY <3>1, Before
    <3> QED BY <3>2 DEF GatewayMessages, Own, OwnNotice, OfGateway
  <2> QED BY <2>1, <2>2 DEF UsersFirst
<1> QED BY <1>1, <1>2, <1>3

\* Most steps leave the connections alone.
LEMMA SameConnections ==
    ASSUME UNCHANGED client
    PROVE  /\ Connections' = Connections /\ Quiet' = Quiet
           /\ OwnMessages' = OwnMessages /\ CenterMessages' = CenterMessages
           /\ GatewayMessages' = GatewayMessages
           /\ (sessionId' = sessionId /\ DOMAIN idToHandler \subseteq DOMAIN idToHandler'
               /\ RecordsFirst) => RecordsFirst'
  BY DEF Connections, Quiet, OwnMessages, CenterMessages, GatewayMessages, Own,
         OwnNotice, OfGateway, RecordsFirst

LEMMA OwnIsForCenter == OwnMessages \subseteq CenterMessages
  BY DEF OwnMessages, CenterMessages

\* What the gateway writes to a server in its first life.
LEMMA TransferFirst ==
    ASSUME gatewayLife = 0, LinksFirst, NoticesFirst, NEW s \in Servers,
           NEW m \in GatewayMessages, OfGateway(m) <=> m.conn \in Quiet,
           TransferToLogicServer(s, m)
    PROVE  /\ toServer' \in [Lives \X Servers -> Seq(GatewayMessages)]
           /\ \A l \in Lives \ {0}, t \in Servers : toServer'[l, t] = <<>>
           /\ LastNotice(toServer'[0, Logic], Quiet, noticed)
<1>0. /\ 0 \in Lives /\ Logic \in Servers
      /\ toServer \in [Lives \X Servers -> Seq(GatewayMessages)]
  <2>1. 0 \in Lives /\ Logic \in Servers
    BY NetworkAssumption DEF Lives, Servers
  <2> QED BY <2>1 DEF LinksFirst
<1>1. toServer' \in [Lives \X Servers -> Seq(GatewayMessages)]
  BY <1>0, TransferType
<1>2. \A p \in Lives \X Servers :
        toServer'[p] = toServer[p] \/ (p = <<0, s>> /\ toServer'[p] = Append(toServer[p], m))
  BY <1>0 DEF TransferToLogicServer
<1>3. \A l \in Lives \ {0}, t \in Servers : toServer'[l, t] = <<>>
  BY <1>2 DEF LinksFirst
<1>4. LastNotice(toServer'[0, Logic], Quiet, noticed)
  <2>1. toServer[0, Logic] \in Seq(GatewayMessages)
    BY <1>0
  <2>2. LastNotice(Append(toServer[0, Logic], m), Quiet, noticed)
    BY <2>1, NoticeSent DEF NoticesFirst
  <2>3. toServer'[0, Logic] \in {toServer[0, Logic], Append(toServer[0, Logic], m)}
    BY <1>0, <1>2
  <2> QED BY <2>2, <2>3 DEF NoticesFirst
<1> QED BY <1>1, <1>3, <1>4

LEMMA AcceptsFirst ==
    ASSUME TypeInv, FirstInv, GatewayAccepts PROVE FirstInv'
<1> SUFFICES ASSUME gatewayLife' = 0
             PROVE  (RecordsFirst /\ LinksFirst /\ UsersFirst /\ NoticesFirst)'
  BY DEF FirstInv
<1>0. /\ TablesOK /\ RecordsFirst /\ LinksFirst /\ UsersFirst /\ NoticesFirst
      /\ gatewayLife = 0
      /\ UNCHANGED <<toServer, toGateway, fromCenter, toCenter, entered, seats, noticed>>
  BY DEF TypeInv, FirstInv, GatewayAccepts, serverVars, linkVars, centerLinks
<1> PICK n : n = Len(client) + 1
  OBVIOUS
<1>1. PICK new : /\ new = [life |-> 0, id |-> n, state |-> "open"]
                 /\ client' = Append(client, new)
  BY <1>0, AcceptsTables DEF RecordsFirst
<1>2. client \in Seq(ClientRecords)
  BY <1>0 DEF TablesOK
<1>3. /\ Connections' = Connections \cup {n} /\ client'[n] = new
      /\ \A c \in Connections : client'[c] = client[c]
      /\ Len(client') = n
  <2> HIDE DEF ClientRecords
  <2> QED BY <1>1, <1>2 DEF Connections
<1>4. RecordsFirst'
  <2>1. /\ sessionId' = n /\ n \in DOMAIN idToHandler'
        /\ DOMAIN idToHandler \subseteq DOMAIN idToHandler'
    BY <1>0, AcceptsTables DEF RecordsFirst
  <2>2. client'[n].id = n /\ client'[n].life = 0
    BY <1>1, <1>3
  <2> QED BY <1>0, <1>3, <2>1, <2>2 DEF RecordsFirst
<1>5. LinksFirst'
  <2>1. /\ OwnMessages \subseteq OwnMessages' /\ CenterMessages \subseteq CenterMessages'
        /\ GatewayMessages \subseteq GatewayMessages'
    BY <1>3 DEF OwnMessages, CenterMessages, GatewayMessages, Own, OwnNotice, OfGateway
  <2>2. /\ Seq(OwnMessages) \subseteq Seq(OwnMessages')
        /\ Seq(CenterMessages) \subseteq Seq(CenterMessages')
        /\ Seq(GatewayMessages) \subseteq Seq(GatewayMessages')
    BY <2>1
  <2> QED BY <1>0, <2>2 DEF LinksFirst
<1>6. UsersFirst'
  BY <1>0, <1>3 DEF UsersFirst
<1>7. NoticesFirst'
  <2>1. Quiet \subseteq Quiet'
    BY <1>3 DEF Quiet
  <2> QED BY <1>0, <2>1, NoticeQuieter DEF NoticesFirst
<1> QED BY <1>4, <1>5, <1>6, <1>7

LEMMA ForwardsFirst ==
    ASSUME TypeInv, FirstInv, NEW c \in Connections, NEW s \in Servers,
           NEW event \in {Enter, Game, Other, NoticeEvent}, NEW of \in Ids,
           NEW claimed, GatewayForwards(c, s, event, of, claimed)
    PROVE  FirstInv'
<1> SUFFICES ASSUME gatewayLife' = 0
             PROVE  (RecordsFirst /\ LinksFirst /\ UsersFirst /\ NoticesFirst)'
  BY DEF FirstInv
<1>0. /\ TablesOK /\ RecordsFirst /\ LinksFirst /\ UsersFirst /\ NoticesFirst
      /\ gatewayLife = 0 /\ client[c].state = "open"
      /\ UNCHANGED <<sessionId, idToHandler, client, toGateway, fromCenter,
                     toCenter, entered, seats, noticed>>
  BY DEF TypeInv, FirstInv, GatewayForwards, gatewayVars, serverVars, centerLinks
<1> PICK m : m = Message(event, sessions[c], of, c)
  OBVIOUS
<1>1. /\ m \in Messages /\ TransferToLogicServer(s, m) /\ c \in DOMAIN sessions
      /\ m.event = event /\ m.h = sessions[c] /\ m.conn = c
  BY ForwardsType DEF Message
<1>2. m \in GatewayMessages /\ Own(m)
  <2>1. sessions[c] = c
    BY <1>0, <1>1 DEF TablesOK, RecordsFirst
  <2> QED BY <1>1, <2>1 DEF GatewayMessages, Own
<1>3. ~OfGateway(m) /\ m.conn \notin Quiet
  BY <1>0, <1>1, <1>2, OwnIsNoNotice DEF Quiet
<1>4. /\ toServer' \in [Lives \X Servers -> Seq(GatewayMessages)]
      /\ \A l \in Lives \ {0}, t \in Servers : toServer'[l, t] = <<>>
      /\ LastNotice(toServer'[0, Logic], Quiet, noticed)
  BY <1>0, <1>1, <1>2, <1>3, TransferFirst
<1> QED BY <1>0, <1>4, SameConnections
        DEF LinksFirst, UsersFirst, NoticesFirst

LEMMA EOFFirst ==
    ASSUME TypeInv, FirstInv, NEW c \in Connections, GatewayReadsEOF(c)
    PROVE  FirstInv'
<1> SUFFICES ASSUME gatewayLife' = 0
             PROVE  (RecordsFirst /\ LinksFirst /\ UsersFirst /\ NoticesFirst)'
  BY DEF FirstInv
<1>0. /\ TablesOK /\ RecordsFirst /\ LinksFirst /\ UsersFirst /\ NoticesFirst
      /\ client' = [client EXCEPT ![c].state = "closed"]
      /\ UNCHANGED <<toServer, toGateway, fromCenter, toCenter, entered, seats, noticed>>
  BY DEF TypeInv, FirstInv, GatewayReadsEOF, serverVars, linkVars, centerLinks
<1>1. /\ c \in DOMAIN sessions /\ sessionId' = sessionId
      /\ \E id \in {sessions[c], 0} :
            idToHandler' = [x \in DOMAIN idToHandler \ {id} |-> idToHandler[x]]
  BY <1>0, EOFTables DEF GatewayReadsEOF, TablesOK
<1>2. PICK t : /\ t = client' /\ "closed" \in {"open", "closed", "reset"}
               /\ t = [client EXCEPT ![c].state = "closed"]
  BY <1>0
<1>3. /\ client \in Seq(ClientRecords) /\ c \in DOMAIN client
      /\ Connections = 1..Len(client) /\ Len(client) \in Nat
  BY <1>0 DEF TablesOK, Connections
<1>4. /\ Len(client') = Len(client) /\ Connections' = Connections
      /\ \A x \in Connections : x # c => client'[x] = client[x]
      /\ \A x \in Connections : /\ client'[x].life = client[x].life
                                /\ client'[x].id = client[x].id
      /\ client'[c].state = "closed"
  BY <1>2, <1>3, StateChanged DEF Connections
<1>5. RecordsFirst'
  <2>1. sessions[c] = c
    BY <1>0, <1>1 DEF TablesOK, RecordsFirst
  <2>2. \A x \in Connections : x # c /\ x \in DOMAIN idToHandler => x \in DOMAIN idToHandler'
    BY <1>1, <1>3, <2>1
  <2>3. \A x \in Connections : client'[x].id = x /\ client'[x].life = 0
    BY <1>0, <1>4 DEF RecordsFirst
  <2>4. \A x \in Connections : client'[x].state # "closed" => x \in DOMAIN idToHandler'
    BY <1>0, <1>4, <2>2 DEF RecordsFirst
  <2> QED BY <1>0, <1>1, <1>4, <2>3, <2>4 DEF RecordsFirst
<1>6. LinksFirst' /\ UsersFirst'
  BY <1>0, <1>4 DEF LinksFirst, UsersFirst, OwnMessages, CenterMessages,
     GatewayMessages, Own, OwnNotice, OfGateway
<1>7. NoticesFirst'
  <2>1. Quiet \subseteq Quiet'
    BY <1>4 DEF Quiet
  <2> QED BY <1>0, <2>1, NoticeQuieter DEF NoticesFirst
<1> QED BY <1>5, <1>6, <1>7

LEMMA ResetFirst ==
    ASSUME TypeInv, FirstInv, NEW c \in Connections, ConnectionReset(c)
    PROVE  FirstInv'
<1> SUFFICES ASSUME gatewayLife' = 0
             PROVE  (RecordsFirst /\ LinksFirst /\ UsersFirst /\ NoticesFirst)'
  BY DEF FirstInv
<1>0. /\ TablesOK /\ RecordsFirst /\ LinksFirst /\ UsersFirst /\ NoticesFirst
      /\ client' = [client EXCEPT ![c].state = "reset"] /\ client[c].state = "open"
      /\ UNCHANGED <<sessionId, idToHandler, toServer, toGateway, fromCenter,
                     toCenter, entered, seats, noticed>>
  BY DEF TypeInv, FirstInv, ConnectionReset, gatewayVars, serverVars, linkVars,
         centerLinks
<1>2. PICK t : /\ t = client' /\ "reset" \in {"open", "closed", "reset"}
               /\ t = [client EXCEPT ![c].state = "reset"]
  BY <1>0
<1>3. client \in Seq(ClientRecords) /\ c \in DOMAIN client
  BY <1>0 DEF TablesOK, Connections
<1>4. /\ Len(client') = Len(client) /\ Connections' = Connections
      /\ \A x \in Connections : x # c => client'[x] = client[x]
      /\ \A x \in Connections : /\ client'[x].life = client[x].life
                                /\ client'[x].id = client[x].id
      /\ client'[c].state = "reset"
  BY <1>2, <1>3, StateChanged DEF Connections
<1>5. RecordsFirst'
  <2>1. \A x \in Connections : client'[x].id = x /\ client'[x].life = 0
    BY <1>0, <1>4 DEF RecordsFirst
  <2>2. \A x \in Connections : client'[x].state # "closed" => client[x].state # "closed"
    BY <1>0, <1>4
  <2> QED BY <1>0, <1>4, <2>1, <2>2 DEF RecordsFirst
<1>6. LinksFirst' /\ UsersFirst'
  BY <1>0, <1>4 DEF LinksFirst, UsersFirst, OwnMessages, CenterMessages,
     GatewayMessages, Own, OwnNotice, OfGateway
<1>7. NoticesFirst'
  <2>1. Quiet \subseteq Quiet'
    BY <1>4 DEF Quiet
  <2> QED BY <1>0, <2>1, NoticeQuieter DEF NoticesFirst
<1> QED BY <1>5, <1>6, <1>7

LEMMA TransfersFirst ==
    ASSUME TypeInv, FirstInv, NEW s \in Servers, GatewayTransfersToClient(s)
    PROVE  FirstInv'
<1> SUFFICES ASSUME gatewayLife' = 0
             PROVE  (RecordsFirst /\ LinksFirst /\ UsersFirst /\ NoticesFirst)'
  BY DEF FirstInv
<1>0. /\ TablesOK /\ RecordsFirst /\ LinksFirst /\ UsersFirst /\ NoticesFirst
      /\ gatewayLife = 0 /\ toGateway[s] # <<>>
      /\ toGateway' = [toGateway EXCEPT ![s] = Tail(@)]
      /\ UNCHANGED <<client, fromCenter, toCenter, entered, seats, noticed>>
  BY DEF TypeInv, FirstInv, GatewayTransfersToClient, serverVars, centerLinks
<1> PICK m : m = Head(toGateway[s])
  OBVIOUS
<1>1. /\ Gateway!TransferToClient(m.h)
      /\ IF Gateway!GetHandlerById(m.h) = NoConnection
         THEN TransferToLogicServer(Logic, Gateway!Notice(m.h, m.conn))
         ELSE UNCHANGED toServer
  BY DEF GatewayTransfersToClient
<1>2. m \in OwnMessages /\ toGateway' \in [Servers -> Seq(OwnMessages)]
  BY <1>0, Received DEF LinksFirst
<1>3. Gateway!GetHandlerById(m.h) = NoConnection => m.h \notin DOMAIN idToHandler
  <2> SUFFICES ASSUME m.h \in DOMAIN idToHandler
               PROVE  Gateway!GetHandlerById(m.h) # NoConnection
    OBVIOUS
  <2>1. idToHandler[m.h] \in Connections
    BY <1>0 DEF TablesOK
  <2>2. Connections \subseteq Nat
    BY <1>0 DEF TablesOK, Connections
  <2> QED BY <2>1, <2>2, NetworkAssumption DEF Gateway!GetHandlerById
<1>4. /\ toServer' \in [Lives \X Servers -> Seq(GatewayMessages)]
      /\ \A l \in Lives \ {0}, t \in Servers : toServer'[l, t] = <<>>
      /\ LastNotice(toServer'[0, Logic], Quiet, noticed)
  <2>1. CASE Gateway!GetHandlerById(m.h) = NoConnection
    <3> PICK n : n = Gateway!Notice(m.h, m.conn)
      OBVIOUS
    <3>1. /\ n.event = NoticeEvent /\ n.h = 0 /\ n.of = m.h /\ n.conn = m.conn
          /\ n = [event |-> NoticeEvent, h |-> 0, of |-> m.h, conn |-> m.conn]
      BY DEF Gateway!Notice
    <3>2. n \in GatewayMessages /\ OfGateway(n)
      BY <1>2, <3>1, NetworkAssumption
         DEF OwnMessages, GatewayMessages, Own, OwnNotice, OfGateway, Messages, Ids
    <3>3. n.conn \in Quiet
      BY <1>0, <1>2, <1>3, <2>1, <3>1 DEF Quiet, RecordsFirst, OwnMessages, Own
    <3>4. Logic \in Servers /\ TransferToLogicServer(Logic, n)
      BY <1>1, <2>1 DEF Servers
    <3> QED BY <1>0, <3>1, <3>2, <3>3, <3>4, TransferFirst
  <2>2. CASE UNCHANGED toServer
    BY <1>0, <2>2 DEF LinksFirst, NoticesFirst
  <2> QED BY <1>1, <2>1, <2>2
<1>5. RecordsFirst'
  <2>1. sessionId' = sessionId /\ DOMAIN idToHandler \subseteq DOMAIN idToHandler'
    <3> PICK h : h = m.h
      OBVIOUS
    <3>1. /\ Gateway!TransferToClient(h)
          /\ Gateway!GetHandlerById(h) = NoConnection => h \notin DOMAIN idToHandler
      BY <1>1, <1>3
    <3>2. /\ sessionId' = sessionId
          /\ \/ idToHandler' = idToHandler
             \/ idToHandler' = [x \in DOMAIN idToHandler \ {h} |-> idToHandler[x]]
                 /\ h \notin DOMAIN idToHandler
      BY <3>1, TransferTables
    <3> QED BY <3>2
  <2> QED BY <1>0, <2>1, SameConnections
<1> QED BY <1>0, <1>2, <1>4, <1>5, SameConnections
        DEF LinksFirst, UsersFirst, NoticesFirst

\* A server reads what the gateway wrote.
LEMMA ReadsFirst ==
    ASSUME TypeInv, FirstInv, gatewayLife = 0, NEW g \in Lives, NEW s \in Servers,
           NEW m, ServerReads(g, s, m)
    PROVE  /\ g = 0 /\ m \in GatewayMessages
           /\ toServer' \in [Lives \X Servers -> Seq(GatewayMessages)]
           /\ \A l \in Lives \ {0}, t \in Servers : toServer'[l, t] = <<>>
           /\ s # Logic => toServer'[0, Logic] = toServer[0, Logic]
           /\ s = Logic => /\ toServer[0, Logic] \in Seq(GatewayMessages)
                           /\ toServer[0, Logic] # <<>>
                           /\ m = Head(toServer[0, Logic])
                           /\ toServer'[0, Logic] = Tail(toServer[0, Logic])
<1>0. /\ LinksFirst
      /\ toServer[<<g, s>>] # <<>> /\ m = Head(toServer[<<g, s>>])
      /\ toServer' = [toServer EXCEPT ![<<g, s>>] = Tail(@)]
  BY DEF FirstInv, ServerReads
<1>1. <<g, s>> \in Lives \X Servers
      /\ toServer \in [Lives \X Servers -> Seq(GatewayMessages)]
  BY <1>0 DEF LinksFirst
<1>2. m \in GatewayMessages /\ toServer' \in [Lives \X Servers -> Seq(GatewayMessages)]
  BY <1>0, <1>1, Received
<1>3. g = 0
  BY <1>0 DEF LinksFirst
<1>4. \A p \in Lives \X Servers :
        toServer'[p] = IF p = <<g, s>> THEN Tail(toServer[p]) ELSE toServer[p]
  BY <1>0, <1>1
<1>5. \A l \in Lives \ {0}, t \in Servers : toServer'[l, t] = <<>>
  <2> SUFFICES ASSUME NEW l \in Lives \ {0}, NEW t \in Servers
               PROVE  toServer'[<<l, t>>] = <<>>
    OBVIOUS
  <2>1. toServer[<<l, t>>] = <<>>
    BY <1>0 DEF LinksFirst
  <2> QED BY <1>3, <1>4, <2>1
<1>6. <<0, Logic>> \in Lives \X Servers
  BY NetworkAssumption DEF Lives, Servers
<1>7. s # Logic => toServer'[<<0, Logic>>] = toServer[<<0, Logic>>]
  BY <1>4, <1>6
<1>8. s = Logic => /\ toServer[<<0, Logic>>] \in Seq(GatewayMessages)
                   /\ toServer[<<0, Logic>>] # <<>>
                   /\ m = Head(toServer[<<0, Logic>>])
                   /\ toServer'[<<0, Logic>>] = Tail(toServer[<<0, Logic>>])
  BY <1>0, <1>1, <1>3, <1>4, <1>6
<1> QED BY <1>2, <1>3, <1>5, <1>7, <1>8

LEMMA SendsFirst ==
    ASSUME LinksFirst, NEW m \in OwnMessages,
           \/ \E t \in Servers : \E type : SendToServer(t, type, m)
           \/ UNCHANGED <<toCenter, toGateway>>
    PROVE  /\ toGateway' \in [Servers -> Seq(OwnMessages)]
           /\ toCenter' \in [Servers \X Lives -> Seq(CenterMessages)]
<1>1. /\ toGateway \in [Servers -> Seq(OwnMessages)]
      /\ toCenter \in [Servers \X Lives -> Seq(CenterMessages)]
  BY DEF LinksFirst
<1>2. m \in OwnMessages \cap CenterMessages
  BY OwnIsForCenter
<1>3. ASSUME NEW t \in Servers, NEW type, SendToServer(t, type, m)
      PROVE  /\ toGateway' \in [Servers -> Seq(OwnMessages)]
             /\ toCenter' \in [Servers \X Lives -> Seq(CenterMessages)]
  BY <1>1, <1>2, <1>3, SendToServerType
<1> QED BY <1>1, <1>3

LEMMA HeadIsFirst ==
    ASSUME NEW T, NEW q \in Seq(T), q # <<>>
    PROVE  1 \in DOMAIN q /\ Head(q) = q[1]
  OBVIOUS

LEMMA CallLuaFirst ==
    ASSUME TypeInv, FirstInv, NEW g \in Lives, NEW s \in Servers, NEW m,
           CallLua(g, s, m)
    PROVE  FirstInv'
<1> SUFFICES ASSUME gatewayLife' = 0
             PROVE  (RecordsFirst /\ LinksFirst /\ UsersFirst /\ NoticesFirst)'
  BY DEF FirstInv
<1>0. /\ ServerReads(g, s, m)
      /\ UNCHANGED <<gatewayLife, sessionId, idToHandler, client, fromCenter>>
  BY DEF CallLua, LogicEnters, LogicExecutes, LogicReleases, RoomExecutes,
         RoomReleases,
         ServerReads, gatewayVars
<1>a. /\ gatewayLife = 0
      /\ RecordsFirst /\ LinksFirst /\ UsersFirst /\ NoticesFirst
  BY <1>0 DEF FirstInv
<1>1. /\ m \in GatewayMessages
      /\ toServer' \in [Lives \X Servers -> Seq(GatewayMessages)]
      /\ \A l \in Lives \ {0}, t \in Servers : toServer'[l, t] = <<>>
      /\ s # Logic => toServer'[0, Logic] = toServer[0, Logic]
      /\ s = Logic => /\ toServer[0, Logic] \in Seq(GatewayMessages)
                      /\ toServer[0, Logic] # <<>>
                      /\ m = Head(toServer[0, Logic])
                      /\ toServer'[0, Logic] = Tail(toServer[0, Logic])
  BY <1>0, <1>a, ReadsFirst
<1>2. /\ m.conn \in Connections
      /\ m.event # NoticeEvent => m \in OwnMessages /\ m.h = m.conn
      /\ OfGateway(m) => m.of = m.conn
  <2>1. Own(m) => ~OfGateway(m)
    BY OwnIsNoNotice DEF TypeInv
  <2> QED BY <1>1, <2>1 DEF GatewayMessages, OwnMessages, Own, OwnNotice, OfGateway
<1>3. LinksFirst'
  <2>1. \/ /\ \E t \in Servers : \E type : SendToServer(t, type, m)
           /\ m.event # NoticeEvent
        \/ UNCHANGED <<toCenter, toGateway>>
    BY NetworkAssumption DEF CallLua, LogicEnters, LogicExecutes, LogicReleases,
       RoomExecutes, RoomReleases, Servers
  <2>2. /\ toGateway' \in [Servers -> Seq(OwnMessages)]
        /\ toCenter' \in [Servers \X Lives -> Seq(CenterMessages)]
    <3>1. CASE UNCHANGED <<toCenter, toGateway>>
      BY <1>a, <3>1 DEF LinksFirst
    <3> QED BY <1>2, <1>a, <2>1, <3>1, SendsFirst
  <2> QED BY <1>0, <1>1, <1>a, <2>2, SameConnections DEF LinksFirst
<1>4. RecordsFirst'
  BY <1>0, <1>a, SameConnections
<1>5. ASSUME s = Logic, NEW more,
             \A c \in more : c = m.conn /\ OfGateway(m)
      PROVE  LastNotice(toServer'[0, Logic], Quiet, noticed \cup more)
  <2>1. PICK q \in Seq(GatewayMessages) : /\ q = toServer[0, Logic] /\ q # <<>>
                                      /\ m = Head(q) /\ toServer'[0, Logic] = Tail(q)
    BY <1>1, <1>5
  <2>2. LastNotice(q, Quiet, noticed)
    BY <1>a, <2>1 DEF NoticesFirst
  <2>3. LastNotice(Tail(q), Quiet, noticed \cup more)
    BY <1>5, <2>1, <2>2, NoticeTaken
  <2> QED BY <2>1, <2>3
<1>6. s = Logic => /\ OfGateway(m) => m.conn \in Quiet
                   /\ m.conn \in noticed => OfGateway(m)
  <2> SUFFICES ASSUME s = Logic
               PROVE  /\ OfGateway(m) => m.conn \in Quiet
                      /\ m.conn \in noticed => OfGateway(m)
    OBVIOUS
  <2> PICK q \in Seq(GatewayMessages) : /\ q = toServer[0, Logic] /\ q # <<>>
                                    /\ m = Head(q)
    BY <1>1
  <2>1. 1 \in DOMAIN q /\ m = q[1]
    BY HeadIsFirst
  <2> QED BY <1>a, <2>1 DEF NoticesFirst, LastNotice
<1>7. noticed \cup {} = noticed
  OBVIOUS
<1>8. Quiet' = Quiet /\ Connections' = Connections
  BY <1>0, SameConnections
<1>9. UsersFirst' /\ NoticesFirst'
  <2>1. CASE s = Logic /\ LogicEnters(g, m)
    <3>1. /\ entered' = [x \in DOMAIN entered \cup {m.h} |->
                           IF x = m.h THEN m.conn ELSE entered[x]]
          /\ seats' = seats /\ noticed' = noticed /\ m.event = Enter
      BY <2>1 DEF LogicEnters
    <3>2. m.conn \notin noticed
      BY <1>6, <2>1, <3>1, NetworkAssumption DEF OfGateway
    <3>3. \A h \in DOMAIN entered' : \/ h = m.h /\ entered'[h] = m.conn
                                     \/ h \in DOMAIN entered /\ entered'[h] = entered[h]
      BY <3>1
    <3>4. UsersFirst'
      BY <1>2, <1>8, <1>a, <3>1, <3>3, NetworkAssumption DEF UsersFirst
    <3>5. LastNotice(toServer'[0, Logic], Quiet, noticed)
      BY <1>5, <1>7, <2>1
    <3> QED BY <1>8, <1>a, <3>1, <3>2, <3>3, <3>4, <3>5 DEF NoticesFirst
  <2>2. CASE s = Logic /\ LogicExecutes(g, m)
    <3>1. UNCHANGED <<entered, seats, noticed>>
      BY <2>2 DEF LogicExecutes
    <3>2. LastNotice(toServer'[0, Logic], Quiet, noticed)
      BY <1>5, <1>7, <2>2
    <3> QED BY <1>8, <1>a, <3>1, <3>2 DEF NoticesFirst, UsersFirst
  <2>3. CASE s = Logic /\ LogicReleases(g, m)
    <3> PICK more : more = IF OfGateway(m) THEN {m.conn} ELSE {}
      OBVIOUS
    <3>1. /\ entered' = [x \in DOMAIN entered \ {m.of} |-> entered[x]]
          /\ seats' = seats /\ m.event = NoticeEvent
      BY <2>3 DEF LogicReleases, Gateway!Erase
    <3>2. noticed' = noticed \cup more
      BY <2>3 DEF LogicReleases, OfGateway
    <3>3. \A c \in more : c = m.conn /\ OfGateway(m)
      OBVIOUS
    <3>4. LastNotice(toServer'[0, Logic], Quiet, noticed')
      BY <1>5, <2>3, <3>2, <3>3
    <3>5. noticed' \subseteq Quiet
      BY <1>6, <1>a, <2>3, <3>2, <3>3 DEF NoticesFirst
    <3>6. UsersFirst'
      BY <1>8, <1>a, <3>1 DEF UsersFirst
    <3>7. \A h \in DOMAIN entered' : entered'[h] \notin noticed'
      BY <1>2, <1>a, <3>1, <3>2, <3>3 DEF UsersFirst, NoticesFirst
    <3> QED BY <1>8, <3>4, <3>5, <3>6, <3>7 DEF NoticesFirst
  <2>4. CASE s = Room /\ RoomExecutes(g, m)
    <3>1. UNCHANGED <<entered, seats, noticed>> /\ s # Logic
      BY <2>4, NetworkAssumption DEF RoomExecutes
    <3> QED BY <1>1, <1>8, <1>a, <3>1 DEF NoticesFirst, UsersFirst
  <2>5. CASE s = Room /\ RoomReleases(g, m)
    <3>1. /\ UNCHANGED <<entered, noticed>> /\ s # Logic
          /\ seats' = [x \in DOMAIN seats \ {m.of} |-> seats[x]]
      BY <2>5, NetworkAssumption DEF RoomReleases, Gateway!Erase
    <3> QED BY <1>1, <1>8, <1>a, <3>1 DEF NoticesFirst, UsersFirst
  <2> QED BY <2>1, <2>2, <2>3, <2>4, <2>5 DEF CallLua
<1> QED BY <1>3, <1>4, <1>9

LEMMA CallCenterFirst ==
    ASSUME TypeInv, FirstInv, NEW s \in Servers, NEW m, CallCenterRequestLua(s, m)
    PROVE  FirstInv'
<1> SUFFICES ASSUME gatewayLife' = 0
             PROVE  (RecordsFirst /\ LinksFirst /\ UsersFirst /\ NoticesFirst)'
  BY DEF FirstInv
<1>0. /\ CenterClientReads(s, m)
      /\ fromCenter[s] # <<>> /\ m = Head(fromCenter[s])
      /\ fromCenter' = [fromCenter EXCEPT ![s] = Tail(@)]
      /\ UNCHANGED <<gatewayLife, sessionId, idToHandler, client, toServer,
                     entered, noticed>>
  BY DEF CallCenterRequestLua, RoomSeats, CenterMessageIgnored,
         CenterClientReads, gatewayVars
<1>a. RecordsFirst /\ LinksFirst /\ UsersFirst /\ NoticesFirst
  BY <1>0 DEF FirstInv
<1>1. m \in CenterMessages /\ fromCenter' \in [Servers -> Seq(CenterMessages)]
  BY <1>0, <1>a, Received DEF LinksFirst
<1>2. /\ toGateway' \in [Servers -> Seq(OwnMessages)]
      /\ toCenter' \in [Servers \X Lives -> Seq(CenterMessages)]
  <2>1. CASE RoomSeats(m)
    <3>1. m \in OwnMessages /\ Room \in Servers
      BY <1>1, <2>1 DEF RoomSeats, CenterMessages, OwnMessages, Servers
    <3> QED BY <1>a, <2>1, <3>1, SendsFirst DEF RoomSeats
  <2>2. CASE UNCHANGED <<toCenter, toGateway>>
    BY <1>a, <2>2 DEF LinksFirst
  <2> QED BY <2>1, <2>2 DEF CallCenterRequestLua, CenterMessageIgnored
<1>3. LinksFirst' /\ RecordsFirst' /\ NoticesFirst'
  BY <1>0, <1>1, <1>2, <1>a, SameConnections DEF LinksFirst, NoticesFirst
<1>4. UsersFirst'
  <2>1. CASE RoomSeats(m)
    <3>1. m.h = m.conn /\ m.conn \in Connections
      BY <1>1, <2>1 DEF RoomSeats, CenterMessages, Own
    <3>2. \A h \in DOMAIN seats' : \/ h = m.h /\ seats'[h] = m.conn
                                   \/ h \in DOMAIN seats /\ seats'[h] = seats[h]
      BY <2>1 DEF RoomSeats
    <3> QED BY <1>0, <1>a, <3>1, <3>2, SameConnections DEF UsersFirst
  <2>2. CASE UNCHANGED seats
    BY <1>0, <1>a, <2>2, SameConnections DEF UsersFirst
  <2> QED BY <2>1, <2>2 DEF CallCenterRequestLua, CenterMessageIgnored
<1> QED BY <1>3, <1>4

LEMMA SettlesFirst ==
    ASSUME TypeInv, FirstInv, NEW h \in DOMAIN seats, RoomSettles(h)
    PROVE  FirstInv'
<1> SUFFICES ASSUME gatewayLife' = 0
             PROVE  (RecordsFirst /\ LinksFirst /\ UsersFirst /\ NoticesFirst)'
  BY DEF FirstInv
<1>b. PICK m, n, p : /\ m = Message(Other, h, 0, seats[h])
                     /\ n = Message(Settlement, 0, 0, seats[h])
                     /\ p = Process(Room)
  OBVIOUS
<1>0. /\ toGateway' = [toGateway EXCEPT ![Room] = SentToGateway(Room, m)]
      /\ toCenter' \in {toCenter, [toCenter EXCEPT ![p] = Append(@, n)]}
      /\ UNCHANGED <<gatewayLife, sessionId, idToHandler, client, entered,
                     seats, toServer, fromCenter, noticed>>
  BY <1>b DEF RoomSettles, serverVars, gatewayVars, SentToCenter
<1>a. /\ UsersOK /\ Room \in Servers
      /\ RecordsFirst /\ LinksFirst /\ UsersFirst /\ NoticesFirst
  BY <1>0 DEF FirstInv, TypeInv, Servers
<1>1. m \in OwnMessages /\ n \in CenterMessages
  <2>1. /\ h \in Ids /\ seats[h] \in Ids /\ 0 \in Ids
        /\ seats[h] = h /\ h \in Connections
    BY <1>a, NetworkAssumption DEF UsersOK, UsersFirst, Ids
  <2>2. Settlement # Game
    BY NetworkAssumption
  <2> QED BY <1>b, <2>1, <2>2 DEF Message, Messages, OwnMessages, CenterMessages, Own
<1>2. toGateway' \in [Servers -> Seq(OwnMessages)]
  <2>1. toGateway \in [Servers -> Seq(OwnMessages)]
    BY <1>a DEF LinksFirst
  <2>2. SentToGateway(Room, m) \in {toGateway[Room], Append(toGateway[Room], m)}
    BY DEF SentToGateway
  <2>3. SentToGateway(Room, m) \in Seq(OwnMessages)
    BY <1>1, <1>a, <2>1, <2>2
  <2> QED BY <1>0, <2>1, <2>3
<1>3. toCenter' \in [Servers \X Lives -> Seq(CenterMessages)]
  <2>1. toCenter \in [Servers \X Lives -> Seq(CenterMessages)]
    BY <1>a DEF LinksFirst
  <2>2. [toCenter EXCEPT ![p] = Append(@, n)] \in [Servers \X Lives -> Seq(CenterMessages)]
    BY <1>1, <2>1, Sent
  <2> QED BY <1>0, <2>1, <2>2
<1> QED BY <1>0, <1>2, <1>3, <1>a, SameConnections
        DEF LinksFirst, UsersFirst, NoticesFirst

LEMMA DispatchesFirst ==
    ASSUME TypeInv, FirstInv, NEW p \in Servers \X Lives, CenterDispatches(p)
    PROVE  FirstInv'
<1> SUFFICES ASSUME gatewayLife' = 0
             PROVE  (RecordsFirst /\ LinksFirst /\ UsersFirst /\ NoticesFirst)'
  BY DEF FirstInv
<1>0. /\ toCenter[p] # <<>>
      /\ toCenter' = [toCenter EXCEPT ![p] = Tail(@)]
      /\ UNCHANGED <<gatewayLife, sessionId, idToHandler, client, entered,
                     seats, toServer, toGateway, noticed>>
  BY DispatchLinks DEF serverVars, linkVars, gatewayVars
<1>a. RecordsFirst /\ LinksFirst /\ UsersFirst /\ NoticesFirst
  BY <1>0 DEF FirstInv
<1> PICK m : m = Head(toCenter[p])
  OBVIOUS
<1>1. m \in CenterMessages /\ toCenter' \in [Servers \X Lives -> Seq(CenterMessages)]
  <2>1. toCenter \in [Servers \X Lives -> Seq(CenterMessages)]
    BY <1>a DEF LinksFirst
  <2> QED BY <1>0, <2>1, Received
<1>2. fromCenter' \in [Servers -> Seq(CenterMessages)]
  <2>1. CASE UNCHANGED fromCenter
    BY <1>a, <2>1 DEF LinksFirst
  <2>2. ASSUME NEW to, CenterWrites(to, m)
        PROVE  fromCenter' \in [Servers -> Seq(CenterMessages)]
    BY <1>1, <1>a, <2>2, CenterWritesType DEF LinksFirst
  <2> QED BY <2>1, <2>2, DispatchLinks
<1> QED BY <1>0, <1>1, <1>2, <1>a, SameConnections
        DEF LinksFirst, UsersFirst, NoticesFirst

LEMMA RegisterMessage ==
    0 \in Lives /\ Logic \in Servers /\ Message(Register, 0, 0, 0) \in CenterMessages
<1>1. 0 \in Lives /\ Logic \in Servers /\ 0 \in Ids
  BY NetworkAssumption DEF Ids, Lives, Servers
<1>2. Register # Game
  BY NetworkAssumption
<1> QED BY <1>1, <1>2 DEF CenterMessages, Message, Messages

LEMMA ServerRestartsFirst ==
    ASSUME TypeInv, FirstInv, NEW s \in Servers, ServerRestarts(s)
    PROVE  FirstInv'
<1> SUFFICES ASSUME gatewayLife' = 0
             PROVE  (RecordsFirst /\ LinksFirst /\ UsersFirst /\ NoticesFirst)'
  BY DEF FirstInv
<1>0. /\ entered' \in {entered, Gateway!Empty} /\ seats' \in {seats, Gateway!Empty}
      /\ UNCHANGED <<gatewayLife, sessionId, idToHandler, client, toGateway, noticed>>
  BY ServerRestartsLinks
<1>a. /\ 0 \in Lives /\ Logic \in Servers /\ Message(Register, 0, 0, 0) \in CenterMessages
      /\ RecordsFirst /\ LinksFirst /\ UsersFirst /\ NoticesFirst
  <2>1. 0 \in Lives /\ Logic \in Servers /\ Message(Register, 0, 0, 0) \in CenterMessages
    BY RegisterMessage
  <2> QED BY <1>0, <2>1 DEF FirstInv
<1>1. \A p \in Lives \X Servers : toServer'[p] \in {toServer[p], <<>>}
  <2> PICK S : S = Lives \X Servers
    OBVIOUS
  <2>1. toServer \in [S -> Seq(GatewayMessages)]
    BY <1>a DEF LinksFirst
  <2> QED BY <2>1, ServerRestartsLinks
<1>2. /\ toServer' \in [Lives \X Servers -> Seq(GatewayMessages)]
      /\ \A l \in Lives \ {0}, t \in Servers : toServer'[l, t] = <<>>
  <2> PICK S : S = Lives \X Servers
    OBVIOUS
  <2>1. toServer \in [S -> Seq(GatewayMessages)]
    BY <1>a DEF LinksFirst
  <2>2. toServer' = [l \in S |-> IF l[2] = s THEN <<>> ELSE toServer[l]]
    BY <2>1, ServerRestartsLinks
  <2>3. toServer' \in [S -> Seq(GatewayMessages)]
    BY <2>1, <2>2
  <2>4. \A l \in Lives \ {0}, t \in Servers : toServer'[l, t] = <<>>
    BY <1>1, <1>a DEF LinksFirst
  <2> QED BY <2>3, <2>4
<1>3. fromCenter' \in [Servers -> Seq(CenterMessages)]
  <2>1. /\ fromCenter \in [Servers -> Seq(CenterMessages)]
        /\ fromCenter' = [fromCenter EXCEPT ![s] = <<>>]
    BY <1>a, ServerRestartsLinks DEF LinksFirst
  <2> QED BY <2>1
<1>4. toCenter' \in [Servers \X Lives -> Seq(CenterMessages)]
  <2>1. PICK p, m : /\ m = Message(Register, 0, 0, 0)
                    /\ toCenter' = [toCenter EXCEPT ![p] = <<m>>]
    BY ServerRestartsLinks
  <2>2. <<m>> \in Seq(CenterMessages)
    BY <1>a, <2>1
  <2>3. toCenter \in [Servers \X Lives -> Seq(CenterMessages)]
    BY <1>a DEF LinksFirst
  <2> QED BY <2>1, <2>2, <2>3
<1>5. DOMAIN Gateway!Empty = {}
  BY DEF Gateway!Empty
<1>6. UsersFirst'
  BY <1>0, <1>5, <1>a, SameConnections DEF UsersFirst
<1>7. NoticesFirst'
  <2>1. toServer'[0, Logic] \in {toServer[0, Logic], <<>>}
    BY <1>1, <1>a
  <2>2. LastNotice(<<>>, Quiet, noticed)
    BY DEF LastNotice
  <2>3. LastNotice(toServer'[0, Logic], Quiet, noticed)
    BY <1>a, <2>1, <2>2 DEF NoticesFirst
  <2> QED BY <1>0, <1>5, <1>a, <2>3, SameConnections DEF NoticesFirst
<1> QED BY <1>0, <1>2, <1>3, <1>4, <1>6, <1>7, <1>a, SameConnections DEF LinksFirst

LEMMA InitFirst == Init => FirstInv
<1> SUFFICES ASSUME Init PROVE RecordsFirst /\ LinksFirst /\ UsersFirst /\ NoticesFirst
  BY DEF FirstInv
<1>0. /\ 0 \in Lives /\ Logic \in Servers /\ Message(Register, 0, 0, 0) \in CenterMessages
      /\ client = <<>> /\ Connections = {} /\ sessionId = 0
  BY RegisterMessage DEF Init, Gateway!Constructed, Connections
<1>1. LinksFirst
  <2>1. <<Message(Register, 0, 0, 0)>> \in Seq(CenterMessages)
    BY <1>0
  <2>2. toCenter \in [Servers \X Lives -> Seq(CenterMessages)]
    BY <2>1 DEF Init
  <2>3. \A l \in Lives, s \in Servers : toServer[l, s] = <<>>
    BY DEF Init
  <2>4. toServer \in [Lives \X Servers -> Seq(GatewayMessages)]
    BY DEF Init
  <2>5. /\ toGateway \in [Servers -> Seq(OwnMessages)]
        /\ fromCenter \in [Servers -> Seq(CenterMessages)]
    BY DEF Init
  <2> QED BY <2>2, <2>3, <2>4, <2>5 DEF LinksFirst
<1>2. UsersFirst /\ RecordsFirst
  BY <1>0 DEF Init, UsersFirst, RecordsFirst, Gateway!Empty
<1>3. NoticesFirst
  <2>1. toServer[0, Logic] = <<>>
    BY <1>0 DEF Init
  <2>2. LastNotice(<<>>, Quiet, noticed)
    BY DEF LastNotice
  <2>3. noticed = {} /\ DOMAIN entered = {}
    BY DEF Init, Gateway!Empty
  <2> QED BY <2>1, <2>2, <2>3 DEF NoticesFirst
<1> QED BY <1>1, <1>2, <1>3

LEMMA StepFirst == TypeInv /\ FirstInv /\ [Next]_vars => FirstInv'
<1> SUFFICES ASSUME TypeInv, FirstInv, [Next]_vars PROVE FirstInv'
  OBVIOUS
<1>1. CASE GatewayActs
  BY <1>1, AcceptsFirst, ForwardsFirst, EOFFirst, ResetFirst, TransfersFirst
     DEF GatewayActs, Ids
<1>2. CASE ServerActs
  BY <1>2, CallLuaFirst, CallCenterFirst, SettlesFirst
     DEF ServerActs, ServerReadsGateway, ServerReadsCenter
<1>a. ASSUME UNCHANGED <<gatewayLife, sessionId, idToHandler, client, entered, seats,
                         toServer, toGateway, toCenter, fromCenter, noticed>>
      PROVE  FirstInv'
  <2> SUFFICES ASSUME gatewayLife' = 0
               PROVE  (RecordsFirst /\ LinksFirst /\ UsersFirst /\ NoticesFirst)'
    BY DEF FirstInv
  <2>1. RecordsFirst /\ LinksFirst /\ UsersFirst /\ NoticesFirst
    BY <1>a DEF FirstInv
  <2> QED BY <1>a, <2>1, SameConnections DEF LinksFirst, UsersFirst, NoticesFirst
<1>3. CASE CenterActs
  <2>1. ASSUME NEW p, CenterReadsEOF(p) PROVE FirstInv'
    BY <1>a, <2>1 DEF CenterReadsEOF, gatewayVars, serverVars, linkVars, centerLinks
  <2> QED BY <1>3, <2>1, DispatchesFirst DEF CenterActs
<1>4. CASE GatewayRestarts
  BY <1>4 DEF GatewayRestarts, FirstInv, TypeInv, TablesOK
<1>5. CASE \E s \in Servers : ServerRestarts(s)
  BY <1>5, ServerRestartsFirst
<1>6. CASE CenterRestarts
  <2> SUFFICES ASSUME gatewayLife' = 0
               PROVE  (RecordsFirst /\ LinksFirst /\ UsersFirst /\ NoticesFirst)'
    BY DEF FirstInv
  <2>0. /\ toCenter' = [p \in DOMAIN toCenter |-> <<>>]
        /\ UNCHANGED <<gatewayLife, sessionId, idToHandler, client, entered, seats,
                       toServer, toGateway, fromCenter, noticed>>
    BY <1>6 DEF CenterRestarts, gatewayVars, serverVars, linkVars
  <2>1. RecordsFirst /\ LinksFirst /\ UsersFirst /\ NoticesFirst
    BY <2>0 DEF FirstInv
  <2>2. toCenter' \in [Servers \X Lives -> Seq(CenterMessages)]
    <3> PICK S : S = Servers \X Lives
      OBVIOUS
    <3>1. toCenter \in [S -> Seq(CenterMessages)]
      BY <2>1 DEF LinksFirst
    <3> QED BY <2>0, <3>1
  <2> QED BY <2>0, <2>1, <2>2, SameConnections DEF LinksFirst, UsersFirst, NoticesFirst
<1>7. CASE UNCHANGED vars
  BY <1>7, <1>a DEF vars, gatewayVars, serverVars, linkVars, centerLinks
<1> QED BY <1>1, <1>2, <1>3, <1>4, <1>5, <1>6, <1>7 DEF Next, Restarts

LEMMA FirstLifeInvariant == Spec => [](TypeInv /\ FirstInv)
<1>1. Init => TypeInv /\ FirstInv
  BY InitType, InitFirst
<1>2. (TypeInv /\ FirstInv) /\ [Next]_vars => (TypeInv /\ FirstInv)'
  BY StepType, StepFirst
<1> QED BY <1>1, <1>2, PTL DEF Spec

\* The gateway's own USER_DISCONNECT is about a connection that is gone, nothing
\* of that connection comes after it, and its user is not entered again, whatever
\* USER_DISCONNECTs clients send.
THEOREM NoticesComeLast == Spec => []NoticeIsLast
<1>1. TypeInv /\ FirstInv => NoticeIsLast
  BY FirstInvGives
<1> QED BY <1>1, FirstLifeInvariant, PTL

\* TransferToClient gives what a server writes to the connection it is about.
THEOREM RepliesReachConnections == Spec => []RepliesReachTheirConnection
<1>1. TypeInv /\ FirstInv => RepliesReachTheirConnection
  BY FirstInvGives
<1> QED BY <1>1, FirstLifeInvariant, PTL

\* No client makes the logic server act for the user of another connection: the
\* handler id of a request is the gateway's, not the packet's.
THEOREM RequestsActForTheirUser == Spec => []ActsForOwner
<1>1. TypeInv /\ FirstInv => ActsForOwner
  BY FirstInvGives
<1> QED BY <1>1, FirstLifeInvariant, PTL
=============================================================================
