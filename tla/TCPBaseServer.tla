--------------------------- MODULE TCPBaseServer ---------------------------
(***************************************************************************)
(* The tables a listening server keeps about its connections               *)
(* (tcp/tcp_base_server.cpp), shared by the gateway and the center server. *)
(* The operators are composed into actions by the modules that EXTEND or   *)
(* INSTANCE this one.                                                      *)
(***************************************************************************)
EXTENDS Naturals

CONSTANT NoConnection   \* the NULL pointer

VARIABLES
    sessionId,     \* m_nSessionId
    sessions,      \* open_sessions: the handler id of each connection's session
    idToHandler,   \* m_id_to_handler_map: the connection of each handler id
    handlerToId    \* m_hander_to_id_map: the handler id of each connection

tables == <<sessionId, sessions, idToHandler, handlerToId>>

\* std::map::insert keeps the value of a key that is already there.
Insert(map, key, value) ==
    [x \in DOMAIN map \cup {key} |-> IF x \in DOMAIN map THEN map[x] ELSE value]

Erase(map, key) == [x \in DOMAIN map \ {key} |-> map[x]]

Empty == [x \in {} |-> x]

\* The constructor of a process that has just started.
Constructed ==
    /\ sessionId = 0
    /\ sessions = Empty /\ idToHandler = Empty /\ handlerToId = Empty

Restarted ==
    /\ sessionId' = 0
    /\ sessions' = Empty /\ idToHandler' = Empty /\ handlerToId' = Empty

GetHandlerById(id) ==
    IF id \in DOMAIN idToHandler THEN idToHandler[id] ELSE NoConnection

\* Mutant of NewId: the id of a connection that has left is used again.
NewIdReused == CHOOSE id \in 1..(sessionId + 1) : id \notin DOMAIN idToHandler

NewId == sessionId + 1

\* Mutant of AddSession: m_id_to_handler_map is forgotten.
AddSessionHalf(c) ==
    /\ sessionId' = NewId
    /\ sessions' = Insert(sessions, c, NewId)
    /\ handlerToId' = Insert(handlerToId, c, NewId)
    /\ UNCHANGED idToHandler

\* A connection is accepted.
AddSession(c) ==
    /\ sessionId' = NewId
    /\ sessions' = Insert(sessions, c, NewId)
    /\ idToHandler' = Insert(idToHandler, NewId, c)
    /\ handlerToId' = Insert(handlerToId, c, NewId)

\* Mutant of RemoveClient: mapHandlerToId is left as it is.
RemoveClientHalf(c) ==
    /\ c \in DOMAIN handlerToId
    /\ sessions' = Erase(sessions, c)
    /\ idToHandler' = Erase(idToHandler, handlerToId[c])
    /\ UNCHANGED <<sessionId, handlerToId>>

\* RemoveClient and the close callback.  The entry of mapHandlerToId is erased
\* before the id is read from its iterator: the freed memory may still hold the
\* id, or not, and then the entry of the id stays.
RemoveClient(c) ==
    /\ c \in DOMAIN handlerToId
    /\ sessions' = Erase(sessions, c)
    /\ handlerToId' = Erase(handlerToId, c)
    /\ \E id \in {handlerToId[c], 0} : idToHandler' = Erase(idToHandler, id)
    /\ UNCHANGED sessionId
=============================================================================
