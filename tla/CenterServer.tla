---------------------------- MODULE CenterServer ----------------------------
(***************************************************************************)
(* The center server's tables (tcp/center_server.cpp): its connections to  *)
(* the servers, and the handler id under which each server type is known.  *)
(***************************************************************************)
EXTENDS TCPBaseServer

VARIABLE serverTypeToHandler    \* m_mapServerTypeToHandler

Restart == Restarted /\ serverTypeToHandler' = Empty

OnNewConnection(c) == AddSession(c) /\ UNCHANGED serverTypeToHandler

\* SetServerTypeToHandler inserts: a type that is already known keeps its id.
SetServerTypeToHandler(type, id) ==
    /\ serverTypeToHandler' = Insert(serverTypeToHandler, type, id)
    /\ UNCHANGED tables

GetServerTypeToHandler(type) ==
    IF type \in DOMAIN serverTypeToHandler THEN serverTypeToHandler[type] ELSE 0

\* Mutant of Target: a request goes back to the server it came from.
TargetSender(type, sender) == sender

\* CenterServerProcessNetData: the connection to which a message from sender
\* for the servers of a type is transferred, NoConnection if it is dropped.
Target(type, sender) == GetHandlerById(GetServerTypeToHandler(type))

OnEOF(c) == RemoveClient(c) /\ UNCHANGED serverTypeToHandler
=============================================================================
