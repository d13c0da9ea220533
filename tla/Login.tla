------------------------------- MODULE Login -------------------------------
(***************************************************************************)
(* The login server (script/module/login_protocol.lua over UserManager,    *)
(* GlobalConfigManager and NetManager): a LOGIN_DIRECT looks the device up *)
(* in redis; an unknown device is registered under the next global user    *)
(* id, a known one is logged in.  User ids must stay unique over restarts, *)
(* though the counter, the device and the user's data are separate keys,   *)
(* written by separate commands.                                           *)
(*                                                                         *)
(* The database client is abstracted to a queue of commands and a queue of *)
(* responses, both first in first out (module DBProxy); a crash loses both *)
(* and whatever the scripts hold, redis keeps what it has executed.  The   *)
(* account record and m_tbHanderIdUserMap are written and never read by    *)
(* this server: they are left out.                                         *)
(***************************************************************************)
EXTENDS Naturals, Sequences

CONSTANTS
    Devices,
    Handlers,       \* gateway session ids
    None,
    MaxRequests,    \* bound: client requests
    MaxUsers,       \* bound: registrations
    MaxCrashes      \* bound: crashes of the login server

ASSUME LoginAssumption ==
    /\ None \notin Devices \cup Handlers \cup Nat
    /\ MaxRequests \in Nat /\ MaxUsers \in Nat /\ MaxCrashes \in Nat

VARIABLES
    globalId,       \* m_tbGlobalConfig[USER_ID], None until it is loaded
    cached,         \* m_tbUserDataPool: the users who have an object
    userToHandler,  \* m_tbUserHanderIdMap
    requests,       \* m_tbRequestSquence: sequence ids and parameters
    commands,       \* redis commands pushed and not executed
    responses,      \* answers of executed commands that Lua has not seen
    storedGlobal,   \* redis: the counter of user ids
    storedDevice,   \* redis: the user of each device
    storedGame,     \* redis: the users whose game data is stored
    asked,          \* who sent each request: handler and device
    crashes,
    replies,        \* history: what was sent to the gateway
    bad,            \* history: requests that were refused for their parameters
    crowded,        \* history: handlers that queued a second request
    raced           \* history: devices registered more than once

lua    == <<globalId, cached, userToHandler, requests>>
redis  == <<storedGlobal, storedDevice, storedGame>>
past   == <<asked, crashes, bad, crowded>>
vars   == <<lua, commands, responses, redis, past, replies, raced>>

\* DATABASE_TABLE_GLOBAL_DEFALUT
Default == 1

Users   == Default .. (Default + MaxUsers - 1)
nextSeq == Len(asked) + 1

\* Commands and responses: what they do, on which handler, device or user, with
\* which value, for which request.
Command(op, key, val, seq) == [op |-> op, key |-> key, val |-> val, origin |-> seq]
-----------------------------------------------------------------------------
\* GlobalConfigManager:Init asks for the counter before anything else.
FirstCommand == Command("getGlobal", 0, 0, 0)

Init ==
    /\ globalId = None /\ cached = {}
    /\ userToHandler = [u \in Users |-> None]
    /\ requests = [h \in Handlers |-> <<>>]
    /\ commands = <<FirstCommand>> /\ responses = <<>>
    /\ storedGlobal = None
    /\ storedDevice = [d \in Devices |-> None]
    /\ storedGame = {}
    /\ asked = <<>> /\ crashes = 0
    /\ replies = {} /\ bad = {} /\ crowded = {} /\ raced = {}

\* Mutant of Queued: the members of the request swapped.
QueuedSwapped(h, d) == Append(requests[h], [seq |-> d, device |-> nextSeq])

\* OnClientRequest queues the request.
Queued(h, d) == Append(requests[h], [seq |-> nextSeq, device |-> d])

Arrives(h, d) ==
    /\ nextSeq <= MaxRequests
    /\ asked' = Append(asked, [handler |-> h, device |-> d])
    /\ crowded' = IF requests[h] = <<>> THEN crowded ELSE crowded \cup {h}
    /\ UNCHANGED <<globalId, cached, userToHandler, responses, redis, crashes, raced>>

\* OnClientLoginDirect looks the device up; the response names the handler.
LoginDirect(h, d) ==
    /\ Arrives(h, d)
    /\ requests' = [requests EXCEPT ![h] = Queued(h, d)]
    /\ commands' = Append(commands, Command("getDevice", h, d, nextSeq))
    /\ UNCHANGED <<replies, bad>>

\* The reply to h, for user u or none, carries the sequence id seq and removes
\* the oldest request of h.  With no request queued, SendToGateway raises.
SendToGateway(h, seq, u, origin, queue) ==
    IF queue = <<>>
    THEN /\ requests' = [requests EXCEPT ![h] = <<>>]
         /\ UNCHANGED replies
    ELSE /\ requests' = [requests EXCEPT ![h] = Tail(queue)]
         /\ replies' = replies \cup
              {[handler |-> h, seq |-> seq, user |-> u, origin |-> origin]}

\* A device or an address that is a number: CheckRegisterParam refuses it, the
\* oldest request of h is removed, then SendToGateway removes another one.
LoginBadParameters(h) ==
    /\ Arrives(h, None)
    /\ SendToGateway(h, nextSeq, None, nextSeq, Tail(Queued(h, None)))
    /\ bad' = bad \cup {nextSeq}
    /\ UNCHANGED commands

\* One that is nil, a boolean or a table: CheckRegisterParam raises where it logs
\* it, OnClientRequest removes the oldest request, and nothing is sent.
LoginParametersRaise(h) ==
    /\ Arrives(h, None)
    /\ requests' = [requests EXCEPT ![h] = Tail(Queued(h, None))]
    /\ UNCHANGED <<commands, replies, bad>>

\* Any other event: ClientRequest does nothing, and the request stays queued.
OtherEvent(h) ==
    /\ Arrives(h, None)
    /\ requests' = [requests EXCEPT ![h] = Queued(h, None)]
    /\ UNCHANGED <<commands, replies, bad>>
-----------------------------------------------------------------------------
\* Redis executes the first command.
Read(c) == CASE c.op = "getGlobal" -> storedGlobal
             [] c.op = "getDevice" -> storedDevice[c.val]
             [] c.op = "getGame"   -> IF c.key \in storedGame THEN c.key ELSE None
             [] OTHER              -> c.val

RedisExecutes ==
    /\ commands # <<>>
    /\ LET c == Head(commands)
       IN  /\ storedGlobal' = IF c.op = "setGlobal" THEN c.val ELSE storedGlobal
           /\ storedDevice' = IF c.op = "setDevice"
                              THEN [storedDevice EXCEPT ![c.key] = c.val]
                              ELSE storedDevice
           /\ storedGame'   = IF c.op = "setGame"
                              THEN storedGame \cup {c.key} ELSE storedGame
           /\ responses' = IF c.op \in {"setGlobal", "setDevice"}
                           THEN responses   \* event 0: Lua does nothing
                           ELSE Append(responses, Command(c.op, c.key, Read(c), c.origin))
    /\ commands' = Tail(commands)
    /\ UNCHANGED <<lua, past, replies, raced>>

Back(op) ==
    /\ responses # <<>>
    /\ Head(responses).op = op
    /\ responses' = Tail(responses)
    /\ UNCHANGED <<redis, past>>

\* Mutant of GlobalLoaded: no default.
GlobalLoadedRaw(n) == n

\* SetUserGlobalId: an absent counter starts at the default.
GlobalLoaded(n) == IF n = None THEN Default ELSE n

\* OnResponseGlobalConfigEvent: a counter that was absent is
\* stored.
GlobalBack ==
    /\ Back("getGlobal")
    /\ LET n == Head(responses).val
       IN  /\ globalId' = GlobalLoaded(n)
           /\ commands' =
                IF n = None
                THEN Append(commands, Command("setGlobal", 0, GlobalLoaded(n), 0))
                ELSE commands
    /\ UNCHANGED <<cached, userToHandler, requests, replies, raced>>

\* Mutant of Oldest: takes a queue of one request for an empty one.
OldestOffByOne(queue) == IF Len(queue) <= 1 THEN 0 ELSE Head(queue).seq

\* The handler answers the oldest request of h.
Oldest(queue) == IF queue = <<>> THEN 0 ELSE Head(queue).seq

\* OnResponeClientLogin, on the handler that maps keeps for u.
Respond(u, origin, maps) ==
    LET h == maps[u]
    IN  IF h = None
        THEN UNCHANGED <<requests, replies>>
        ELSE SendToGateway(h, Oldest(requests[h]), u, origin, requests[h])

\* Mutants of Registration: the counter comes last; the device does.
RegistrationCounterLast(u, d, origin) ==
    <<Command("setDevice", d, u, 0), Command("setGame", u, u, origin),
      Command("setGlobal", 0, u + 1, 0)>>
RegistrationDeviceLast(u, d, origin) ==
    <<Command("setGlobal", 0, u + 1, 0), Command("setGame", u, u, origin),
      Command("setDevice", d, u, 0)>>

\* RegisterProcess stores the next id, the device and the game data.
Registration(u, d, origin) ==
    <<Command("setGlobal", 0, u + 1, 0), Command("setDevice", d, u, 0),
      Command("setGame", u, u, origin)>>

\* RegisterProcess: the user takes the current global id.
Register(h, d, origin) ==
    LET u == globalId
    IN  /\ u \in Users
        /\ cached' = cached \cup {u}
        /\ globalId' = u + 1
        /\ userToHandler' = [userToHandler EXCEPT ![u] = h]
        /\ commands' = commands \o Registration(u, d, origin)
        /\ raced' = IF \/ storedDevice[d] # None
                       \/ \E i \in DOMAIN commands :
                            commands[i].op = "setDevice" /\ commands[i].key = d
                    THEN raced \cup {d} ELSE raced
        /\ UNCHANGED <<requests, replies>>

\* OnClientLogin: u plays on h now; the game data are fetched if not cached.
LoginUser(h, u, origin) ==
    /\ userToHandler' = [userToHandler EXCEPT ![u] = h]
    /\ IF u \in cached
       THEN /\ Respond(u, origin, userToHandler')
            /\ UNCHANGED commands
       ELSE /\ commands' = Append(commands, Command("getGame", u, 0, origin))
            /\ UNCHANGED <<requests, replies>>
    /\ UNCHANGED <<globalId, cached, raced>>

\* The device was looked up for the handler; its parameters are taken from the
\* handler's oldest request.  With no request, GetParamFromSquence raises.
DeviceBack ==
    /\ Back("getDevice")
    /\ LET r == Head(responses)
           h == r.key
           d == Head(requests[h]).device
       IN  IF requests[h] = <<>>
           THEN UNCHANGED <<lua, commands, replies, raced>>
           ELSE IF r.val # None
                THEN LoginUser(h, r.val, r.origin)
                ELSE IF d # None
                     THEN Register(h, d, r.origin)
                     ELSE /\ SendToGateway(h, Oldest(requests[h]), None, r.origin,
                                           requests[h])
                          /\ UNCHANGED <<globalId, cached, userToHandler, commands,
                                         raced>>

\* REGISTERING: the game data, the last key of a registration, are stored.
RegisteringBack ==
    /\ Back("setGame")
    /\ Respond(Head(responses).key, Head(responses).origin, userToHandler)
    /\ UNCHANGED <<globalId, cached, userToHandler, commands, raced>>

\* The game data of a user who logs in.  If there are none, json.decode raises.
GameBack ==
    /\ Back("getGame")
    /\ LET r == Head(responses)
       IN  IF r.val = None
           THEN UNCHANGED <<cached, requests, replies>>
           ELSE /\ cached' = cached \cup {r.key}
                /\ Respond(r.key, r.origin, userToHandler)
    /\ UNCHANGED <<globalId, userToHandler, commands, raced>>

\* The server dies and is started again.
Crash ==
    /\ crashes < MaxCrashes
    /\ crashes' = crashes + 1
    /\ globalId' = None /\ cached' = {}
    /\ userToHandler' = [u \in Users |-> None]
    /\ requests' = [h \in Handlers |-> <<>>]
    /\ commands' = <<FirstCommand>> /\ responses' = <<>>
    /\ UNCHANGED <<redis, asked, replies, bad, crowded, raced>>

Next == \/ \E h \in Handlers : \/ \E d \in Devices : LoginDirect(h, d)
                               \/ LoginBadParameters(h)
                               \/ LoginParametersRaise(h)
                               \/ OtherEvent(h)
        \/ RedisExecutes
        \/ GlobalBack
        \/ DeviceBack
        \/ RegisteringBack
        \/ GameBack
        \/ Crash

Spec == Init /\ [][Next]_vars
-----------------------------------------------------------------------------
Ops == {"getGlobal", "setGlobal", "getDevice", "setDevice", "setGame", "getGame"}

TypeOK ==
    /\ globalId \in Nat \cup {None}
    /\ cached \subseteq Users
    /\ userToHandler \in [Users -> Handlers \cup {None}]
    /\ requests \in [Handlers -> Seq([seq : 1..MaxRequests,
                                      device : Devices \cup {None}])]
    /\ \A i \in DOMAIN commands : commands[i].op \in Ops
    /\ \A i \in DOMAIN responses : responses[i].op \in Ops
    /\ storedGlobal \in Nat \cup {None}
    /\ storedDevice \in [Devices -> Users \cup {None}]
    /\ storedGame \subseteq Users
    /\ asked \in Seq([handler : Handlers, device : Devices \cup {None}])
    /\ crashes \in 0..MaxCrashes
    /\ bad \subseteq 1..MaxRequests
    /\ crowded \subseteq Handlers
    /\ raced \subseteq Devices

\* The stored counter is above every user id that is stored anywhere, whatever
\* prefix of a registration's commands a crash let through: the next process
\* starts from it and must not give an id twice.
IdsBelowGlobal ==
    /\ \A d \in Devices : storedDevice[d] # None =>
         storedGlobal # None /\ storedDevice[d] < storedGlobal
    /\ \A u \in storedGame : storedGlobal # None /\ u < storedGlobal

\* No two devices share a user.
UsersAreDistinct ==
    \A d, e \in Devices :
      (d # e /\ storedDevice[d] # None) => storedDevice[d] # storedDevice[e]

\* A device is never looked up before the counter is known: IncrementGlobalUserId
\* would add one to nil.  Nothing but the order of the commands sees to it.
GlobalLoadedFirst ==
    (responses # <<>> /\ Head(responses).op = "getDevice") => globalId # None

\* The connection that got the reply r had queued a second request before the
\* first was answered, or an earlier request of its was taken off the queue by
\* the answer to another connection.
Confused(r) ==
    \/ r.handler \in crowded
    \/ \E q \in replies : /\ q.handler = r.handler /\ q.seq < r.seq
                          /\ asked[q.origin].handler # q.handler

\* The user a client was told is the one its device has for good, over crashes
\* too, unless the device was looked up twice before it was registered, or the
\* connection is confused.
RepliesDurable ==
    \A r \in replies : r.user # None =>
      LET d == asked[r.origin].device
      IN  storedDevice[d] = r.user \/ d \in raced \/ Confused(r)

\* A reply reaches the connection that asked, under the request's sequence id,
\* or another one that asked for the same device, unless it is confused.
RepliesMatch ==
    \A r \in replies :
      LET a == asked[r.origin]
      IN  \/ r.handler = a.handler /\ r.seq = r.origin
          \/ \E i \in DOMAIN asked : /\ i # r.origin
                                    /\ asked[i].handler = r.handler
                                    /\ asked[i].device = a.device
          \/ Confused(r)

\* login_protocol.lua:29, "bad parameters, return to the client at once".
BadParametersAnswered == \A i \in bad : \E r \in replies : r.seq = i
=============================================================================
