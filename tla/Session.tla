------------------------------ MODULE Session ------------------------------
(***************************************************************************)
(* The logic server's request handling (script/module/protocol.lua and     *)
(* logic_protocol.lua over the managers NetManager, AsyncManager and       *)
(* UserManager): which connection a user plays on, the queue of requests   *)
(* of each connection, the round trips to redis, the cached user objects   *)
(* and the replies.  The Lua VM runs on the libuv loop, so a handler is    *)
(* one step; a round trip is two.                                          *)
(*                                                                         *)
(* The database client executes its queue in order (module DBProxy), so    *)
(* what a GET will read is known when it is pushed: the value of the last  *)
(* SET pushed before it, saved[u], unless redis has lost it or answers     *)
(* with an error.                                                          *)
(***************************************************************************)
EXTENDS Naturals, Sequences, FiniteSets

CONSTANTS
    Users,
    Registered,     \* the users whose game data is in the database
    Handlers,       \* gateway session ids, never reused by a gateway
    Gateway,        \* handler id 0: the gateway's own notices
    None,
    MaxRequests,    \* bound: client requests
    MaxVersions,    \* bound: handlers that change user data
    MaxTrips,       \* bound: round trips begun by handlers
    MaxDisconnects  \* bound: USER_DISCONNECT notices

ASSUME SessionAssumption ==
    /\ Registered \subseteq Users
    /\ Gateway \notin Handlers
    /\ None \notin Users \cup Handlers
    /\ MaxRequests \in Nat /\ MaxVersions \in Nat
    /\ MaxTrips \in Nat /\ MaxDisconnects \in Nat

VARIABLES
    userToHandler,  \* m_tbUserHanderIdMap
    handlerToUser,  \* m_tbHanderIdUserMap
    requests,       \* m_tbRequestSquence: the sequence ids queued per handler
    object,         \* m_tbUserDataPool: the version each cached object holds,
                    \* that is, the number of the handler that changed it last
    dirty,          \* the users whose cached object is dirty
    saved,          \* the version last pushed to the database
    async,          \* m_tbSquence: the round trips whose parameters are kept
    redis,          \* the round trips under way, in the order of pushing
    nextAsync,      \* m_nSquenceId
    askedOn,        \* the handler that sent the request of each sequence id
    nextVersion,
    notices,        \* USER_DISCONNECT notices seen
    gone,           \* history: the handlers whose disconnection was noticed
    replies,        \* history: what was sent to the gateway
    failed,         \* history: the requests whose handler raised an error
    crowded,        \* history: handlers that queued a second request, or on which
                    \* PassRequest was answered a second time
    roamed,         \* history: users who entered with a round trip of theirs out
    fetched,        \* history: users whose data were fetched twice at the same time
    shared          \* history: handlers that two users entered on

maps  == <<userToHandler, handlerToUser>>
data  == <<object, dirty, saved, nextVersion>>
trips == <<async, redis, nextAsync>>
vars  == <<maps, requests, data, trips, askedOn, notices,
           gone, replies, failed, crowded, roamed, fetched, shared>>

\* A round trip of user u for the data of user w: origin is the sequence id of
\* the request it works for.
Trip(k, a, u, w, v, seq) ==
    [kind |-> k, id |-> a, user |-> u, of |-> w, val |-> v, origin |-> seq]

\* The sequence id clients put on the next request.
nextSeq == Len(askedOn) + 1

NoObject == MaxVersions + 1
NoData   == MaxVersions + 2
-----------------------------------------------------------------------------
Init ==
    /\ userToHandler = [u \in Users |-> None]
    /\ handlerToUser = [h \in Handlers |-> None]
    /\ requests = [h \in Handlers \cup {Gateway} |-> <<>>]
    /\ object = [u \in Users |-> NoObject]
    /\ dirty = {}
    /\ saved = [u \in Users |-> IF u \in Registered THEN 0 ELSE NoData]
    /\ async = {} /\ redis = <<>> /\ nextAsync = 1
    /\ askedOn = <<>> /\ nextVersion = 1 /\ notices = 0
    /\ gone = {} /\ replies = {} /\ failed = {}
    /\ crowded = {} /\ roamed = {} /\ fetched = {} /\ shared = {}

\* Mutants of UpdateHandlerIdAndUserId: the old handler keeps its user; the
\* arguments of SetHandlerId are swapped.
UpdateKeepsOld(u, h) ==
    /\ userToHandler' = [userToHandler EXCEPT ![u] = h]
    /\ handlerToUser' = [handlerToUser EXCEPT ![h] = u]
UpdateSwapped(u, h) ==
    /\ userToHandler' = [userToHandler EXCEPT ![u] = u]
    /\ handlerToUser' = [handlerToUser EXCEPT ![h] = u]

\* NetManager:UpdateHandlerIdAndUserId: u plays on h from now on, and the
\* handler u played on before forgets u.
UpdateHandlerIdAndUserId(u, h) ==
    LET old == userToHandler[u]
    IN  /\ userToHandler' = [userToHandler EXCEPT ![u] = h]
        /\ handlerToUser' = [x \in Handlers |->
                               CASE x = h   -> u
                                 [] x = old /\ x # h -> None
                                 [] OTHER   -> handlerToUser[x]]

\* Mutant of ReleaseMaps: ReleaseHandler is left out.
ReleaseUserIdOnly(h, u) ==
    /\ handlerToUser' = [handlerToUser EXCEPT ![h] = None]
    /\ UNCHANGED userToHandler

\* ReleaseUserId and ReleaseHandler, when h is disconnected from its user.
ReleaseMaps(h, u) ==
    /\ handlerToUser' = [handlerToUser EXCEPT ![h] = None]
    /\ userToHandler' = [userToHandler EXCEPT ![u] = None]

\* Mutant of Oldest: takes a queue of one request for an empty one.
OldestOffByOne(queue) == IF Len(queue) <= 1 THEN 0 ELSE Head(queue)

\* NetManager:GetSquenceIdFromSquence
Oldest(queue) == IF queue = <<>> THEN 0 ELSE Head(queue)

\* NetManager:SendToGateway (and SendToRoomServerFromLogic) pops the oldest
\* request of h, whichever request the reply is for.
Reply(h, seq, origin, queue) ==
    /\ requests' = [requests EXCEPT ![h] = Tail(queue)]
    /\ replies' = replies \cup {[handler |-> h, seq |-> seq, origin |-> origin]}

\* Mutant of Get: reads past the SETs that are still queued.
GetOvertakes(kind, u, w, seq) ==
    Trip(kind, nextAsync, u, w, IF saved[w] = NoData THEN NoData ELSE 0, seq)

\* RedisInterface:GetValue and MGetValue push a GET of the data of w and keep
\* its parameters under nextAsync.
Get(kind, u, w, seq) == Trip(kind, nextAsync, u, w, saved[w], seq)

\* The history of overlapping fetches, when one of the data of w is pushed.  The
\* lists of friends (kind "list") are fetched for the client alone.
Fetching(w) ==
    IF \E i \in DOMAIN redis :
         redis[i].of = w /\ redis[i].kind \in {"enter", "call", "quiet"}
    THEN fetched \cup {w} ELSE fetched

\* The sets of cached objects that a handler of u may change: that of u, and of
\* one other user (a friend request, an accepted one), as long as versions last.
Changes(u) ==
    {c \in SUBSET {x \in Users : object[x] # NoObject} :
       /\ Cardinality(c \ {u}) <= 1
       /\ c = {} \/ nextVersion <= MaxVersions}

\* UserManager:SaveUserData pushes a SET of the data of w.  SetValue keeps
\* parameters as GetValue does, under an id it does not send.
Save(ws) == IF ws = {} THEN <<>>
            ELSE LET w == CHOOSE x \in ws : TRUE
                 IN  <<Trip("set", 0, w, w, nextVersion, 0)>>

\* A handler of u changed the objects of changed, which saves the others among
\* them, saved copies of the data of stored, and began the round trips out; rest
\* are the trips under way before it and kept their parameters.  Unless it
\* raised an error, UserManager:Commit then saves the object of u if it is dirty.
Effects(u, changed, stored, out, commits, rest, kept) ==
    LET others == (changed \ {u}) \cup stored
        own    == IF u \in changed THEN nextVersion ELSE object[u]
        save   == commits /\ u \in dirty \cup changed
        pushed == out \o Save(others)
                  \o (IF save THEN <<Trip("set", 0, u, u, own, 0)>> ELSE <<>>)
    IN  /\ object' = [x \in Users |->
                        IF x \in changed THEN nextVersion ELSE object[x]]
        /\ nextVersion' = nextVersion +
                            (IF changed \cup stored = {} THEN 0 ELSE 1)
        /\ dirty' = (dirty \cup changed) \ (IF save THEN {u} ELSE {})
        /\ saved' = [x \in Users |-> IF x = u /\ save THEN own
                                     ELSE IF x \in others THEN nextVersion
                                     ELSE saved[x]]
        /\ redis' = rest \o pushed
        /\ nextAsync' = nextAsync + Len(pushed)
        /\ async' = kept \cup (nextAsync .. nextAsync + Len(pushed) - 1)

\* ClientRequest for the user u of h, with queue waiting on h: the registered
\* handler returns a code and results, which are sent at once ...
Answer(h, u, seq, origin, queue) ==
    /\ Reply(h, seq, origin, queue)
    /\ \E changed \in Changes(u) :
         Effects(u, changed, {}, <<>>, TRUE, redis, async)
    /\ UNCHANGED fetched

\* ... or ASYN_EVENT, after it asked for the data of another user who is not
\* cached (SearchUser, AddFriend) or of a list of users (GetFriendList) ...
Defer(h, u, origin, queue) ==
    /\ nextAsync <= MaxTrips
    /\ requests' = [requests EXCEPT ![h] = queue]
    /\ \E w \in Users \ {u} :
         \/ /\ object[w] = NoObject
            /\ Effects(u, {}, {}, <<Get("call", u, w, origin)>>, TRUE, redis, async)
            /\ fetched' = Fetching(w)
         \/ /\ Effects(u, {}, {}, <<Get("list", u, w, origin)>>, TRUE, redis, async)
            /\ UNCHANGED fetched
    /\ UNCHANGED replies

\* ... or answers, and asks for the data of a user who is to be changed as well
\* (PassRequest; its callback answers nothing if it gets them) ...
AnswerAndFetch(h, u, seq, origin, queue) ==
    /\ nextAsync <= MaxTrips
    /\ Reply(h, seq, origin, queue)
    /\ \E w \in Users \ {u}, changed \in SUBSET {u} :
         /\ object[w] = NoObject /\ saved[w] # NoData
         /\ changed \in Changes(u)
         /\ Effects(u, changed, {}, <<Get("quiet", u, w, origin)>>, TRUE,
                    redis, async)
         /\ fetched' = Fetching(w)

\* ... or raises an error: neither a reply nor a Commit.  OnClientRequest then
\* removes the oldest request of h.
Raise(h, u, queue) ==
    /\ requests' = [requests EXCEPT ![h] = Tail(queue)]
    /\ \E changed \in Changes(u) :
         /\ changed \subseteq {u}
         /\ Effects(u, changed, {}, <<>>, FALSE, redis, async)
    /\ UNCHANGED <<replies, fetched>>
-----------------------------------------------------------------------------
\* OnClientRequest queues a request before anything else.  The gateway sends
\* nothing of a connection after the notice that it is closed.
Arrives(h) ==
    /\ h \notin gone
    /\ nextSeq <= MaxRequests
    /\ askedOn' = Append(askedOn, h)
    /\ crowded' = IF requests[h] = <<>> THEN crowded ELSE crowded \cup {h}
    /\ UNCHANGED <<notices, gone>>

Queued(h) == Append(requests[h], nextSeq)

\* OnClientEnterHall first moves the user to this handler.
Enters(h, u) ==
    /\ Arrives(h)
    /\ UpdateHandlerIdAndUserId(u, h)
    /\ shared' = IF handlerToUser[h] \in {None, u} THEN shared ELSE shared \cup {h}
    /\ roamed' = IF \E i \in DOMAIN redis :
                       redis[i].user = u /\ redis[i].kind # "set"
                 THEN roamed \cup {u} ELSE roamed

\* ENTER_GAME of a user who is cached: the reply carries the oldest sequence id.
EnterCached(h, u) ==
    /\ object[u] # NoObject
    /\ Enters(h, u)
    /\ Reply(h, Oldest(Queued(h)), nextSeq, Queued(h))
    /\ UNCHANGED <<data, trips, failed, fetched>>

\* ENTER_GAME of a user who is not: the game data are fetched first.
EnterUncached(h, u) ==
    /\ object[u] = NoObject
    /\ nextAsync <= MaxTrips
    /\ Enters(h, u)
    /\ requests' = [requests EXCEPT ![h] = Queued(h)]
    /\ redis' = Append(redis, Get("enter", u, u, nextSeq))
    /\ async' = async \cup {nextAsync}
    /\ nextAsync' = nextAsync + 1
    /\ fetched' = Fetching(u)
    /\ UNCHANGED <<data, replies, failed>>

\* Any other event of a connection on which nobody has entered: ClientRequest
\* returns false, and the request stays queued.
NotEntered(h) ==
    /\ handlerToUser[h] = None
    /\ Arrives(h)
    /\ requests' = [requests EXCEPT ![h] = Queued(h)]
    /\ UNCHANGED <<maps, data, trips, replies, failed, roamed, fetched, shared>>

\* Any other event of an entered user.
Request(h) ==
    /\ handlerToUser[h] # None
    /\ Arrives(h)
    /\ LET u == handlerToUser[h]
       IN  \/ /\ \/ Answer(h, u, nextSeq, nextSeq, Queued(h))
                 \/ Defer(h, u, nextSeq, Queued(h))
                 \/ AnswerAndFetch(h, u, nextSeq, nextSeq, Queued(h))
              /\ UNCHANGED failed
           \/ /\ Raise(h, u, Queued(h))
              /\ failed' = failed \cup {nextSeq}
    /\ UNCHANGED <<maps, roamed, shared>>

\* NetManager:OnUserDisconnect for the handler x in the event's body: the user
\* of x is released, if there is one.
OnUserDisconnect(x) ==
    LET u == handlerToUser[x]
    IN  IF u = None
        THEN UNCHANGED <<maps, data>>
        ELSE /\ ReleaseMaps(x, u)
             /\ object' = [object EXCEPT ![u] = NoObject]
             /\ dirty' = dirty \ {u}
             /\ UNCHANGED <<saved, nextVersion>>

\* The gateway's notice that h is closed.  The notice itself is queued under
\* handler 0 and never removed.
UserDisconnect(h) ==
    /\ notices < MaxDisconnects
    /\ notices' = notices + 1
    /\ requests' = [requests EXCEPT ![Gateway] = Append(@, 0)]
    /\ gone' = gone \cup {h}
    /\ OnUserDisconnect(h)
    /\ UNCHANGED <<trips, askedOn, replies, failed, crowded, roamed, fetched,
                   shared>>

\* USER_DISCONNECT from a client: the gateway forwards every event, and nobody
\* asks where this one comes from.  Its body names any handler, or none.  The
\* request is not answered and stays queued.
ClientDisconnect(h) ==
    /\ Arrives(h)
    /\ requests' = [requests EXCEPT ![h] = Queued(h)]
    /\ (\E x \in Handlers : OnUserDisconnect(x)) \/ UNCHANGED <<maps, data>>
    /\ UNCHANGED <<trips, replies, failed, roamed, fetched, shared>>
-----------------------------------------------------------------------------
\* The first round trip under way comes back (OnRedisRespone).
Back(kind) ==
    /\ redis # <<>>
    /\ Head(redis).kind = kind
    /\ UNCHANGED <<maps, askedOn, notices, gone, failed, roamed, fetched, shared>>

\* The game data of an entering user: cached, whatever was cached meanwhile,
\* and answered on the handler the user plays on now, if that has a request.
\* Without data table.insert raises on "", and json.decode on the text of an
\* error: no reply, and nothing changes.
EnterBack ==
    /\ Back("enter")
    /\ LET t == Head(redis)
           h == userToHandler[t.user]
       IN  /\ \/ /\ t.val # NoData
                 /\ object' = [object EXCEPT ![t.user] = t.val]
                 /\ dirty' = dirty \ {t.user}
                 /\ IF h = None
                    THEN UNCHANGED <<requests, replies>>
                    ELSE IF requests[h] = <<>>
                         THEN UNCHANGED <<requests, replies>>
                         ELSE Reply(h, Oldest(requests[h]), t.origin, requests[h])
              \/ UNCHANGED <<object, dirty, requests, replies>>
           /\ async' = async \ {t.id}
    /\ redis' = Tail(redis)
    /\ UNCHANGED <<saved, nextVersion, nextAsync, crowded>>

\* The copies a callback may save: AddFriendRequest and UserAddFriend change the
\* fetched data, if there are any, and SaveUserData saves them when dirty.
Copies(t) ==
    {{}} \cup (IF t.kind # "list" /\ t.val # NoData /\ nextVersion <= MaxVersions
               THEN {{t.of}} ELSE {})

\* A handler's round trip (OnRedisCallback): ClientRequest goes on for the
\* handler its user plays on now, under that handler's oldest sequence id.
CallBack(kind) ==
    /\ Back(kind)
    /\ LET t    == Head(redis)
           h    == userToHandler[t.user]
           kept == async \ {t.id}
       IN  \/ /\ h # None
              /\ handlerToUser[h] # None
              /\ t.id \in async
              /\ LET u     == handlerToUser[h]
                     queue == requests[h]
                     ends(stored, commits) ==
                       Effects(u, {}, stored, <<>>, commits, Tail(redis), kept)
                 IN  \E stored \in Copies(t) :
                       \* The callback of PassRequest returns ASYN_EVENT ...
                       \/ /\ kind = "quiet"
                          /\ ends(stored, TRUE)
                          /\ UNCHANGED <<requests, replies, crowded>>
                       \* ... but false if the inviter's data have not come, and
                       \* that, like what others return, is sent.
                       \/ /\ kind = "quiet" => stored = {}
                          /\ queue # <<>>
                          /\ ends(stored, TRUE)
                          /\ Reply(h, Oldest(queue), t.origin, queue)
                          /\ crowded' = IF kind = "quiet" THEN crowded \cup {h}
                                        ELSE crowded
                       \* SendToGateway raises when no request is queued.
                       \/ /\ kind = "quiet" => stored = {}
                          /\ queue = <<>>
                          /\ ends(stored, FALSE)
                          /\ UNCHANGED <<requests, replies, crowded>>
           \* The user is offline, the handler was left by another user of it,
           \* unpack raises for want of parameters, or the callback raises.
           \/ /\ redis' = Tail(redis)
              /\ async' = kept
              /\ UNCHANGED <<data, requests, replies, nextAsync, crowded>>

\* A SET comes back.  DB_SetBufferHead left its sequence id uninitialized, so
\* the parameters of any one round trip, or of none, are dropped.
SetBack ==
    /\ Back("set")
    /\ \E lost \in async \cup {0} : async' = async \ {lost}
    /\ redis' = Tail(redis)
    /\ UNCHANGED <<data, requests, replies, nextAsync, crowded>>

Next == \/ \E h \in Handlers :
             \/ \E u \in Users : EnterCached(h, u) \/ EnterUncached(h, u)
             \/ NotEntered(h)
             \/ Request(h)
             \/ UserDisconnect(h)
             \/ ClientDisconnect(h)
        \/ EnterBack
        \/ \E kind \in {"call", "list", "quiet"} : CallBack(kind)
        \/ SetBack

Spec == Init /\ [][Next]_vars
-----------------------------------------------------------------------------
Version == 0..MaxVersions

TypeOK ==
    /\ userToHandler \in [Users -> Handlers \cup {None}]
    /\ handlerToUser \in [Handlers -> Users \cup {None}]
    /\ requests \in [Handlers \cup {Gateway} -> Seq(0..MaxRequests)]
    /\ object \in [Users -> Version \cup {NoObject}]
    /\ dirty \subseteq {u \in Users : object[u] # NoObject}
    /\ saved \in [Users -> Version \cup {NoData}]
    /\ nextVersion \in 1..(MaxVersions + 1)
    /\ nextAsync \in Nat \ {0}
    /\ async \subseteq 1..(nextAsync - 1)
    /\ redis \in Seq([kind : {"enter", "call", "list", "quiet", "set"}, id : Nat,
                      user : Users, of : Users, val : Version \cup {NoData},
                      origin : 0..MaxRequests])
    /\ askedOn \in Seq(Handlers) /\ Len(askedOn) <= MaxRequests
    /\ notices \in 0..MaxDisconnects
    /\ replies \subseteq [handler : Handlers, seq : 0..MaxRequests,
                          origin : 1..MaxRequests]
    /\ failed \subseteq 1..MaxRequests
    /\ gone \subseteq Handlers /\ crowded \subseteq Handlers
    /\ shared \subseteq Handlers
    /\ roamed \subseteq Users /\ fetched \subseteq Users

\* The two maps never contradict each other about who plays on a handler:
\* the user a handler belongs to is online on that handler.  OnUserDisconnect
\* and SendNoticeToUser rely on it.
HandlerMapsAgree ==
    \A h \in Handlers, u \in Users :
      handlerToUser[h] = u => userToHandler[u] = h

\* A user counted as online (UserIsOnline) is the user of an open connection,
\* unless two users entered on that connection one after the other.
OnlineIsReachable ==
    \A u \in Users, h \in Handlers :
      (userToHandler[u] = h /\ h \notin shared) =>
        /\ handlerToUser[h] = u
        /\ h \notin gone

\* A reply goes to the connection that asked and carries the sequence id of
\* the request it answers, if that connection had one request at a time queued
\* and nobody entered with a round trip out.  The queues are popped from the
\* front, whatever request a reply is for, so the proviso is needed; and the
\* callback of PassRequest, which was answered before, must not answer again.
RepliesMatch ==
    \A r \in replies :
      \/ r.seq = r.origin /\ r.handler = askedOn[r.origin]
      \/ r.handler \in crowded
      \/ roamed # {}

\* A cached object is never older than what was saved for its user, unless the
\* user's data were fetched twice at the same time, to enter or for another
\* user's request: then one of the two replaces what the other led to.
CacheNotStale ==
    \A u \in Users :
      \/ object[u] = NoObject \/ saved[u] = NoData
      \/ object[u] >= saved[u]
      \/ u \in fetched

\* protocol.lua:36, "on an error, remove the request from the queue": a request
\* whose handler raised is not queued any more.
FailedIsRemoved ==
    \A h \in Handlers, i \in 1..MaxRequests :
      i \in DOMAIN requests[h] => requests[h][i] \notin failed
=============================================================================
