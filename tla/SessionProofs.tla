--------------------------- MODULE SessionProofs ---------------------------
(***************************************************************************)
(* What Session guarantees for every set of users and handlers and every   *)
(* bound.                                                                  *)
(***************************************************************************)
EXTENDS Session, FiniteSetTheorems, TLAPS

\* The part of TypeOK the two maps need.
MapsTypeOK ==
    /\ userToHandler \in [Users -> Handlers \cup {None}]
    /\ handlerToUser \in [Handlers -> Users \cup {None}]

\* The invariants about the maps; each is inductive once MapsTypeOK is.
MapsInv == MapsTypeOK /\ HandlerMapsAgree /\ OnlineIsReachable

\* Moving a user to an open handler (UpdateHandlerIdAndUserId, called by
\* OnClientEnterHall) leaves the maps consistent.
LEMMA EntersPreservesMaps ==
    ASSUME MapsInv,
           NEW h \in Handlers, NEW u \in Users,
           Enters(h, u), gone' = gone
    PROVE  MapsInv'
<1>0. /\ None \notin Users /\ None \notin Handlers
      /\ h \notin gone
      /\ userToHandler' = [userToHandler EXCEPT ![u] = h]
      /\ handlerToUser' = [x \in Handlers |->
                             CASE x = h -> u
                               [] x = userToHandler[u] /\ x # h -> None
                               [] OTHER -> handlerToUser[x]]
      /\ shared' = IF handlerToUser[h] \in {None, u} THEN shared
                   ELSE shared \cup {h}
  BY SessionAssumption DEF Enters, Arrives, UpdateHandlerIdAndUserId
<1>1. /\ handlerToUser'[h] = u
      /\ \A x \in Handlers \ {h} :
           handlerToUser'[x] = IF x = userToHandler[u] THEN None
                               ELSE handlerToUser[x]
  BY <1>0
<1>2. /\ userToHandler'[u] = h
      /\ \A v \in Users \ {u} : userToHandler'[v] = userToHandler[v]
  BY <1>0 DEF MapsInv, MapsTypeOK
<1>3. MapsTypeOK'
  <2>1. \A x \in Handlers : handlerToUser'[x] \in Users \cup {None}
    BY <1>1 DEF MapsInv, MapsTypeOK
  <2> QED BY <2>1, <1>0 DEF MapsInv, MapsTypeOK
<1>4. HandlerMapsAgree'
  <2> SUFFICES ASSUME NEW x \in Handlers, NEW v \in Users,
                      handlerToUser'[x] = v
               PROVE  userToHandler'[v] = x
    BY DEF HandlerMapsAgree
  <2>1. CASE x = h
    BY <2>1, <1>1, <1>2
  <2>2. CASE x # h
    <3>1. handlerToUser[x] = v /\ x # userToHandler[u]
      BY <2>2, <1>0, <1>1
    <3>2. userToHandler[v] = x
      BY <3>1 DEF MapsInv, HandlerMapsAgree
    <3> QED BY <3>1, <3>2, <1>2
  <2> QED BY <2>1, <2>2
<1>5. OnlineIsReachable'
  <2> SUFFICES ASSUME NEW v \in Users, NEW x \in Handlers,
                      userToHandler'[v] = x, x \notin shared'
               PROVE  handlerToUser'[x] = v /\ x \notin gone
    BY DEF OnlineIsReachable
  <2>0. x \notin shared
    BY <1>0
  <2>1. CASE v = u
    BY <2>1, <1>0, <1>1, <1>2
  <2>2. CASE v # u
    <3>1. userToHandler[v] = x
      BY <2>2, <1>2
    <3>2. handlerToUser[x] = v /\ x \notin gone
      BY <2>0, <3>1 DEF MapsInv, OnlineIsReachable
    <3>3. x # h
      BY <3>2, <2>2, <1>0
    <3>4. x # userToHandler[u]
      BY <2>0, <2>2, <3>2 DEF MapsInv, OnlineIsReachable
    <3> QED BY <3>2, <3>3, <3>4, <1>1
  <2> QED BY <2>1, <2>2
<1> QED BY <1>3, <1>4, <1>5 DEF MapsInv

\* A USER_DISCONNECT (OnUserDisconnect: ReleaseUserId, ReleaseHandler), of the
\* gateway or of a client, leaves the maps consistent.
LEMMA DisconnectPreservesMaps ==
    ASSUME MapsInv, NEW h \in Handlers, OnUserDisconnect(h),
           gone' \in {gone, gone \cup {h}}, shared' = shared
    PROVE  MapsInv'
<1>0. None \notin Users /\ None \notin Handlers
      /\ gone' \subseteq gone \cup {h} /\ shared' = shared
  BY SessionAssumption
<1>1. CASE handlerToUser[h] = None
  <2>1. UNCHANGED maps
    BY <1>1 DEF OnUserDisconnect
  <2>2. \A v \in Users : h \notin shared => userToHandler[v] # h
    BY <1>0, <1>1 DEF MapsInv, OnlineIsReachable
  <2> QED BY <1>0, <2>1, <2>2
          DEF maps, MapsInv, MapsTypeOK, HandlerMapsAgree, OnlineIsReachable
<1>2. CASE handlerToUser[h] # None
  <2> DEFINE u == handlerToUser[h]
  <2>0. u \in Users /\ userToHandler[u] = h
    BY <1>2 DEF MapsInv, MapsTypeOK, HandlerMapsAgree
  <2>1. /\ handlerToUser' = [handlerToUser EXCEPT ![h] = None]
        /\ userToHandler' = [userToHandler EXCEPT ![u] = None]
    BY <1>2 DEF OnUserDisconnect, ReleaseMaps
  <2>2. MapsTypeOK'
    BY <2>1 DEF MapsInv, MapsTypeOK
  <2>3. /\ handlerToUser'[h] = None
        /\ \A x \in Handlers \ {h} : handlerToUser'[x] = handlerToUser[x]
        /\ userToHandler'[u] = None
        /\ \A v \in Users \ {u} : userToHandler'[v] = userToHandler[v]
    BY <2>0, <2>1 DEF MapsInv, MapsTypeOK
  <2> HIDE DEF u
  <2>4. HandlerMapsAgree'
    <3> SUFFICES ASSUME NEW x \in Handlers, NEW v \in Users,
                        handlerToUser'[x] = v
                 PROVE  userToHandler'[v] = x
      BY DEF HandlerMapsAgree
    <3>1. x # h /\ handlerToUser[x] = v
      BY <1>0, <2>3
    <3>2. userToHandler[v] = x
      BY <3>1 DEF MapsInv, HandlerMapsAgree
    <3> QED BY <2>0, <2>3, <3>1, <3>2
  <2>5. OnlineIsReachable'
    <3> SUFFICES ASSUME NEW v \in Users, NEW x \in Handlers,
                        userToHandler'[v] = x, x \notin shared
                 PROVE  handlerToUser'[x] = v /\ x \notin gone'
      BY <1>0 DEF OnlineIsReachable
    <3>1. v # u /\ userToHandler[v] = x
      BY <1>0, <2>0, <2>3
    <3>2. handlerToUser[x] = v /\ x \notin gone
      BY <3>1 DEF MapsInv, OnlineIsReachable
    <3>3. x # h
      BY <3>1, <3>2 DEF u
    <3> QED BY <1>0, <2>3, <3>2, <3>3
  <2> QED BY <2>2, <2>4, <2>5 DEF MapsInv
<1> QED BY <1>1, <1>2

\* Every other handler leaves the maps alone.
LEMMA MapsInvInductive == MapsInv /\ [Next]_vars => MapsInv'
<1> SUFFICES ASSUME MapsInv, [Next]_vars PROVE MapsInv'
  OBVIOUS
<1>1. ASSUME UNCHANGED <<maps, gone, shared>> PROVE MapsInv'
  BY <1>1 DEF maps, MapsInv, MapsTypeOK, HandlerMapsAgree, OnlineIsReachable
<1>2. ASSUME NEW h \in Handlers, NEW u \in Users,
             EnterCached(h, u) \/ EnterUncached(h, u)
      PROVE  MapsInv'
  <2>1. Enters(h, u) /\ gone' = gone
    BY <1>2 DEF EnterCached, EnterUncached, Enters, Arrives
  <2> QED BY <2>1, EntersPreservesMaps
<1>3. ASSUME NEW h \in Handlers, NotEntered(h) PROVE MapsInv'
  BY <1>3, <1>1 DEF NotEntered, Arrives
<1>4. ASSUME NEW h \in Handlers, Request(h) PROVE MapsInv'
  BY <1>4, <1>1 DEF Request, Arrives
<1>5. ASSUME NEW h \in Handlers, UserDisconnect(h) PROVE MapsInv'
  BY <1>5, DisconnectPreservesMaps DEF UserDisconnect
<1>10. ASSUME NEW h \in Handlers, ClientDisconnect(h) PROVE MapsInv'
  <2>1. UNCHANGED <<gone, shared>>
    BY <1>10 DEF ClientDisconnect, Arrives
  <2>2. CASE UNCHANGED <<maps, data>>
    BY <1>1, <2>1, <2>2
  <2>3. CASE \E x \in Handlers : OnUserDisconnect(x)
    BY <2>1, <2>3, DisconnectPreservesMaps
  <2> QED BY <1>10, <2>2, <2>3 DEF ClientDisconnect
<1>6. CASE EnterBack
  BY <1>6, <1>1 DEF EnterBack, Back
<1>7. ASSUME NEW kind \in {"call", "list", "quiet"}, CallBack(kind)
      PROVE  MapsInv'
  BY <1>7, <1>1 DEF CallBack, Back
<1>8. CASE SetBack
  BY <1>8, <1>1 DEF SetBack, Back
<1>9. CASE UNCHANGED vars
  BY <1>9, <1>1 DEF vars
<1> QED BY <1>2, <1>3, <1>4, <1>5, <1>6, <1>7, <1>8, <1>9, <1>10 DEF Next

\* At start-up both maps of NetManager are empty.
LEMMA MapsInvInitially == Init => MapsInv
  BY SessionAssumption
     DEF Init, MapsInv, MapsTypeOK, HandlerMapsAgree, OnlineIsReachable

\* Whatever the order of requests, re-entries and disconnections, the handler
\* NetManager finds for a user belongs to that user (GetUserId, GetHandlerId).
THEOREM MapsAlwaysAgree == Spec => []HandlerMapsAgree
<1>1. MapsInv => HandlerMapsAgree
  BY DEF MapsInv
<1> QED BY <1>1, MapsInvInitially, MapsInvInductive, PTL DEF Spec

\* UserIsOnline is right: the connection of an online user is open and his,
\* unless two users entered on it.
THEOREM OnlineUsersAreReachable == Spec => []OnlineIsReachable
<1>1. MapsInv => OnlineIsReachable
  BY DEF MapsInv
<1> QED BY <1>1, MapsInvInitially, MapsInvInductive, PTL DEF Spec
-----------------------------------------------------------------------------
Kinds == {"enter", "call", "list", "quiet", "set"}
Fetches == {"enter", "call", "list", "quiet"}
Ids == 0..MaxRequests

\* A round trip that fetches works for a request that was sent; a SET for none.
Trips == {t \in [kind : Kinds, id : Nat, user : Users, of : Users,
                 val : Version \cup {NoData}, origin : Ids] :
            t.kind # "set" => t.origin \in 1..MaxRequests}

\* TypeOK alone is not inductive: a reply's origin is that of a round trip.
TypeInv == TypeOK /\ redis \in Seq(Trips)

\* The two markers for "no object" and "no data" are not versions.
LEMMA VersionFacts ==
    /\ NoObject \notin Version /\ NoData \notin Version /\ NoData # NoObject
    /\ Version \subseteq Nat
  BY SessionAssumption DEF Version, NoObject, NoData

\* The parts of TypeOK about data and round trips (all that Effects changes).
DataOK ==
    /\ object \in [Users -> Version \cup {NoObject}]
    /\ dirty \subseteq {u \in Users : object[u] # NoObject}
    /\ saved \in [Users -> Version \cup {NoData}]
    /\ nextVersion \in 1..(MaxVersions + 1)
    /\ nextAsync \in Nat \ {0}
    /\ async \subseteq 1..(nextAsync - 1)
    /\ redis \in Seq(Trips)

\* The other parts.
RequestsOK ==
    /\ requests \in [Handlers \cup {Gateway} -> Seq(Ids)]
    /\ replies \subseteq [handler : Handlers, seq : Ids, origin : 1..MaxRequests]
FrameOK ==
    /\ askedOn \in Seq(Handlers) /\ Len(askedOn) <= MaxRequests
    /\ notices \in 0..MaxDisconnects
    /\ gone \subseteq Handlers /\ crowded \subseteq Handlers
    /\ shared \subseteq Handlers /\ roamed \subseteq Users

\* TypeInv splits into parts, by the managers whose state they describe.
LEMMA TypeParts ==
    TypeInv <=> /\ DataOK /\ RequestsOK /\ FrameOK /\ MapsTypeOK
                /\ failed \subseteq 1..MaxRequests /\ fetched \subseteq Users
<1>1. Seq(Trips) \subseteq
        Seq([kind : Kinds, id : Nat, user : Users, of : Users,
             val : Version \cup {NoData}, origin : Ids])
  <2> DEFINE T == [kind : Kinds, id : Nat, user : Users, of : Users,
                   val : Version \cup {NoData}, origin : Ids]
  <2>1. Trips \subseteq T
    BY DEF Trips
  <2> HIDE DEF T
  <2>2. Seq(Trips) \subseteq Seq(T)
    BY <2>1
  <2> QED BY <2>2 DEF T
<1> QED BY <1>1 DEF TypeInv, TypeOK, DataOK, RequestsOK, FrameOK, MapsTypeOK,
                    Kinds, Ids

\* UserManager:SaveUserData and Commit keep versions and round trips well
\* formed, whatever a handler changed.
LEMMA EffectsType ==
    ASSUME DataOK,
           NEW u \in Users, NEW changed \in SUBSET Users,
           NEW stored \in SUBSET Users,
           changed \cup stored # {} => nextVersion <= MaxVersions,
           NEW out \in Seq(Trips), NEW commits \in BOOLEAN,
           NEW rest \in Seq(Trips), NEW kept \in SUBSET (1..(nextAsync - 1)),
           Effects(u, changed, stored, out, commits, rest, kept)
    PROVE  DataOK'
<1> DEFINE others == (changed \ {u}) \cup stored
           own    == IF u \in changed THEN nextVersion ELSE object[u]
           save   == commits /\ u \in dirty \cup changed
           pushed == out \o Save(others)
                     \o (IF save THEN <<Trip("set", 0, u, u, own, 0)>> ELSE <<>>)
<1>0. /\ MaxRequests \in Nat /\ MaxVersions \in Nat
      /\ NoObject \notin Version /\ NoData \notin Version
      /\ nextVersion \in Nat /\ nextVersion >= 1
      /\ nextAsync \in Nat /\ nextAsync >= 1
      /\ \A x \in Users : object[x] # NoObject => object[x] \in Version
      /\ \A x \in dirty : x \in Users /\ object[x] # NoObject
  BY SessionAssumption, VersionFacts DEF DataOK
<1>1. changed \cup stored # {} => nextVersion \in Version
  BY <1>0 DEF Version
<1>2. save => own \in Version
  BY <1>0, <1>1
<1>3. Save(others) \in Seq(Trips)
  <2>1. CASE others = {}
    BY <2>1 DEF Save
  <2>2. CASE others # {}
    <3> DEFINE w == CHOOSE x \in others : TRUE
    <3>1. w \in Users
      BY <2>2
    <3>2. nextVersion \in Version
      BY <2>2, <1>1
    <3> HIDE DEF w
    <3>3. Trip("set", 0, w, w, nextVersion, 0) \in Trips
      BY <1>0, <3>1, <3>2 DEF Trip, Trips, Kinds, Ids
    <3> QED BY <2>2, <3>3 DEF Save, w
  <2> QED BY <2>1, <2>2
<1>4. (IF save THEN <<Trip("set", 0, u, u, own, 0)>> ELSE <<>>) \in Seq(Trips)
  <2> HIDE DEF own, save
  <2>1. save => Trip("set", 0, u, u, own, 0) \in Trips
    BY <1>0, <1>2 DEF Trip, Trips, Kinds, Ids
  <2> QED BY <2>1
<1>5. pushed \in Seq(Trips)
  <2> HIDE DEF others, save, own
  <2> QED BY <1>3, <1>4
<1>6. /\ object' = [x \in Users |-> IF x \in changed THEN nextVersion
                                    ELSE object[x]]
      /\ nextVersion' = nextVersion +
                           (IF changed \cup stored = {} THEN 0 ELSE 1)
      /\ dirty' = (dirty \cup changed) \ (IF save THEN {u} ELSE {})
      /\ saved' = [x \in Users |-> IF x = u /\ save THEN own
                                   ELSE IF x \in others THEN nextVersion
                                   ELSE saved[x]]
      /\ redis' = rest \o pushed
      /\ nextAsync' = nextAsync + Len(pushed)
      /\ async' = kept \cup (nextAsync .. nextAsync + Len(pushed) - 1)
  BY DEF Effects
<1>7. /\ object' \in [Users -> Version \cup {NoObject}]
      /\ dirty' \subseteq {x \in Users : object'[x] # NoObject}
  BY <1>0, <1>1, <1>6 DEF DataOK
<1>8. saved' \in [Users -> Version \cup {NoData}]
  <2>1. \A x \in others : nextVersion \in Version
    BY <1>1
  <2> HIDE DEF others, own, save
  <2> QED BY <2>1, <1>2, <1>6 DEF DataOK
<1>9. nextVersion' \in 1..(MaxVersions + 1)
  BY <1>0, <1>6 DEF DataOK
<1>10. /\ nextAsync' \in Nat \ {0}
       /\ async' \subseteq 1..(nextAsync' - 1)
       /\ redis' \in Seq(Trips)
  <2> HIDE DEF pushed
  <2>1. Len(pushed) \in Nat
    BY <1>5
  <2>2. nextAsync' \in Nat \ {0} /\ nextAsync <= nextAsync'
    BY <1>0, <1>6, <2>1
  <2>3. async' \subseteq 1..(nextAsync' - 1)
    <3> PICK n \in Nat : n = Len(pushed)
      BY <2>1
    <3>1. /\ async' = kept \cup (nextAsync .. nextAsync + n - 1)
          /\ nextAsync' = nextAsync + n
      BY <1>6
    <3>2. kept \subseteq 1..(nextAsync + n - 1)
      BY <1>0
    <3>3. (nextAsync .. nextAsync + n - 1) \subseteq 1..(nextAsync + n - 1)
      BY <1>0
    <3>4. nextAsync' - 1 = nextAsync + n - 1
      BY <1>0, <3>1
    <3> QED BY <3>1, <3>2, <3>3, <3>4
  <2>4. redis' \in Seq(Trips)
    BY <1>5, <1>6
  <2> QED BY <2>2, <2>3, <2>4
<1> QED BY <1>7, <1>8, <1>9, <1>10 DEF DataOK

\* A reply takes a request from a queue that has one.
LEMMA ReplyType ==
    ASSUME RequestsOK, NEW h \in Handlers, NEW queue \in Seq(Ids), queue # <<>>,
           NEW seq \in Ids, NEW origin \in 1..MaxRequests,
           Reply(h, seq, origin, queue)
    PROVE  RequestsOK'
<1>1. Tail(queue) \in Seq(Ids)
  OBVIOUS
<1> QED BY <1>1 DEF RequestsOK, Reply

\* What Get pushes for a request that was sent is a round trip.
LEMMA GetType ==
    ASSUME DataOK, NEW kind \in Fetches, NEW u \in Users, NEW w \in Users,
           NEW seq \in 1..MaxRequests
    PROVE  <<Get(kind, u, w, seq)>> \in Seq(Trips)
<1>1. saved[w] \in Version \cup {NoData} /\ nextAsync \in Nat
  BY DEF DataOK
<1>2. kind \in Kinds /\ kind # "set" /\ seq \in Ids
  BY SessionAssumption DEF Fetches, Kinds, Ids
<1>3. Get(kind, u, w, seq) \in Trips
  BY <1>1, <1>2 DEF Get, Trip, Trips
<1> QED BY <1>3

\* A request that arrives gets the next sequence id and is queued.
LEMMA ArrivesType ==
    ASSUME RequestsOK, FrameOK, NEW h \in Handlers, Arrives(h)
    PROVE  /\ nextSeq \in 1..MaxRequests
           /\ Queued(h) \in Seq(Ids) /\ Queued(h) # <<>>
           /\ askedOn' \in Seq(Handlers) /\ Len(askedOn') <= MaxRequests
           /\ crowded' \subseteq Handlers
           /\ notices' = notices /\ gone' = gone
<1>1. nextSeq \in 1..MaxRequests
  BY SessionAssumption DEF Arrives, nextSeq, FrameOK
<1>2. requests[h] \in Seq(Ids)
  BY DEF RequestsOK
<1>3. nextSeq \in Ids
  BY <1>1 DEF Ids
<1>4. Queued(h) \in Seq(Ids) /\ Queued(h) # <<>>
  <2> HIDE DEF nextSeq
  <2> QED BY <1>2, <1>3 DEF Queued
<1>5. /\ askedOn' \in Seq(Handlers) /\ Len(askedOn') <= MaxRequests
      /\ crowded' \subseteq Handlers
      /\ notices' = notices /\ gone' = gone
  BY <1>1 DEF Arrives, FrameOK, nextSeq
<1> QED BY <1>1, <1>4, <1>5

\* GetSquenceIdFromSquence returns a sequence id, or 0 for an empty queue.
LEMMA OldestType ==
    ASSUME NEW queue \in Seq(Ids)
    PROVE  Oldest(queue) \in Ids
<1>1. 0 \in Ids
  BY SessionAssumption DEF Ids
<1>2. queue # <<>> => Head(queue) \in Ids
  OBVIOUS
<1> QED BY <1>1, <1>2 DEF Oldest

\* Answer, Defer, AnswerAndFetch and Raise: what a registered handler may do.
LEMMA RequestType ==
    ASSUME TypeInv, NEW h \in Handlers, Request(h)
    PROVE  /\ DataOK' /\ RequestsOK' /\ FrameOK'
           /\ failed' \subseteq 1..MaxRequests /\ fetched' \subseteq Users
<1> DEFINE u == handlerToUser[h]
           queue == Queued(h)
<1>0. /\ DataOK /\ RequestsOK /\ FrameOK /\ MapsTypeOK
      /\ failed \subseteq 1..MaxRequests /\ fetched \subseteq Users
      /\ Arrives(h) /\ u # None
      /\ UNCHANGED <<roamed, shared>>
  BY TypeParts DEF Request
<1>1. u \in Users
  BY <1>0 DEF MapsTypeOK
<1>2. /\ nextSeq \in 1..MaxRequests /\ nextSeq \in Ids
      /\ queue \in Seq(Ids) /\ queue # <<>>
  BY <1>0, ArrivesType DEF Ids
<1>3. FrameOK'
  BY <1>0, ArrivesType DEF FrameOK
<1>4. \A c \in Changes(u) :
        c \subseteq Users /\ (c \cup {} # {} => nextVersion <= MaxVersions)
  BY DEF Changes
<1>5. /\ redis \in Seq(Trips) /\ async \subseteq 1..(nextAsync - 1)
      /\ <<>> \in Seq(Trips)
  BY <1>0 DEF DataOK
<1>6. \A w \in Users : Fetching(w) \subseteq Users
  BY <1>0 DEF Fetching
<1>7. Tail(queue) \in Seq(Ids)
  <2> HIDE DEF queue
  <2> QED BY <1>2
<1>8. CASE Answer(h, u, nextSeq, nextSeq, queue) /\ UNCHANGED failed
  <2> HIDE DEF u, queue
  <2>1. RequestsOK'
    BY <1>0, <1>2, <1>8, ReplyType DEF Answer
  <2>2. PICK c \in Changes(u) :
          Effects(u, c, {}, <<>>, TRUE, redis, async)
    BY <1>8 DEF Answer
  <2>3. DataOK'
    BY <1>0, <1>1, <1>4, <1>5, <2>2, EffectsType
  <2> QED BY <1>0, <1>3, <1>8, <2>1, <2>3 DEF Answer
<1>9. CASE Defer(h, u, nextSeq, queue) /\ UNCHANGED failed
  <2> HIDE DEF u, queue
  <2>1. RequestsOK'
    BY <1>0, <1>2, <1>9 DEF Defer, RequestsOK
  <2>2. PICK w \in Users \ {u}, kind \in {"call", "list"} :
          /\ Effects(u, {}, {}, <<Get(kind, u, w, nextSeq)>>, TRUE, redis, async)
          /\ fetched' = Fetching(w) \/ UNCHANGED fetched
    BY <1>9 DEF Defer
  <2>3. kind \in Fetches
    BY DEF Fetches
  <2>4. <<Get(kind, u, w, nextSeq)>> \in Seq(Trips)
    BY <1>0, <1>1, <1>2, <2>3, GetType
  <2>5. DataOK'
    <3> HIDE DEF DataOK, Effects
    <3> QED BY <1>0, <1>1, <1>5, <2>2, <2>4, EffectsType
  <2> QED BY <1>0, <1>3, <1>6, <1>9, <2>1, <2>2, <2>5
<1>10. CASE AnswerAndFetch(h, u, nextSeq, nextSeq, queue) /\ UNCHANGED failed
  <2> HIDE DEF u, queue
  <2>1. RequestsOK'
    BY <1>0, <1>2, <1>10, ReplyType DEF AnswerAndFetch
  <2>2. PICK w \in Users \ {u}, c \in Changes(u) :
          /\ Effects(u, c, {}, <<Get("quiet", u, w, nextSeq)>>, TRUE,
                     redis, async)
          /\ fetched' = Fetching(w)
    BY <1>10 DEF AnswerAndFetch
  <2>3. <<Get("quiet", u, w, nextSeq)>> \in Seq(Trips)
    BY <1>0, <1>1, <1>2, GetType DEF Fetches
  <2>4. DataOK'
    BY <1>0, <1>1, <1>4, <1>5, <2>2, <2>3, EffectsType
  <2> QED BY <1>0, <1>3, <1>6, <1>10, <2>1, <2>2, <2>4
<1>11. CASE Raise(h, u, queue) /\ failed' = failed \cup {nextSeq}
  <2> HIDE DEF u, queue
  <2>1. RequestsOK'
    BY <1>0, <1>7, <1>11 DEF Raise, RequestsOK
  <2>2. PICK c \in Changes(u) :
          Effects(u, c, {}, <<>>, FALSE, redis, async)
    BY <1>11 DEF Raise
  <2>3. DataOK'
    BY <1>0, <1>1, <1>4, <1>5, <2>2, EffectsType
  <2> QED BY <1>0, <1>2, <1>3, <1>11, <2>1, <2>3 DEF Raise
<1> QED BY <1>8, <1>9, <1>10, <1>11 DEF Request

\* ENTER_GAME, answered from the cache or after a fetch.
LEMMA EnterType ==
    ASSUME TypeInv, NEW h \in Handlers, NEW u \in Users,
           EnterCached(h, u) \/ EnterUncached(h, u)
    PROVE  /\ DataOK' /\ RequestsOK' /\ FrameOK'
           /\ failed' \subseteq 1..MaxRequests /\ fetched' \subseteq Users
<1>0. /\ DataOK /\ RequestsOK /\ FrameOK /\ MapsTypeOK
      /\ failed \subseteq 1..MaxRequests /\ fetched \subseteq Users
      /\ Enters(h, u) /\ Arrives(h) /\ failed' = failed
  BY TypeParts DEF EnterCached, EnterUncached, Enters
<1>1. /\ nextSeq \in 1..MaxRequests
      /\ Queued(h) \in Seq(Ids) /\ Queued(h) # <<>>
  BY <1>0, ArrivesType
<1>2. FrameOK'
  <2>1. shared' \subseteq Handlers /\ roamed' \subseteq Users
    BY <1>0 DEF Enters, FrameOK
  <2> QED BY <1>0, <2>1, ArrivesType DEF FrameOK
<1>3. CASE EnterCached(h, u)
  <2>1. Oldest(Queued(h)) \in Ids
    BY <1>1, OldestType
  <2>2. RequestsOK'
    BY <1>0, <1>1, <1>3, <2>1, ReplyType DEF EnterCached
  <2>3. DataOK'
    BY <1>0, <1>3 DEF EnterCached, data, trips, DataOK
  <2> QED BY <1>0, <1>2, <1>3, <2>2, <2>3 DEF EnterCached
<1>4. CASE EnterUncached(h, u)
  <2>1. RequestsOK'
    BY <1>0, <1>1, <1>4 DEF EnterUncached, RequestsOK
  <2>2. <<Get("enter", u, u, nextSeq)>> \in Seq(Trips)
    BY <1>0, <1>1, GetType DEF Fetches
  <2>3. redis' \in Seq(Trips)
    <3>1. Get("enter", u, u, nextSeq) \in Trips
      BY <2>2
    <3> QED BY <1>0, <1>4, <3>1 DEF EnterUncached, DataOK
  <2>4. async' \subseteq 1..(nextAsync' - 1) /\ nextAsync' \in Nat \ {0}
    BY <1>0, <1>4 DEF EnterUncached, DataOK
  <2>5. DataOK'
    BY <1>0, <1>4, <2>3, <2>4 DEF EnterUncached, data, DataOK
  <2>6. fetched' \subseteq Users
    BY <1>0, <1>4 DEF EnterUncached, Fetching
  <2> QED BY <1>0, <1>2, <2>1, <2>5, <2>6
<1> QED BY <1>3, <1>4

\* An event on a connection where nobody has entered only queues the request.
LEMMA NotEnteredType ==
    ASSUME TypeInv, NEW h \in Handlers, NotEntered(h)
    PROVE  /\ DataOK' /\ RequestsOK' /\ FrameOK'
           /\ failed' \subseteq 1..MaxRequests /\ fetched' \subseteq Users
<1>0. /\ DataOK /\ RequestsOK /\ FrameOK
      /\ failed \subseteq 1..MaxRequests /\ fetched \subseteq Users
      /\ Arrives(h)
  BY TypeParts DEF NotEntered
<1>1. FrameOK'
  BY <1>0, ArrivesType DEF NotEntered, FrameOK
<1>2. RequestsOK'
  BY <1>0, ArrivesType DEF NotEntered, RequestsOK
<1>3. DataOK'
  BY <1>0 DEF NotEntered, data, trips, DataOK
<1> QED BY <1>0, <1>1, <1>2, <1>3 DEF NotEntered

\* OnUserDisconnect drops the user's object with its dirty mark.
LEMMA ReleaseType ==
    ASSUME DataOK, NEW x \in Handlers,
           OnUserDisconnect(x) \/ UNCHANGED <<maps, data>>, UNCHANGED trips
    PROVE  DataOK'
<1>1. CASE UNCHANGED data
  BY <1>1 DEF data, trips, DataOK
<1>2. CASE OnUserDisconnect(x) /\ handlerToUser[x] # None
  BY <1>2 DEF OnUserDisconnect, trips, DataOK
<1> QED BY <1>1, <1>2 DEF OnUserDisconnect

LEMMA DisconnectType ==
    ASSUME TypeInv, NEW h \in Handlers, UserDisconnect(h)
    PROVE  /\ DataOK' /\ RequestsOK' /\ FrameOK'
           /\ failed' \subseteq 1..MaxRequests /\ fetched' \subseteq Users
<1>0. /\ DataOK /\ RequestsOK /\ FrameOK /\ MapsTypeOK
      /\ failed \subseteq 1..MaxRequests /\ fetched \subseteq Users
  BY TypeParts
<1>1. FrameOK'
  BY <1>0, SessionAssumption DEF UserDisconnect, FrameOK
<1>2. RequestsOK'
  <2>1. 0 \in Ids
    BY SessionAssumption DEF Ids
  <2>2. requests[Gateway] \in Seq(Ids)
    BY <1>0 DEF RequestsOK
  <2>3. Append(requests[Gateway], 0) \in Seq(Ids)
    BY <2>1, <2>2
  <2> QED BY <1>0, <2>3 DEF UserDisconnect, RequestsOK
<1>3. DataOK'
  BY <1>0, ReleaseType DEF UserDisconnect
<1> QED BY <1>0, <1>1, <1>2, <1>3 DEF UserDisconnect

\* A client's own USER_DISCONNECT is queued like any other request.
LEMMA ClientDisconnectType ==
    ASSUME TypeInv, NEW h \in Handlers, ClientDisconnect(h)
    PROVE  /\ DataOK' /\ RequestsOK' /\ FrameOK'
           /\ failed' \subseteq 1..MaxRequests /\ fetched' \subseteq Users
<1>0. /\ DataOK /\ RequestsOK /\ FrameOK
      /\ failed \subseteq 1..MaxRequests /\ fetched \subseteq Users
      /\ Arrives(h)
  BY TypeParts DEF ClientDisconnect
<1>1. FrameOK'
  BY <1>0, ArrivesType DEF ClientDisconnect, FrameOK
<1>2. RequestsOK'
  BY <1>0, ArrivesType DEF ClientDisconnect, RequestsOK
<1>3. DataOK'
  BY <1>0, ReleaseType DEF ClientDisconnect
<1> QED BY <1>0, <1>1, <1>2, <1>3 DEF ClientDisconnect

\* The three kinds of redis response.
LEMMA BackType ==
    ASSUME TypeInv,
           \/ EnterBack
           \/ \E kind \in {"call", "list", "quiet"} : CallBack(kind)
           \/ SetBack
    PROVE  /\ DataOK' /\ RequestsOK' /\ FrameOK'
           /\ failed' \subseteq 1..MaxRequests /\ fetched' \subseteq Users
<1> DEFINE t == Head(redis)
<1>0. /\ DataOK /\ RequestsOK /\ FrameOK /\ MapsTypeOK
      /\ failed \subseteq 1..MaxRequests /\ fetched \subseteq Users
      /\ redis # <<>>
      /\ UNCHANGED <<maps, askedOn, notices, gone, failed, roamed, fetched,
                     shared>>
  BY TypeParts DEF EnterBack, CallBack, SetBack, Back
<1>2. t \in Trips /\ Tail(redis) \in Seq(Trips)
  BY <1>0 DEF DataOK
<1> HIDE DEF t
<1>3. /\ t.user \in Users /\ t.of \in Users
      /\ t.val \in Version \cup {NoData}
      /\ t.kind # "set" => t.origin \in 1..MaxRequests
  BY <1>2 DEF Trips
<1>4. \A i : async \ {i} \subseteq 1..(nextAsync - 1)
  BY <1>0 DEF DataOK
<1>5. \A x \in Handlers : requests[x] \in Seq(Ids)
  BY <1>0 DEF RequestsOK
<1>6. userToHandler[t.user] \in Handlers \cup {None}
  BY <1>0, <1>3 DEF MapsTypeOK
<1>1. FrameOK' /\ failed' \subseteq 1..MaxRequests /\ fetched' \subseteq Users
  <2>1. crowded' \subseteq crowded \cup {userToHandler[t.user]}
    BY DEF EnterBack, CallBack, SetBack, t
  <2>2. crowded' # crowded => userToHandler[t.user] # None
    BY DEF EnterBack, CallBack, SetBack, t
  <2> QED BY <1>0, <1>6, <2>1, <2>2 DEF FrameOK
<1>7. CASE EnterBack
  <2> DEFINE h == userToHandler[t.user]
  <2>0. /\ t.kind = "enter"
        /\ \/ UNCHANGED <<object, dirty>>
           \/ /\ t.val # NoData
              /\ object' = [object EXCEPT ![t.user] = t.val]
              /\ dirty' = dirty \ {t.user}
        /\ \/ UNCHANGED <<requests, replies>>
           \/ /\ h # None /\ requests[h] # <<>>
              /\ Reply(h, Oldest(requests[h]), t.origin, requests[h])
        /\ async' = async \ {t.id}
        /\ redis' = Tail(redis)
        /\ UNCHANGED <<saved, nextVersion, nextAsync>>
    BY <1>7 DEF EnterBack, Back, t
  <2> HIDE DEF h
  <2>1. RequestsOK'
    <3>1. CASE UNCHANGED <<requests, replies>>
      BY <1>0, <3>1 DEF RequestsOK
    <3>2. CASE /\ h # None /\ requests[h] # <<>>
               /\ Reply(h, Oldest(requests[h]), t.origin, requests[h])
      <4>1. h \in Handlers
        BY <1>6, <3>2 DEF h
      <4>2. requests[h] \in Seq(Ids) /\ Oldest(requests[h]) \in Ids
        BY <4>1, <1>5, OldestType
      <4>3. t.origin \in 1..MaxRequests
        BY <1>3, <2>0
      <4> QED BY <1>0, <3>2, <4>1, <4>2, <4>3, ReplyType
    <3> QED BY <2>0, <3>1, <3>2
  <2>2. DataOK'
    BY <1>0, <1>2, <1>3, <1>4, <2>0, VersionFacts DEF DataOK
  <2> QED BY <1>1, <2>1, <2>2
<1>8. ASSUME NEW kind \in {"call", "list", "quiet"}, CallBack(kind)
      PROVE  DataOK' /\ RequestsOK'
  <2> DEFINE h == userToHandler[t.user]
             kept == async \ {t.id}
  <2>0. t.kind = kind /\ kind # "set"
    BY <1>8 DEF CallBack, Back, t
  <2>1. CASE /\ redis' = Tail(redis) /\ async' = kept
             /\ UNCHANGED <<data, requests, replies, nextAsync>>
    BY <1>0, <1>2, <1>4, <2>1 DEF DataOK, RequestsOK, data
  <2>2. CASE /\ h # None /\ handlerToUser[h] # None
             /\ \E stored \in Copies(t), commits \in BOOLEAN :
                  Effects(handlerToUser[h], {}, stored, <<>>, commits,
                          Tail(redis), kept)
             /\ \/ UNCHANGED <<requests, replies>>
                \/ /\ requests[h] # <<>>
                   /\ Reply(h, Oldest(requests[h]), t.origin, requests[h])
    <3>1. h \in Handlers
      BY <1>6, <2>2
    <3>2. handlerToUser[h] \in Users
      BY <1>0, <2>2, <3>1 DEF MapsTypeOK
    <3>3. requests[h] \in Seq(Ids) /\ Oldest(requests[h]) \in Ids
      BY <3>1, <1>5, OldestType
    <3>4. t.origin \in 1..MaxRequests
      BY <1>3, <2>0
    <3>5. PICK stored \in Copies(t), commits \in BOOLEAN :
            Effects(handlerToUser[h], {}, stored, <<>>, commits,
                    Tail(redis), kept)
      BY <2>2
    <3>6. /\ stored \subseteq Users
          /\ {} \cup stored # {} => nextVersion <= MaxVersions
      BY <1>3 DEF Copies
    <3>7. kept \subseteq 1..(nextAsync - 1)
      BY <1>0 DEF DataOK
    <3>8. <<>> \in Seq(Trips)
      OBVIOUS
    <3> HIDE DEF h, kept
    <3>9. DataOK'
      BY <1>0, <1>2, <3>2, <3>5, <3>6, <3>7, <3>8, EffectsType
    <3>10. RequestsOK'
      <4>1. CASE UNCHANGED <<requests, replies>>
        BY <1>0, <4>1 DEF RequestsOK
      <4>2. CASE /\ requests[h] # <<>>
                 /\ Reply(h, Oldest(requests[h]), t.origin, requests[h])
        BY <1>0, <3>1, <3>3, <3>4, <4>2, ReplyType
      <4> QED BY <2>2, <4>1, <4>2
    <3> QED BY <3>9, <3>10
  <2> QED BY <1>8, <2>1, <2>2 DEF CallBack, t
<1>9. CASE SetBack
  <2>1. UNCHANGED <<data, requests, replies, nextAsync>>
    BY <1>9 DEF SetBack
  <2>2. async' \subseteq 1..(nextAsync' - 1) /\ redis' \in Seq(Trips)
    BY <1>2, <1>4, <1>9, <2>1 DEF SetBack
  <2> QED BY <1>0, <1>1, <2>1, <2>2 DEF DataOK, RequestsOK, data
<1> QED BY <1>1, <1>7, <1>8, <1>9

LEMMA TypeInvInitially == Init => TypeInv
<1> SUFFICES ASSUME Init PROVE TypeInv
  OBVIOUS
<1>1. DataOK
  BY SessionAssumption, VersionFacts DEF Init, DataOK, Version
<1>2. RequestsOK /\ FrameOK
  BY SessionAssumption DEF Init, RequestsOK, FrameOK
<1> QED BY <1>1, <1>2, MapsInvInitially, TypeParts DEF Init, MapsInv

LEMMA TypeInvInductive == TypeInv /\ MapsInv /\ [Next]_vars => TypeInv'
<1> SUFFICES ASSUME TypeInv, MapsInv, [Next]_vars PROVE TypeInv'
  OBVIOUS
<1>1. MapsTypeOK'
  BY MapsInvInductive DEF MapsInv
<1>2. CASE UNCHANGED vars
  BY <1>2 DEF vars, maps, data, trips, TypeInv, TypeOK
<1>3. CASE Next
  <2>1. /\ DataOK' /\ RequestsOK' /\ FrameOK'
        /\ failed' \subseteq 1..MaxRequests /\ fetched' \subseteq Users
    BY <1>3, EnterType, NotEnteredType, RequestType, DisconnectType,
       ClientDisconnectType, BackType DEF Next
  <2>2. (DataOK /\ RequestsOK /\ FrameOK /\ MapsTypeOK
         /\ failed \subseteq 1..MaxRequests /\ fetched \subseteq Users)'
        => TypeInv'
    BY TypeParts, PTL
  <2> QED BY <1>1, <2>1, <2>2
<1> QED BY <1>2, <1>3

\* Every reachable state of the logic server is well formed; in particular only
\* cached objects are dirty and no parameters are kept under an unissued id.
THEOREM SessionTypeCorrect == Spec => []TypeOK
<1>1. TypeInv => TypeOK
  BY DEF TypeInv
<1> QED BY <1>1, TypeInvInitially, TypeInvInductive, MapsInvInitially,
           MapsInvInductive, PTL DEF Spec
-----------------------------------------------------------------------------
(* Which round trips a step leaves under way. *)

SetTrips == {t \in Trips : t.kind = "set"}

\* The client's events keep what is under way and may begin a fetch in news.
Extends(news) ==
    \A i \in DOMAIN redis' :
      \/ redis'[i].kind = "set"
      \/ i \in DOMAIN redis /\ redis'[i] = redis[i]
      \/ i = Len(redis) + 1 /\ redis'[i] \in news

\* A response takes the first and begins no fetch.
Advances ==
    \A i \in DOMAIN redis' :
      \/ redis'[i].kind = "set"
      \/ /\ i \in Nat \ {0} /\ i + 1 \in DOMAIN redis
         /\ redis'[i] = redis[i + 1]

Pushes(rest, out) ==
    \E sets \in Seq(SetTrips) : redis' = rest \o (out \o sets)

\* SaveUserData and Commit push nothing but SETs after the fetches of a handler.
LEMMA EffectsPushed ==
    ASSUME DataOK, NEW u \in Users, NEW changed \in SUBSET Users,
           NEW stored \in SUBSET Users,
           changed \cup stored # {} => nextVersion <= MaxVersions,
           NEW out \in Seq(Trips), NEW commits \in BOOLEAN,
           NEW rest \in Seq(Trips), NEW kept \in SUBSET (1..(nextAsync - 1)),
           Effects(u, changed, stored, out, commits, rest, kept)
    PROVE  Pushes(rest, out)
<1> DEFINE others == (changed \ {u}) \cup stored
           own    == IF u \in changed THEN nextVersion ELSE object[u]
           save   == commits /\ u \in dirty \cup changed
           commit == IF save THEN <<Trip("set", 0, u, u, own, 0)>> ELSE <<>>
<1>0. /\ MaxRequests \in Nat /\ MaxVersions \in Nat
      /\ nextVersion \in Nat /\ nextVersion >= 1
      /\ \A x \in Users : object[x] # NoObject => object[x] \in Version
      /\ \A x \in dirty : x \in Users /\ object[x] # NoObject
  BY SessionAssumption, VersionFacts DEF DataOK
<1>1. changed \cup stored # {} => nextVersion \in Version
  BY <1>0 DEF Version
<1>2. save => own \in Version
  BY <1>0, <1>1
<1>3. Save(others) \in Seq(SetTrips)
  <2>1. CASE others = {}
    BY <2>1 DEF Save
  <2>2. CASE others # {}
    <3> DEFINE w == CHOOSE x \in others : TRUE
    <3>1. w \in Users
      BY <2>2
    <3>2. nextVersion \in Version
      BY <2>2, <1>1
    <3> HIDE DEF w
    <3>3. Trip("set", 0, w, w, nextVersion, 0) \in SetTrips
      BY <1>0, <3>1, <3>2 DEF Trip, SetTrips, Trips, Kinds, Ids
    <3> QED BY <2>2, <3>3 DEF Save, w
  <2> QED BY <2>1, <2>2
<1>4. commit \in Seq(SetTrips)
  <2> HIDE DEF own, save
  <2>1. save => Trip("set", 0, u, u, own, 0) \in SetTrips
    BY <1>0, <1>2 DEF Trip, SetTrips, Trips, Kinds, Ids
  <2> QED BY <2>1
<1>5. redis' = rest \o (out \o Save(others) \o commit)
  BY DEF Effects
<1> HIDE DEF others, commit
<1>6. Save(others) \o commit \in Seq(SetTrips)
  BY <1>3, <1>4
<1>7. \A s \in Seq(SetTrips), c \in Seq(SetTrips) :
        out \o s \o c = out \o (s \o c)
  <2>1. Seq(SetTrips) \subseteq Seq(Trips)
    BY DEF SetTrips
  <2> QED BY <2>1
<1> QED BY <1>3, <1>4, <1>5, <1>6, <1>7 DEF Pushes

\* The same by index, for the two things a handler is called from.
LEMMA EffectsExtends ==
    ASSUME DataOK, NEW u \in Users, NEW changed \in SUBSET Users,
           changed # {} => nextVersion <= MaxVersions,
           NEW out \in Seq(Trips), Len(out) <= 1, NEW commits \in BOOLEAN,
           Effects(u, changed, {}, out, commits, redis, async)
    PROVE  Extends({out[1]})
<1>0. redis \in Seq(Trips)
  BY DEF DataOK
<1>1. PICK sets \in Seq(SetTrips) : redis' = redis \o (out \o sets)
  <2>1. async \in SUBSET (1..(nextAsync - 1))
    BY DEF DataOK
  <2>2. {} \in SUBSET Users /\ (changed \cup {} # {} => nextVersion <= MaxVersions)
    OBVIOUS
  <2>3. Pushes(redis, out)
    BY <1>0, <2>1, <2>2, EffectsPushed
  <2> QED BY <2>3 DEF Pushes
<1>2. /\ \A i \in DOMAIN sets : sets[i].kind = "set"
      /\ Len(sets) \in Nat /\ Len(out) \in Nat /\ Len(redis) \in Nat
  BY <1>0 DEF SetTrips
<1>3. \A i \in DOMAIN (redis \o (out \o sets)) :
        \/ i \in DOMAIN redis /\ (redis \o (out \o sets))[i] = redis[i]
        \/ i = Len(redis) + 1 /\ (redis \o (out \o sets))[i] = out[1]
        \/ /\ i - Len(redis) - Len(out) \in DOMAIN sets
           /\ (redis \o (out \o sets))[i] = sets[i - Len(redis) - Len(out)]
  BY <1>0, <1>2
<1> QED BY <1>1, <1>2, <1>3 DEF Extends

LEMMA EffectsAdvances ==
    ASSUME DataOK, redis # <<>>, NEW u \in Users, NEW stored \in SUBSET Users,
           stored # {} => nextVersion <= MaxVersions,
           NEW commits \in BOOLEAN, NEW kept \in SUBSET (1..(nextAsync - 1)),
           Effects(u, {}, stored, <<>>, commits, Tail(redis), kept)
    PROVE  Advances
<1>0. redis \in Seq(Trips) /\ Tail(redis) \in Seq(Trips) /\ <<>> \in Seq(Trips)
  BY DEF DataOK
<1>1. PICK sets \in Seq(SetTrips) : redis' = Tail(redis) \o (<<>> \o sets)
  <2>1. {} \in SUBSET Users /\ ({} \cup stored # {} => nextVersion <= MaxVersions)
    OBVIOUS
  <2>2. Pushes(Tail(redis), <<>>)
    BY <1>0, <2>1, EffectsPushed
  <2> QED BY <2>2 DEF Pushes
<1>2. /\ \A i \in DOMAIN sets : sets[i].kind = "set"
      /\ Len(sets) \in Nat /\ Len(redis) \in Nat /\ Len(redis) >= 1
      /\ <<>> \o sets = sets
  BY <1>0 DEF SetTrips
<1>3. \A i \in DOMAIN (Tail(redis) \o sets) :
        \/ /\ i \in Nat \ {0} /\ i + 1 \in DOMAIN redis
           /\ (Tail(redis) \o sets)[i] = redis[i + 1]
        \/ /\ i - Len(redis) + 1 \in DOMAIN sets
           /\ (Tail(redis) \o sets)[i] = sets[i - Len(redis) + 1]
  BY <1>0, <1>2
<1> QED BY <1>1, <1>2, <1>3 DEF Advances

-----------------------------------------------------------------------------
(* Replies.  The queue of a connection that had one request at a time queued   *)
(* holds that request as long as its round trip is under way, and the user     *)
(* whom the trip is for still plays there or nowhere.                          *)

\* The round trips whose return is answered.
Answered == {"enter", "call", "list"}

\* What is under way, and what was answered, belongs to a request that came.
OriginsAsked ==
    /\ \A i \in DOMAIN redis :
         redis[i].kind # "set" => redis[i].origin \in 1..Len(askedOn)
    /\ \A r \in replies : r.origin \in 1..Len(askedOn)

OneTripEach ==
    \A i, j \in DOMAIN redis :
      (/\ redis[i].kind \in Answered /\ redis[j].kind \in Answered
       /\ redis[i].origin = redis[j].origin) => i = j

Waits(t) ==
    /\ userToHandler[t.user] \in {askedOn[t.origin], None}
    /\ \/ askedOn[t.origin] \in crowded
       \/ requests[askedOn[t.origin]] = <<t.origin>>

AskerWaits ==
    roamed = {} =>
      \A i \in DOMAIN redis : redis[i].kind \in Answered => Waits(redis[i])

AnswersInv == OriginsAsked /\ OneTripEach /\ AskerWaits /\ RepliesMatch

\* A trip that waits goes on waiting in a step that leaves its connection's
\* queue, unless the connection now has two requests, and its user alone.
LEMMA WaitsOn ==
    ASSUME NEW t, Waits(t),
           t.origin \in 1..Len(askedOn),
           askedOn'[t.origin] = askedOn[t.origin],
           crowded \subseteq crowded',
           userToHandler'[t.user] \in {userToHandler[t.user], None},
           \/ askedOn[t.origin] \in crowded'
           \/ requests'[askedOn[t.origin]] = requests[askedOn[t.origin]]
    PROVE  (Waits(t))'
  BY DEF Waits

\* A client's event on h, whatever the registered handler does with it.
LEMMA EventAnswers ==
    ASSUME AnswersInv, TypeInv, NEW h \in Handlers, Arrives(h),
           \A x \in Handlers \ {h} : requests'[x] = requests[x],
           NEW news, Extends(news),
           \A n \in news : n.kind # "set" => n.origin = nextSeq,
           \A n \in news : n.kind \in Answered =>
             userToHandler'[n.user] = h /\ requests'[h] = Queued(h),
           roamed \subseteq roamed',
           roamed' = {} =>
             \A i \in DOMAIN redis : redis[i].kind # "set" =>
               userToHandler'[redis[i].user] \in
                 {userToHandler[redis[i].user], None},
           \A r \in replies' \ replies :
             /\ r.handler = h /\ r.origin = nextSeq
             /\ r.seq = nextSeq \/ requests[h] # <<>>
    PROVE  AnswersInv'
<1>0. /\ askedOn \in Seq(Handlers) /\ Len(askedOn) \in Nat
      /\ nextSeq = Len(askedOn) + 1
      /\ askedOn' = Append(askedOn, h)
      /\ crowded \subseteq crowded' /\ (requests[h] # <<>> => h \in crowded')
      /\ OriginsAsked /\ OneTripEach /\ AskerWaits /\ RepliesMatch
  BY DEF AnswersInv, TypeInv, TypeOK, nextSeq, Arrives
<1>1. /\ Len(askedOn') = Len(askedOn) + 1
      /\ \A o \in 1..Len(askedOn) : askedOn'[o] = askedOn[o]
      /\ askedOn'[nextSeq] = h
      /\ nextSeq \in 1..Len(askedOn') /\ nextSeq \notin 1..Len(askedOn)
      /\ 1..Len(askedOn) \subseteq 1..Len(askedOn')
  BY <1>0
<1> HIDE DEF nextSeq
<1>2. \A i \in DOMAIN redis : redis[i].kind # "set" =>
        redis[i].origin \in 1..Len(askedOn)
  BY <1>0 DEF OriginsAsked
<1>3. OriginsAsked'
  <2>1. \A i \in DOMAIN redis' :
          redis'[i].kind # "set" => redis'[i].origin \in 1..Len(askedOn')
    BY <1>1, <1>2 DEF Extends
  <2>2. \A r \in replies' : r.origin \in 1..Len(askedOn')
    BY <1>0, <1>1 DEF OriginsAsked
  <2> QED BY <2>1, <2>2 DEF OriginsAsked
<1>4. OneTripEach'
  <2> SUFFICES ASSUME NEW i \in DOMAIN redis', NEW j \in DOMAIN redis',
                      redis'[i].kind \in Answered, redis'[j].kind \in Answered,
                      redis'[i].origin = redis'[j].origin
               PROVE  i = j
    BY DEF OneTripEach
  <2>0. "set" \notin Answered
    BY DEF Answered
  <2>1. CASE redis'[i].origin = nextSeq
    <3>1. \A k \in DOMAIN redis' :
            (redis'[k].kind # "set" /\ redis'[k].origin = nextSeq)
            => k = Len(redis) + 1
      BY <1>1, <1>2 DEF Extends
    <3>2. redis'[i].kind # "set" /\ redis'[j].kind # "set"
      BY <2>0
    <3>3. i = Len(redis) + 1 /\ j = Len(redis) + 1
      BY <2>1, <3>1, <3>2
    <3> QED BY <3>3
  <2>2. CASE redis'[i].origin # nextSeq
    <3>1. /\ i \in DOMAIN redis /\ redis'[i] = redis[i]
          /\ j \in DOMAIN redis /\ redis'[j] = redis[j]
      BY <2>0, <2>2 DEF Extends
    <3> QED BY <1>0, <3>1 DEF OneTripEach
  <2> QED BY <2>1, <2>2
<1>5. AskerWaits'
  <2> SUFFICES ASSUME roamed' = {}, NEW i \in DOMAIN redis',
                      redis'[i].kind \in Answered
               PROVE  (Waits(redis[i]))'
    BY DEF AskerWaits
  <2>0. redis'[i].kind # "set" /\ roamed = {}
    BY DEF Answered
  <2>1. CASE i \in DOMAIN redis /\ redis'[i] = redis[i]
    <3> PICK t : t = redis[i]
      OBVIOUS
    <3>1. Waits(t)
      BY <1>0, <2>0, <2>1 DEF AskerWaits
    <3>2. t.origin \in 1..Len(askedOn)
      BY <1>2, <2>0, <2>1
    <3>3. askedOn[t.origin] \in Handlers
      BY <1>0, <3>2
    <3>4. userToHandler'[t.user] \in {userToHandler[t.user], None}
      BY <2>0, <2>1
    <3>5. \/ askedOn[t.origin] \in crowded'
          \/ requests'[askedOn[t.origin]] = requests[askedOn[t.origin]]
      <4>1. CASE askedOn[t.origin] = h
        <5>1. requests[h] # <<>> \/ h \in crowded
          BY <3>1, <4>1 DEF Waits
        <5> QED BY <1>0, <4>1, <5>1
      <4>2. CASE askedOn[t.origin] # h
        BY <3>3, <4>2
      <4> QED BY <4>1, <4>2
    <3>6. (Waits(t))'
      BY <1>0, <1>1, <3>1, <3>2, <3>4, <3>5, WaitsOn
    <3> QED BY <2>1, <3>6 DEF Waits
  <2>2. CASE redis'[i] \in news
    <3> PICK t : t = redis'[i]
      OBVIOUS
    <3>1. /\ t.origin = nextSeq /\ userToHandler'[t.user] = h
          /\ requests'[h] = Queued(h)
      BY <2>0, <2>2
    <3>2. h \in crowded' \/ requests'[h] = <<nextSeq>>
      <4>1. CASE requests[h] = <<>>
        BY <3>1, <4>1 DEF Queued
      <4> QED BY <1>0, <4>1
    <3> QED BY <1>1, <3>1, <3>2 DEF Waits
  <2> QED BY <2>0, <2>1, <2>2 DEF Extends
<1>6. RepliesMatch'
  <2> SUFFICES ASSUME NEW r \in replies'
               PROVE  \/ r.seq = r.origin /\ r.handler = askedOn'[r.origin]
                      \/ r.handler \in crowded'
                      \/ roamed' # {}
    BY DEF RepliesMatch
  <2>1. CASE r \in replies
    BY <1>0, <1>1, <2>1 DEF RepliesMatch, OriginsAsked
  <2>2. CASE r \notin replies
    BY <1>0, <1>1, <2>2
  <2> QED BY <2>1, <2>2
<1> QED BY <1>3, <1>4, <1>5, <1>6 DEF AnswersInv

\* A response, and the reply ClientRequest may send for it.
LEMMA BackAnswers ==
    ASSUME AnswersInv, TypeInv, redis # <<>>, Advances,
           UNCHANGED <<maps, askedOn, roamed>>, crowded \subseteq crowded',
           NEW t, t = Head(redis), NEW h, h = userToHandler[t.user],
           \/ UNCHANGED <<requests, replies>>
           \/ /\ t.kind # "set" /\ (t.kind \in Answered \/ h \in crowded')
              /\ h # None /\ requests[h] # <<>>
              /\ Reply(h, Oldest(requests[h]), t.origin, requests[h])
    PROVE  AnswersInv'
<1>0. /\ redis \in Seq(Trips) /\ 1 \in DOMAIN redis /\ t = redis[1]
      /\ askedOn \in Seq(Handlers)
      /\ requests \in [Handlers \cup {Gateway} -> Seq(0..MaxRequests)]
      /\ OriginsAsked /\ OneTripEach /\ AskerWaits /\ RepliesMatch
  BY DEF AnswersInv, TypeInv, TypeOK
<1>1. \A i \in DOMAIN redis' : redis'[i].kind # "set" =>
        i + 1 \in DOMAIN redis /\ redis'[i] = redis[i + 1] /\ i \in Nat \ {0}
  BY DEF Advances
<1>2. /\ \A r \in replies' \ replies :
           /\ t.kind # "set" /\ (t.kind \in Answered \/ h \in crowded')
           /\ h # None /\ requests[h] # <<>>
           /\ r.handler = h /\ r.origin = t.origin /\ r.seq = Oldest(requests[h])
      /\ \A x \in Handlers : requests'[x] # requests[x] =>
           (t.kind \in Answered \/ h \in crowded') /\ x = h
  BY <1>0 DEF Reply
<1>3. OriginsAsked'
  <2>1. \A i \in DOMAIN redis' :
          redis'[i].kind # "set" => redis'[i].origin \in 1..Len(askedOn)
    BY <1>0, <1>1 DEF OriginsAsked
  <2>2. \A r \in replies' : r.origin \in 1..Len(askedOn)
    BY <1>0, <1>2 DEF OriginsAsked
  <2> QED BY <2>1, <2>2 DEF OriginsAsked
<1>4. OneTripEach'
  <2> SUFFICES ASSUME NEW i \in DOMAIN redis', NEW j \in DOMAIN redis',
                      redis'[i].kind \in Answered, redis'[j].kind \in Answered,
                      redis'[i].origin = redis'[j].origin
               PROVE  i = j
    BY DEF OneTripEach
  <2>1. /\ i + 1 \in DOMAIN redis /\ redis'[i] = redis[i + 1] /\ i \in Nat
        /\ j + 1 \in DOMAIN redis /\ redis'[j] = redis[j + 1] /\ j \in Nat
    BY <1>1 DEF Answered
  <2>2. i + 1 = j + 1
    BY <1>0, <2>1 DEF OneTripEach
  <2> QED BY <2>1, <2>2
<1>5. roamed = {} /\ t.kind \in Answered => Waits(t)
  BY <1>0 DEF AskerWaits
<1>6. AskerWaits'
  <2> SUFFICES ASSUME roamed = {}, NEW i \in DOMAIN redis',
                      redis'[i].kind \in Answered
               PROVE  (Waits(redis[i]))'
    BY DEF AskerWaits
  <2>1. i + 1 \in DOMAIN redis /\ redis'[i] = redis[i + 1] /\ i \in Nat \ {0}
    BY <1>1 DEF Answered
  <2> PICK n : n = redis[i + 1]
    OBVIOUS
  <2>2. Waits(n) /\ n.kind \in Answered /\ n.kind # "set"
    BY <1>0, <2>1 DEF AskerWaits, Answered
  <2>3. n.origin \in 1..Len(askedOn) /\ askedOn[n.origin] \in Handlers
    BY <1>0, <2>1, <2>2 DEF OriginsAsked
  <2>4. \/ askedOn[n.origin] \in crowded'
        \/ requests'[askedOn[n.origin]] = requests[askedOn[n.origin]]
    <3> SUFFICES ASSUME requests'[askedOn[n.origin]] # requests[askedOn[n.origin]],
                        askedOn[n.origin] \notin crowded'
                 PROVE  FALSE
      OBVIOUS
    <3>1. t.kind \in Answered /\ askedOn[n.origin] = h
      BY <1>2, <2>3
    <3>2. requests[h] = <<n.origin>>
      BY <2>2, <3>1 DEF Waits
    <3>3. h # None
      BY <2>3, <3>1, SessionAssumption
    <3>4. requests[h] = <<t.origin>>
      BY <1>5, <3>1, <3>3 DEF Waits
    <3>5. n.origin = t.origin
      BY <3>2, <3>4
    <3>6. i + 1 = 1
      BY <1>0, <2>1, <2>2, <3>1, <3>5 DEF OneTripEach
    <3> QED BY <2>1, <3>6
  <2>5. (Waits(n))'
    BY <2>2, <2>3, <2>4, WaitsOn DEF maps
  <2> QED BY <2>1, <2>5 DEF Waits
<1>7. RepliesMatch'
  <2> SUFFICES ASSUME NEW r \in replies', roamed = {}, r.handler \notin crowded'
               PROVE  r.seq = r.origin /\ r.handler = askedOn[r.origin]
    BY DEF RepliesMatch
  <2>1. CASE r \in replies
    BY <1>0, <2>1 DEF RepliesMatch
  <2>2. CASE r \notin replies
    <3>1. /\ t.kind \in Answered /\ h # None /\ requests[h] # <<>>
          /\ r.handler = h /\ r.origin = t.origin /\ r.seq = Oldest(requests[h])
          /\ h \notin crowded
      BY <1>2, <2>2
    <3>2. h = askedOn[t.origin] /\ requests[h] = <<t.origin>>
      BY <1>5, <3>1 DEF Waits
    <3>3. Oldest(requests[h]) = t.origin
      BY <3>2 DEF Oldest
    <3> QED BY <3>1, <3>2, <3>3
  <2> QED BY <2>1, <2>2
<1> QED BY <1>3, <1>4, <1>6, <1>7 DEF AnswersInv

\* What a registered handler of the user of h pushes, answers and queues.
LEMMA RequestOutcome ==
    ASSUME TypeInv, NEW h \in Handlers, Request(h)
    PROVE  \E news \in SUBSET Trips :
             /\ Extends(news)
             /\ \A n \in news :
                  /\ n.kind # "enter" /\ n.origin = nextSeq
                  /\ n.user = handlerToUser[h] /\ n.val = saved[n.of]
                  /\ n.kind \in Answered => requests'[h] = Queued(h)
                  /\ n.kind # "list" =>
                       object[n.of] = NoObject /\ fetched' = Fetching(n.of)
             /\ \A x \in Handlers \ {h} : requests'[x] = requests[x]
             /\ \A r \in replies' \ replies :
                  r.handler = h /\ r.origin = nextSeq /\ r.seq = nextSeq
<1> DEFINE u == handlerToUser[h]
           queue == Queued(h)
<1>0. /\ DataOK /\ RequestsOK /\ FrameOK /\ MapsTypeOK /\ Arrives(h) /\ u # None
  BY TypeParts DEF Request
<1>1. u \in Users
  BY <1>0 DEF MapsTypeOK
<1>2. /\ nextSeq \in 1..MaxRequests
      /\ queue \in Seq(Ids) /\ queue # <<>>
  BY <1>0, ArrivesType
<1>3. \A c \in Changes(u) :
        c \subseteq Users /\ (c # {} => nextVersion <= MaxVersions)
  BY DEF Changes
<1>4. <<>> \in Seq(Trips) /\ Len(<<>>) <= 1
  OBVIOUS
<1>5. \A x \in Handlers :
        /\ \/ requests' = [requests EXCEPT ![h] = queue]
           \/ requests' = [requests EXCEPT ![h] = Tail(queue)]
        /\ x # h
        => requests'[x] = requests[x]
  <2> HIDE DEF queue
  <2> QED BY <1>0 DEF RequestsOK
<1>6. ASSUME NEW c \in Changes(u), NEW commits \in BOOLEAN,
             Effects(u, c, {}, <<>>, commits, redis, async)
      PROVE  Extends({})
  <2> HIDE DEF u
  <2>1. Pushes(redis, <<>>)
    <3>1. /\ {} \in SUBSET Users /\ redis \in Seq(Trips)
          /\ async \in SUBSET (1..(nextAsync - 1))
          /\ c \in SUBSET Users /\ (c \cup {} # {} => nextVersion <= MaxVersions)
      BY <1>0, <1>3 DEF DataOK
    <3> QED BY <1>0, <1>1, <1>4, <1>6, <3>1, EffectsPushed
  <2>2. PICK sets \in Seq(SetTrips) : redis' = redis \o (<<>> \o sets)
    BY <2>1 DEF Pushes
  <2>3. redis \in Seq(Trips) /\ (\A i \in DOMAIN sets : sets[i].kind = "set")
        /\ <<>> \o sets = sets
    BY <1>0 DEF DataOK, SetTrips
  <2>4. \A i \in DOMAIN (redis \o sets) :
          \/ i \in DOMAIN redis /\ (redis \o sets)[i] = redis[i]
          \/ /\ i - Len(redis) \in DOMAIN sets
             /\ (redis \o sets)[i] = sets[i - Len(redis)]
    BY <2>3
  <2> QED BY <2>2, <2>3, <2>4 DEF Extends
<1>7. ASSUME NEW c \in SUBSET Users, c # {} => nextVersion <= MaxVersions,
             NEW kind \in {"call", "list", "quiet"}, NEW w \in Users,
             Effects(u, c, {}, <<Get(kind, u, w, nextSeq)>>, TRUE, redis, async)
      PROVE  /\ Extends({Get(kind, u, w, nextSeq)})
             /\ Get(kind, u, w, nextSeq) \in Trips
  <2> HIDE DEF u
  <2>1. <<Get(kind, u, w, nextSeq)>> \in Seq(Trips)
    BY <1>0, <1>1, <1>2, GetType DEF Fetches
  <2> PICK n : n = Get(kind, u, w, nextSeq)
    OBVIOUS
  <2>2. <<n>> \in Seq(Trips) /\ n \in Trips /\ Len(<<n>>) <= 1 /\ <<n>>[1] = n
    BY <2>1
  <2>3. Effects(u, c, {}, <<n>>, TRUE, redis, async)
    BY <1>7
  <2>4. Extends({<<n>>[1]})
    BY <1>0, <1>1, <1>7, <2>2, <2>3, EffectsExtends
  <2> QED BY <2>2, <2>4
<1>8. \A kind, w : /\ Get(kind, u, w, nextSeq).kind = kind
                   /\ Get(kind, u, w, nextSeq).origin = nextSeq
                   /\ Get(kind, u, w, nextSeq).user = u
                   /\ Get(kind, u, w, nextSeq).of = w
                   /\ Get(kind, u, w, nextSeq).val = saved[w]
  BY DEF Get, Trip
<1> DEFINE Outcome(news) ==
             /\ Extends(news)
             /\ \A n \in news :
                  /\ n.kind # "enter" /\ n.origin = nextSeq
                  /\ n.user = u /\ n.val = saved[n.of]
                  /\ n.kind \in Answered => requests'[h] = Queued(h)
                  /\ n.kind # "list" =>
                       object[n.of] = NoObject /\ fetched' = Fetching(n.of)
             /\ \A x \in Handlers \ {h} : requests'[x] = requests[x]
             /\ \A r \in replies' \ replies :
                  r.handler = h /\ r.origin = nextSeq /\ r.seq = nextSeq
<1>9. CASE Answer(h, u, nextSeq, nextSeq, queue)
  <2>1. PICK c \in Changes(u) : Effects(u, c, {}, <<>>, TRUE, redis, async)
    BY <1>9 DEF Answer
  <2>2. Extends({})
    BY <1>6, <2>1
  <2>3. /\ \A x \in Handlers \ {h} : requests'[x] = requests[x]
        /\ \A r \in replies' \ replies :
             r.handler = h /\ r.origin = nextSeq /\ r.seq = nextSeq
    BY <1>5, <1>9 DEF Answer, Reply
  <2>4. Outcome({})
    BY <2>2, <2>3
  <2> QED BY <2>4
<1>10. CASE Defer(h, u, nextSeq, queue)
  <2>1. PICK w \in Users \ {u}, kind \in {"call", "list"} :
          /\ Effects(u, {}, {}, <<Get(kind, u, w, nextSeq)>>, TRUE, redis, async)
          /\ kind = "call" => object[w] = NoObject /\ fetched' = Fetching(w)
    BY <1>10 DEF Defer
  <2> DEFINE n == Get(kind, u, w, nextSeq)
  <2>2. Extends({n}) /\ n \in Trips
    BY <1>7, <2>1
  <2>3. /\ \A x \in Handlers \ {h} : requests'[x] = requests[x]
        /\ requests'[h] = queue /\ replies' = replies
    <3>1. requests' = [requests EXCEPT ![h] = queue] /\ replies' = replies
      BY <1>10 DEF Defer
    <3>2. requests'[h] = queue
      BY <1>0, <3>1 DEF RequestsOK
    <3> QED BY <1>5, <3>1, <3>2
  <2>4. n.kind = kind /\ n.origin = nextSeq /\ n.user = u /\ n.of = w
        /\ n.val = saved[w]
    BY <1>8
  <2> HIDE DEF n
  <2>5. Outcome({n})
    BY <2>1, <2>2, <2>3, <2>4
  <2> QED BY <2>2, <2>5
<1>11. CASE AnswerAndFetch(h, u, nextSeq, nextSeq, queue)
  <2>1. PICK w \in Users \ {u}, c \in Changes(u) :
          /\ Effects(u, c, {}, <<Get("quiet", u, w, nextSeq)>>, TRUE, redis, async)
          /\ object[w] = NoObject /\ fetched' = Fetching(w)
    BY <1>11 DEF AnswerAndFetch
  <2> DEFINE n == Get("quiet", u, w, nextSeq)
  <2>2. Extends({n}) /\ n \in Trips
    BY <1>3, <1>7, <2>1
  <2>3. /\ \A x \in Handlers \ {h} : requests'[x] = requests[x]
        /\ \A r \in replies' \ replies :
             r.handler = h /\ r.origin = nextSeq /\ r.seq = nextSeq
    BY <1>5, <1>11 DEF AnswerAndFetch, Reply
  <2>4. n.kind = "quiet" /\ n.origin = nextSeq /\ n.user = u /\ n.of = w
        /\ n.val = saved[w]
    BY <1>8
  <2> HIDE DEF n
  <2>5. Outcome({n})
    BY <2>1, <2>2, <2>3, <2>4 DEF Answered
  <2> QED BY <2>2, <2>5
<1>12. CASE Raise(h, u, queue)
  <2>1. PICK c \in Changes(u) : Effects(u, c, {}, <<>>, FALSE, redis, async)
    BY <1>12 DEF Raise
  <2>2. Extends({})
    BY <1>6, <2>1
  <2>3. /\ \A x \in Handlers \ {h} : requests'[x] = requests[x]
        /\ replies' = replies
    BY <1>5, <1>12 DEF Raise
  <2>4. Outcome({})
    BY <2>2, <2>3
  <2> QED BY <2>4
<1> QED BY <1>9, <1>10, <1>11, <1>12 DEF Request

\* A user who enters has a round trip under way only if he roams.
LEMMA EntersAnswers ==
    ASSUME AnswersInv, TypeInv, NEW h \in Handlers, NEW u \in Users,
           EnterCached(h, u) \/ EnterUncached(h, u)
    PROVE  AnswersInv'
<1>0. /\ Arrives(h) /\ userToHandler' = [userToHandler EXCEPT ![u] = h]
      /\ roamed' = IF \E i \in DOMAIN redis :
                        redis[i].user = u /\ redis[i].kind # "set"
                   THEN roamed \cup {u} ELSE roamed
      /\ userToHandler \in [Users -> Handlers \cup {None}]
      /\ redis \in Seq(Trips)
  BY DEF EnterCached, EnterUncached, Enters, UpdateHandlerIdAndUserId,
         TypeInv, TypeOK
<1>1. /\ userToHandler'[u] = h
      /\ \A v \in Users \ {u} : userToHandler'[v] = userToHandler[v]
  BY <1>0
<1>2. roamed' = {} =>
        \A i \in DOMAIN redis : redis[i].kind # "set" =>
          userToHandler'[redis[i].user] = userToHandler[redis[i].user]
  <2> SUFFICES ASSUME roamed' = {}, NEW i \in DOMAIN redis,
                      redis[i].kind # "set"
               PROVE  userToHandler'[redis[i].user] = userToHandler[redis[i].user]
    OBVIOUS
  <2>1. redis[i].user # u
    BY <1>0
  <2>2. redis[i].user \in Users
    BY <1>0 DEF Trips
  <2> QED BY <1>1, <2>1, <2>2
<1>3. CASE EnterCached(h, u)
  <2>1. UNCHANGED redis
    BY <1>3 DEF EnterCached, trips
  <2>2. Extends({})
    BY <2>1 DEF Extends
  <2>3. Reply(h, Oldest(Queued(h)), nextSeq, Queued(h))
    BY <1>3 DEF EnterCached
  <2>4. \A x \in Handlers \ {h} : requests'[x] = requests[x]
    BY <2>3 DEF Reply, TypeInv, TypeOK
  <2>5. \A r \in replies' \ replies :
          /\ r.handler = h /\ r.origin = nextSeq
          /\ r.seq = nextSeq \/ requests[h] # <<>>
    <3>1. requests[h] = <<>> => Queued(h) = <<nextSeq>>
      BY DEF Queued
    <3>2. requests[h] = <<>> => Oldest(Queued(h)) = nextSeq
      BY <3>1 DEF Oldest
    <3> QED BY <2>3, <3>2 DEF Reply
  <2>6. roamed \subseteq roamed'
    BY <1>0
  <2> QED BY <1>0, <1>2, <2>2, <2>4, <2>5, <2>6, EventAnswers
<1>4. CASE EnterUncached(h, u)
  <2> PICK n : n = Get("enter", u, u, nextSeq)
    OBVIOUS
  <2>1. n.origin = nextSeq /\ n.user = u
    BY DEF Get, Trip
  <2>2. redis' = Append(redis, n)
    BY <1>4 DEF EnterUncached
  <2>3. Extends({n})
    BY <1>0, <2>2 DEF Extends
  <2>4. /\ \A x \in Handlers \ {h} : requests'[x] = requests[x]
        /\ requests'[h] = Queued(h) /\ replies' = replies
    BY <1>4 DEF EnterUncached, TypeInv, TypeOK
  <2>5. roamed \subseteq roamed'
    BY <1>0
  <2>6. \A m \in {n} : m.kind # "set" => m.origin = nextSeq
    BY <2>1
  <2>7. \A m \in {n} : m.kind \in Answered =>
          userToHandler'[m.user] = h /\ requests'[h] = Queued(h)
    BY <1>1, <2>1, <2>4
  <2>8. \A r \in replies' \ replies :
          /\ r.handler = h /\ r.origin = nextSeq
          /\ r.seq = nextSeq \/ requests[h] # <<>>
    BY <2>4
  <2> QED BY <1>0, <1>2, <2>3, <2>4, <2>5, <2>6, <2>7, <2>8, EventAnswers
<1> QED BY <1>3, <1>4

\* The responses, and the reply that may follow one.
LEMMA ResponsesAnswer ==
    ASSUME AnswersInv, TypeInv,
           \/ EnterBack
           \/ \E kind \in {"call", "list", "quiet"} : CallBack(kind)
           \/ SetBack
    PROVE  AnswersInv'
<1>0. /\ redis \in Seq(Trips) /\ redis # <<>> /\ DataOK /\ MapsTypeOK
      /\ UNCHANGED <<maps, askedOn, roamed>> /\ crowded \subseteq crowded'
  BY TypeParts DEF EnterBack, CallBack, SetBack, Back, TypeInv
<1> PICK t, h : t = Head(redis) /\ h = userToHandler[t.user]
  OBVIOUS
<1>1. t \in Trips
  BY <1>0
<1>2. ASSUME redis' = Tail(redis) PROVE Advances
  BY <1>0, <1>2 DEF Advances
<1>3. ASSUME Advances,
             \/ UNCHANGED <<requests, replies>>
             \/ /\ t.kind # "set" /\ (t.kind \in Answered \/ h \in crowded')
                /\ h # None /\ requests[h] # <<>>
                /\ Reply(h, Oldest(requests[h]), t.origin, requests[h])
      PROVE  AnswersInv'
  BY <1>0, <1>3, BackAnswers
<1>4. CASE EnterBack
  <2>1. /\ \/ UNCHANGED <<requests, replies>>
           \/ /\ h # None /\ requests[h] # <<>>
              /\ Reply(h, Oldest(requests[h]), t.origin, requests[h])
        /\ redis' = Tail(redis) /\ t.kind = "enter"
    BY <1>4 DEF EnterBack, Back
  <2> QED BY <1>2, <1>3, <2>1 DEF Answered
<1>5. ASSUME NEW kind \in {"call", "list", "quiet"}, CallBack(kind)
      PROVE  AnswersInv'
  <2>0. t.kind = kind
    BY <1>5 DEF CallBack, Back
  <2>1. CASE redis' = Tail(redis) /\ UNCHANGED <<requests, replies>>
    BY <1>2, <1>3, <2>1
  <2>2. CASE /\ h # None /\ handlerToUser[h] # None
             /\ \E stored \in Copies(t), commits \in BOOLEAN :
                  Effects(handlerToUser[h], {}, stored, <<>>, commits,
                          Tail(redis), async \ {t.id})
             /\ \/ UNCHANGED <<requests, replies>>
                \/ /\ kind # "quiet" \/ h \in crowded'
                   /\ requests[h] # <<>>
                   /\ Reply(h, Oldest(requests[h]), t.origin, requests[h])
    <3>1. h \in Handlers /\ handlerToUser[h] \in Users
      BY <1>0, <1>1, <2>2 DEF MapsTypeOK, Trips
    <3>2. PICK stored \in Copies(t), commits \in BOOLEAN :
            Effects(handlerToUser[h], {}, stored, <<>>, commits,
                    Tail(redis), async \ {t.id})
      BY <2>2
    <3>3. /\ stored \in SUBSET Users
          /\ stored # {} => nextVersion <= MaxVersions
      BY <1>1 DEF Copies, Trips
    <3>4. async \ {t.id} \in SUBSET (1..(nextAsync - 1))
      BY <1>0 DEF DataOK
    <3>5. Advances
      BY <1>0, <3>1, <3>2, <3>3, <3>4, EffectsAdvances
    <3> QED BY <1>3, <2>0, <2>2, <3>5 DEF Answered
  <2> QED BY <1>5, <2>1, <2>2 DEF CallBack, data
<1>6. CASE SetBack
  BY <1>2, <1>3, <1>6 DEF SetBack
<1> QED BY <1>4, <1>5, <1>6

LEMMA AnswersInductive ==
    TypeInv /\ MapsInv /\ AnswersInv /\ [Next]_vars => AnswersInv'
<1> SUFFICES ASSUME TypeInv, MapsInv, AnswersInv, [Next]_vars PROVE AnswersInv'
  OBVIOUS
<1>0. ASSUME NEW x \in Handlers, OnUserDisconnect(x) \/ UNCHANGED <<maps, data>>
      PROVE  \A v \in Users : userToHandler'[v] \in {userToHandler[v], None}
  BY <1>0 DEF OnUserDisconnect, ReleaseMaps, maps, TypeInv, TypeOK
<1>1. ASSUME NEW h \in Handlers, NotEntered(h) PROVE AnswersInv'
  <2>1. /\ Arrives(h) /\ UNCHANGED <<maps, trips, replies, roamed>>
        /\ requests' = [requests EXCEPT ![h] = Queued(h)]
    BY <1>1 DEF NotEntered
  <2>2. Extends({})
    BY <2>1 DEF Extends, trips
  <2>3. \A x \in Handlers \ {h} : requests'[x] = requests[x]
    BY <2>1 DEF TypeInv, TypeOK
  <2>4. UNCHANGED <<userToHandler, replies, roamed>>
    BY <2>1 DEF maps
  <2> QED BY <2>1, <2>2, <2>3, <2>4, EventAnswers
<1>2. ASSUME NEW h \in Handlers, Request(h) PROVE AnswersInv'
  <2>1. PICK news \in SUBSET Trips :
             /\ Extends(news)
             /\ \A n \in news :
                  /\ n.origin = nextSeq /\ n.user = handlerToUser[h]
                  /\ n.kind \in Answered => requests'[h] = Queued(h)
             /\ \A x \in Handlers \ {h} : requests'[x] = requests[x]
             /\ \A r \in replies' \ replies :
                  r.handler = h /\ r.origin = nextSeq /\ r.seq = nextSeq
    BY <1>2, RequestOutcome
  <2>2. Arrives(h) /\ handlerToUser[h] # None
        /\ UNCHANGED <<userToHandler, roamed>>
    BY <1>2 DEF Request, maps
  <2>3. userToHandler[handlerToUser[h]] = h
    BY <2>2 DEF MapsInv, MapsTypeOK, HandlerMapsAgree
  <2> QED BY <2>1, <2>2, <2>3, EventAnswers
<1>3. ASSUME NEW h \in Handlers, UserDisconnect(h) PROVE AnswersInv'
  <2>1. /\ UNCHANGED <<redis, askedOn, crowded, roamed, replies>>
        /\ \A x \in Handlers : requests'[x] = requests[x]
    BY <1>3, SessionAssumption DEF UserDisconnect, trips, TypeInv, TypeOK
  <2>2. \A v \in Users : userToHandler'[v] \in {userToHandler[v], None}
    BY <1>0, <1>3 DEF UserDisconnect
  <2>3. OriginsAsked' /\ OneTripEach' /\ RepliesMatch'
    BY <2>1 DEF AnswersInv, OriginsAsked, OneTripEach, RepliesMatch
  <2>4. AskerWaits'
    <3> SUFFICES ASSUME roamed = {}, NEW i \in DOMAIN redis,
                        redis[i].kind \in Answered
                 PROVE  (Waits(redis[i]))'
      BY <2>1 DEF AskerWaits
    <3> PICK t : t = redis[i]
      OBVIOUS
    <3>1. t \in Trips /\ t.kind # "set"
      BY DEF TypeInv, Answered
    <3>2. t.origin \in 1..Len(askedOn) /\ t.user \in Users
      BY <3>1 DEF AnswersInv, OriginsAsked, Trips
    <3>3. askedOn[t.origin] \in Handlers
      BY <3>2 DEF TypeInv, TypeOK
    <3>4. Waits(t)
      BY DEF AnswersInv, AskerWaits
    <3>5. (Waits(t))'
      BY <2>1, <2>2, <3>2, <3>3, <3>4, WaitsOn
    <3> QED BY <2>1, <3>5 DEF Waits
  <2> QED BY <2>3, <2>4 DEF AnswersInv
<1>4. ASSUME NEW h \in Handlers, ClientDisconnect(h) PROVE AnswersInv'
  <2>1. /\ Arrives(h) /\ UNCHANGED <<redis, replies, roamed>>
        /\ requests' = [requests EXCEPT ![h] = Queued(h)]
    BY <1>4 DEF ClientDisconnect, trips
  <2>2. Extends({})
    BY <2>1 DEF Extends
  <2>3. \A x \in Handlers \ {h} : requests'[x] = requests[x]
    BY <2>1 DEF TypeInv, TypeOK
  <2>4. \A v \in Users : userToHandler'[v] \in {userToHandler[v], None}
    BY <1>0, <1>4 DEF ClientDisconnect
  <2>5. \A i \in DOMAIN redis : redis[i].user \in Users
    BY DEF TypeInv, Trips
  <2> QED BY <2>1, <2>2, <2>3, <2>4, <2>5, EventAnswers
<1>5. CASE UNCHANGED vars
  BY <1>5 DEF vars, maps, trips, AnswersInv, OriginsAsked, OneTripEach,
              AskerWaits, Waits, RepliesMatch
<1> QED BY <1>1, <1>2, <1>3, <1>4, <1>5, EntersAnswers, ResponsesAnswer DEF Next

-----------------------------------------------------------------------------
(* The cache.  A fetch that is the only one of its user's data finds the user  *)
(* still uncached, and reads what is the last thing saved: only a handler of a *)
(* cached user, or the callback of such a fetch, saves the user's data.        *)

\* The fetches whose data may be cached or saved.
Cacheable == {"enter", "call", "quiet"}

VersionsBelowNext ==
    /\ \A u \in Users :
         /\ object[u] = NoObject \/ object[u] < nextVersion
         /\ saved[u] = NoData \/ saved[u] < nextVersion
    /\ \A i \in DOMAIN redis : redis[i].kind \in Cacheable =>
         redis[i].val = NoData \/ redis[i].val < nextVersion

EntersForItself ==
    \A i \in DOMAIN redis : redis[i].kind = "enter" => redis[i].of = redis[i].user

FetchesAreFresh ==
    \A i \in DOMAIN redis :
      (redis[i].kind \in Cacheable /\ redis[i].of \notin fetched) =>
        /\ object[redis[i].of] = NoObject
        /\ redis[i].val = saved[redis[i].of]
        /\ \A j \in DOMAIN redis :
             (redis[j].kind \in Cacheable /\ redis[j].of = redis[i].of) => j = i

CacheInv ==
    VersionsBelowNext /\ EntersForItself /\ FetchesAreFresh /\ CacheNotStale

\* What a handler may do to the data of x, the copies it stores left aside.
DataStep(x) ==
    /\ object'[x] = NoObject \/ object'[x] < nextVersion'
    /\ saved'[x] = NoData \/ saved'[x] < nextVersion'
    /\ object[x] = NoObject => object'[x] = NoObject /\ saved'[x] = saved[x]
    /\ \/ object'[x] = NoObject \/ saved'[x] = NoData \/ object'[x] >= saved'[x]
       \/ x \in fetched

LEMMA EffectsData ==
    ASSUME DataOK, CacheInv, NEW u \in Users, NEW changed \in SUBSET Users,
           \A x \in changed : object[x] # NoObject,
           NEW stored \in SUBSET Users,
           changed \cup stored # {} => nextVersion <= MaxVersions,
           NEW out, NEW commits, NEW rest, NEW kept,
           Effects(u, changed, stored, out, commits, rest, kept)
    PROVE  /\ \A x \in Users \ stored : DataStep(x)
           /\ \A x \in stored :
                /\ object'[x] = object[x] \/ x \in changed
                /\ object'[x] = NoObject \/ object'[x] < nextVersion'
                /\ saved'[x] < nextVersion'
           /\ nextVersion' \in Nat /\ nextVersion <= nextVersion'
<1> DEFINE others == (changed \ {u}) \cup stored
           own    == IF u \in changed THEN nextVersion ELSE object[u]
           save   == commits /\ u \in dirty \cup changed
<1>0. /\ MaxVersions \in Nat /\ nextVersion \in Nat
      /\ object \in [Users -> Version \cup {NoObject}]
      /\ saved \in [Users -> Version \cup {NoData}]
      /\ \A x \in dirty : x \in Users /\ object[x] # NoObject
      /\ Version \subseteq Nat
      /\ VersionsBelowNext /\ CacheNotStale
  BY SessionAssumption, VersionFacts DEF DataOK, CacheInv
<1>1. /\ \A x \in Users : object'[x] = IF x \in changed THEN nextVersion
                                       ELSE object[x]
      /\ nextVersion' = nextVersion +
                           (IF changed \cup stored = {} THEN 0 ELSE 1)
      /\ \A x \in Users : saved'[x] = IF x = u /\ save THEN own
                                       ELSE IF x \in others THEN nextVersion
                                       ELSE saved[x]
  BY DEF Effects
<1> HIDE DEF save
<1>2. /\ nextVersion' \in Nat /\ nextVersion <= nextVersion'
      /\ changed \cup stored # {} => nextVersion < nextVersion'
  BY <1>0, <1>1
<1>3. save => u \in dirty \cup changed
  BY DEF save
<1>4. \A x \in Users : /\ object[x] = NoObject \/ object[x] \in Nat
                       /\ saved[x] = NoData \/ saved[x] \in Nat
  BY <1>0
<1>5. \A x \in Users : /\ object[x] = NoObject \/ object[x] < nextVersion
                       /\ saved[x] = NoData \/ saved[x] < nextVersion
                       /\ \/ object[x] = NoObject \/ saved[x] = NoData
                          \/ object[x] >= saved[x]
                          \/ x \in fetched
  BY <1>0 DEF VersionsBelowNext, CacheNotStale
<1>6. ASSUME NEW x \in Users \ stored PROVE DataStep(x)
  <2>1. CASE x \in changed
    <3>1. object'[x] = nextVersion /\ nextVersion < nextVersion'
      BY <1>1, <1>2, <2>1
    <3>2. saved'[x] = nextVersion \/ saved'[x] = saved[x]
      BY <1>1, <2>1
    <3>3. saved'[x] = NoData \/ saved'[x] <= nextVersion
      BY <1>0, <1>4, <1>5, <3>2
    <3>4. saved'[x] = NoData \/ saved'[x] \in Nat
      BY <1>0, <1>4, <3>2
    <3> QED BY <1>0, <1>2, <2>1, <3>1, <3>3, <3>4 DEF DataStep
  <2>2. CASE x \notin changed /\ x = u /\ save
    <3>1. object[x] # NoObject
      BY <1>0, <1>3, <2>2
    <3>2. object'[x] = object[x] /\ saved'[x] = object[x]
      BY <1>1, <2>2
    <3> QED BY <1>0, <1>2, <1>4, <1>5, <3>1, <3>2 DEF DataStep
  <2>3. CASE x \notin changed /\ ~(x = u /\ save)
    <3>1. object'[x] = object[x] /\ saved'[x] = saved[x]
      BY <1>1, <2>3
    <3> QED BY <1>0, <1>2, <1>4, <1>5, <3>1 DEF DataStep
  <2> QED BY <2>1, <2>2, <2>3
<1>7. ASSUME NEW x \in stored
      PROVE  /\ object'[x] = object[x] \/ x \in changed
             /\ object'[x] = NoObject \/ object'[x] < nextVersion'
             /\ saved'[x] < nextVersion'
  <2>0. x \in Users /\ x \in others /\ changed \cup stored # {}
    OBVIOUS
  <2>1. /\ nextVersion < nextVersion'
        /\ \/ saved'[x] = nextVersion
           \/ saved'[x] = object[x] /\ object[x] # NoObject
    BY <1>0, <1>1, <1>2, <1>3, <2>0
  <2>2. object'[x] = nextVersion \/ object'[x] = object[x]
    BY <1>1, <2>0
  <2> QED BY <1>0, <1>1, <1>2, <1>4, <1>5, <2>0, <2>1, <2>2
<1> QED BY <1>2, <1>6, <1>7

\* A client's event, whatever it fetches.
LEMMA EventCaches ==
    ASSUME CacheInv, TypeInv, \A x \in Users : DataStep(x),
           nextVersion' \in Nat, nextVersion <= nextVersion',
           fetched \subseteq fetched',
           NEW news \in SUBSET Trips, Extends(news),
           \A n \in news :
             /\ n.kind = "enter" => n.of = n.user
             /\ n.kind \in Cacheable =>
                  /\ n.val = saved[n.of] /\ object[n.of] = NoObject
                  /\ fetched' = Fetching(n.of)
    PROVE  CacheInv'
<1>0. /\ VersionsBelowNext /\ EntersForItself /\ FetchesAreFresh /\ CacheNotStale
      /\ redis \in Seq(Trips) /\ nextVersion \in Nat
      /\ Version \subseteq Nat
      /\ saved \in [Users -> Version \cup {NoData}]
  BY SessionAssumption, VersionFacts DEF CacheInv, TypeInv, TypeOK
<1>1. "set" \notin Cacheable /\ "enter" \in Cacheable
  BY DEF Cacheable
<1>2. \A i \in DOMAIN redis : redis[i] \in Trips
  BY <1>0
<1>3. ASSUME NEW i \in DOMAIN redis', redis'[i].kind \in Cacheable
      PROVE  \/ i \in DOMAIN redis /\ redis'[i] = redis[i]
             \/ i = Len(redis) + 1 /\ redis'[i] \in news
  BY <1>1, <1>3 DEF Extends
<1>4. \A n \in Trips : n.of \in Users /\ (n.val = NoData \/ n.val \in Nat)
  BY <1>0 DEF Trips
<1>5. VersionsBelowNext'
  <2>1. \A u \in Users :
          /\ object'[u] = NoObject \/ object'[u] < nextVersion'
          /\ saved'[u] = NoData \/ saved'[u] < nextVersion'
    BY DEF DataStep
  <2>2. ASSUME NEW i \in DOMAIN redis', redis'[i].kind \in Cacheable
        PROVE  redis'[i].val = NoData \/ redis'[i].val < nextVersion'
    <3> PICK n : n = redis'[i]
      OBVIOUS
    <3>1. CASE i \in DOMAIN redis /\ n = redis[i]
      <4>1. n.val = NoData \/ n.val < nextVersion
        BY <1>0, <2>2, <3>1 DEF VersionsBelowNext
      <4>2. n.val = NoData \/ n.val \in Nat
        BY <1>2, <1>4, <3>1
      <4> QED BY <1>0, <4>1, <4>2
    <3>2. CASE n \in news
      <4>1. n.val = saved[n.of] /\ n.of \in Users /\ n \in Trips
        BY <1>4, <2>2, <3>2
      <4>2. n.val = NoData \/ n.val < nextVersion
        BY <1>0, <4>1 DEF VersionsBelowNext
      <4>3. n.val = NoData \/ n.val \in Nat
        BY <1>4, <4>1
      <4> QED BY <1>0, <4>2, <4>3
    <3> QED BY <1>3, <2>2, <3>1, <3>2
  <2>3. NoObject' = NoObject /\ NoData' = NoData
    BY DEF NoObject, NoData
  <2> QED BY <2>1, <2>2, <2>3 DEF VersionsBelowNext
<1>6. EntersForItself'
  <2> SUFFICES ASSUME NEW i \in DOMAIN redis', redis'[i].kind = "enter"
               PROVE  redis'[i].of = redis'[i].user
    BY DEF EntersForItself
  <2>1. CASE i \in DOMAIN redis /\ redis'[i] = redis[i]
    BY <1>0, <2>1 DEF EntersForItself
  <2>2. CASE redis'[i] \in news
    BY <2>2
  <2> QED BY <1>1, <1>3, <2>1, <2>2
<1>7. FetchesAreFresh'
  <2> SUFFICES ASSUME NEW i \in DOMAIN redis', redis'[i].kind \in Cacheable,
                      redis'[i].of \notin fetched'
               PROVE  /\ object'[redis'[i].of] = NoObject
                      /\ redis'[i].val = saved'[redis'[i].of]
                      /\ \A j \in DOMAIN redis' :
                           (/\ redis'[j].kind \in Cacheable
                            /\ redis'[j].of = redis'[i].of) => j = i
    BY DEF FetchesAreFresh, NoObject
  <2> PICK n : n = redis'[i]
    OBVIOUS
  <2>0. n.of \notin fetched
    OBVIOUS
  <2>1. CASE i \in DOMAIN redis /\ n = redis[i]
    <3>1. /\ object[n.of] = NoObject /\ n.val = saved[n.of]
          /\ \A j \in DOMAIN redis :
               (redis[j].kind \in Cacheable /\ redis[j].of = n.of) => j = i
      BY <1>0, <2>0, <2>1 DEF FetchesAreFresh
    <3>2. n.of \in Users
      BY <1>2, <1>4, <2>1
    <3>3. object'[n.of] = NoObject /\ saved'[n.of] = saved[n.of]
      BY <3>1, <3>2 DEF DataStep
    <3>4. ASSUME NEW j \in DOMAIN redis', redis'[j].kind \in Cacheable,
                 redis'[j].of = n.of
          PROVE  j = i
      <4>1. CASE j \in DOMAIN redis /\ redis'[j] = redis[j]
        BY <3>1, <3>4, <4>1
      <4>2. CASE redis'[j] \in news
        <5>1. fetched' = Fetching(n.of)
          BY <3>4, <4>2
        <5>2. n.of \in Fetching(n.of)
          BY <2>1 DEF Fetching, Cacheable
        <5> QED BY <5>1, <5>2
      <4> QED BY <1>3, <3>4, <4>1, <4>2
    <3> QED BY <3>1, <3>3, <3>4
  <2>2. CASE i = Len(redis) + 1 /\ n \in news
    <3>1. /\ object[n.of] = NoObject /\ n.val = saved[n.of]
          /\ fetched' = Fetching(n.of) /\ n.of \in Users
      BY <1>4, <2>2
    <3>2. object'[n.of] = NoObject /\ saved'[n.of] = saved[n.of]
      BY <3>1 DEF DataStep
    <3>3. ASSUME NEW j \in DOMAIN redis', redis'[j].kind \in Cacheable,
                 redis'[j].of = n.of
          PROVE  j = i
      <4>1. CASE j \in DOMAIN redis /\ redis'[j] = redis[j]
        <5>1. n.of \in Fetching(n.of)
          BY <3>3, <4>1 DEF Fetching, Cacheable
        <5> QED BY <3>1, <5>1
      <4> QED BY <1>3, <2>2, <3>3, <4>1
    <3> QED BY <3>1, <3>2, <3>3
  <2> QED BY <1>3, <2>1, <2>2
<1>8. CacheNotStale'
  BY DEF CacheNotStale, DataStep, NoObject, NoData
<1> QED BY <1>5, <1>6, <1>7, <1>8 DEF CacheInv

\* A response: the round trip of t is over, and what it was for may be stored.
LEMMA BackCaches ==
    ASSUME CacheInv, TypeInv, redis # <<>>, Advances, fetched' = fetched,
           nextVersion' \in Nat, nextVersion <= nextVersion',
           NEW t, t = Head(redis),
           \A x \in Users \ {t.of} : DataStep(x),
           \/ DataStep(t.of)
           \/ /\ t.kind \in Cacheable
              /\ object'[t.of] = NoObject \/ object'[t.of] < nextVersion'
              /\ saved'[t.of] = NoData \/ saved'[t.of] < nextVersion'
              /\ \/ t.of \in fetched \/ object'[t.of] = NoObject
                 \/ saved'[t.of] = NoData \/ object'[t.of] >= saved'[t.of]
    PROVE  CacheInv'
<1>0. /\ VersionsBelowNext /\ EntersForItself /\ FetchesAreFresh /\ CacheNotStale
      /\ redis \in Seq(Trips) /\ nextVersion \in Nat
      /\ 1 \in DOMAIN redis /\ t = redis[1]
      /\ Version \subseteq Nat
  BY SessionAssumption, VersionFacts DEF CacheInv, TypeInv, TypeOK
<1>1. \A i \in DOMAIN redis : redis[i] \in Trips
  BY <1>0
<1>2. \A n \in Trips : n.of \in Users /\ (n.val = NoData \/ n.val \in Nat)
  BY <1>0 DEF Trips
<1>3. ASSUME NEW i \in DOMAIN redis', redis'[i].kind # "set"
      PROVE  /\ i \in Nat \ {0} /\ i + 1 \in DOMAIN redis
             /\ redis'[i] = redis[i + 1]
  BY <1>3 DEF Advances
<1>4. NoObject' = NoObject /\ NoData' = NoData
  BY DEF NoObject, NoData
<1>5. "set" \notin Cacheable /\ "enter" # "set"
  BY DEF Cacheable
<1>6. VersionsBelowNext'
  <2>1. \A u \in Users :
          /\ object'[u] = NoObject \/ object'[u] < nextVersion'
          /\ saved'[u] = NoData \/ saved'[u] < nextVersion'
    BY DEF DataStep
  <2>2. ASSUME NEW i \in DOMAIN redis', redis'[i].kind \in Cacheable
        PROVE  redis'[i].val = NoData \/ redis'[i].val < nextVersion'
    <3>1. i + 1 \in DOMAIN redis /\ redis'[i] = redis[i + 1]
      BY <1>3, <1>5, <2>2
    <3> PICK n : n = redis[i + 1]
      OBVIOUS
    <3>2. n.val = NoData \/ n.val < nextVersion
      BY <1>0, <2>2, <3>1 DEF VersionsBelowNext
    <3>3. n.val = NoData \/ n.val \in Nat
      BY <1>1, <1>2, <3>1
    <3> QED BY <1>0, <3>1, <3>2, <3>3
  <2> QED BY <1>4, <2>1, <2>2 DEF VersionsBelowNext
<1>7. EntersForItself'
  BY <1>0, <1>3, <1>5 DEF EntersForItself
<1>8. FetchesAreFresh'
  <2> SUFFICES ASSUME NEW i \in DOMAIN redis', redis'[i].kind \in Cacheable,
                      redis'[i].of \notin fetched
               PROVE  /\ object'[redis'[i].of] = NoObject
                      /\ redis'[i].val = saved'[redis'[i].of]
                      /\ \A j \in DOMAIN redis' :
                           (/\ redis'[j].kind \in Cacheable
                            /\ redis'[j].of = redis'[i].of) => j = i
    BY <1>4 DEF FetchesAreFresh
  <2>1. /\ i \in Nat \ {0} /\ i + 1 \in DOMAIN redis
        /\ redis'[i] = redis[i + 1]
    BY <1>3, <1>5
  <2> PICK n : n = redis[i + 1]
    OBVIOUS
  <2>2. /\ object[n.of] = NoObject /\ n.val = saved[n.of]
        /\ \A j \in DOMAIN redis :
             (redis[j].kind \in Cacheable /\ redis[j].of = n.of) => j = i + 1
    BY <1>0, <2>1 DEF FetchesAreFresh
  <2>3. n.of \in Users
    BY <1>1, <1>2, <2>1
  <2>4. n.of = t.of => t.kind \notin Cacheable
    BY <1>0, <2>1, <2>2
  <2>5. DataStep(n.of)
    BY <2>3, <2>4
  <2>6. object'[n.of] = NoObject /\ saved'[n.of] = saved[n.of]
    BY <2>2, <2>5 DEF DataStep
  <2>7. ASSUME NEW j \in DOMAIN redis', redis'[j].kind \in Cacheable,
               redis'[j].of = n.of
        PROVE  j = i
    <3>1. /\ j \in Nat \ {0} /\ j + 1 \in DOMAIN redis
          /\ redis'[j] = redis[j + 1]
      BY <1>3, <1>5, <2>7
    <3>2. j + 1 = i + 1
      BY <2>2, <2>7, <3>1
    <3> QED BY <2>1, <3>1, <3>2
  <2> QED BY <2>1, <2>2, <2>6, <2>7
<1>9. CacheNotStale'
  BY <1>4 DEF CacheNotStale, DataStep
<1> QED BY <1>6, <1>7, <1>8, <1>9 DEF CacheInv

\* A handler that leaves the data alone.
LEMMA DataAlone ==
    ASSUME CacheInv, TypeInv, UNCHANGED data
    PROVE  /\ \A x \in Users : DataStep(x)
           /\ nextVersion' \in Nat /\ nextVersion <= nextVersion'
<1>1. nextVersion \in Nat /\ VersionsBelowNext /\ CacheNotStale
  BY SessionAssumption DEF CacheInv, TypeInv, TypeOK
<1> QED BY <1>1 DEF data, DataStep, VersionsBelowNext, CacheNotStale

LEMMA RequestCaches ==
    ASSUME CacheInv, TypeInv, NEW h \in Handlers, Request(h)
    PROVE  CacheInv'
<1>0. DataOK /\ RequestsOK /\ MapsTypeOK /\ handlerToUser[h] # None
  BY TypeParts DEF Request
<1> PICK u : u = handlerToUser[h]
  OBVIOUS
<1>1. u \in Users
  BY <1>0 DEF MapsTypeOK
<1>2. PICK changed \in Changes(u) :
        \E out, commits : Effects(u, changed, {}, out, commits, redis, async)
  <2>1. {} \in Changes(u)
    <3>1. {} \ {u} = {} /\ Cardinality({}) <= 1
      BY FS_EmptySet
    <3> QED BY <3>1 DEF Changes
  <2> QED BY <2>1 DEF Request, Answer, Defer, AnswerAndFetch, Raise
<1>3. PICK out, commits : Effects(u, changed, {}, out, commits, redis, async)
  BY <1>2
<1>4. /\ changed \in SUBSET Users /\ {} \in SUBSET Users
      /\ \A x \in changed : object[x] # NoObject
      /\ changed \cup {} # {} => nextVersion <= MaxVersions
  BY <1>2 DEF Changes
<1>5. /\ \A x \in Users : DataStep(x)
      /\ nextVersion' \in Nat /\ nextVersion <= nextVersion'
  BY <1>0, <1>1, <1>3, <1>4, EffectsData
<1>6. PICK news \in SUBSET Trips :
        /\ Extends(news)
        /\ \A n \in news :
             /\ n.kind # "enter" /\ n.val = saved[n.of]
             /\ n.kind # "list" =>
                  object[n.of] = NoObject /\ fetched' = Fetching(n.of)
  BY RequestOutcome
<1>7. fetched \subseteq fetched'
  BY DEF Request, Answer, Defer, AnswerAndFetch, Raise, Fetching
<1>8. "list" \notin Cacheable
  BY DEF Cacheable
<1> QED BY <1>5, <1>6, <1>7, <1>8, EventCaches

LEMMA EntersCaches ==
    ASSUME CacheInv, TypeInv, NEW h \in Handlers, NEW u \in Users,
           EnterCached(h, u) \/ EnterUncached(h, u)
    PROVE  CacheInv'
<1>0. UNCHANGED data /\ redis \in Seq(Trips)
  BY DEF EnterCached, EnterUncached, TypeInv
<1>1. /\ \A x \in Users : DataStep(x)
      /\ nextVersion' \in Nat /\ nextVersion <= nextVersion'
  BY <1>0, DataAlone
<1>2. CASE EnterCached(h, u)
  <2>1. UNCHANGED <<redis, fetched>>
    BY <1>2 DEF EnterCached, trips
  <2>2. Extends({})
    BY <2>1 DEF Extends
  <2> QED BY <1>1, <2>1, <2>2, EventCaches
<1>3. CASE EnterUncached(h, u)
  <2> PICK n : n = Get("enter", u, u, nextSeq)
    OBVIOUS
  <2>1. /\ n.kind = "enter" /\ n.user = u /\ n.of = u /\ n.val = saved[u]
        /\ object[u] = NoObject
    BY <1>3 DEF Get, Trip, EnterUncached
  <2>2. n \in Trips
    <3>1. DataOK /\ RequestsOK /\ FrameOK /\ Arrives(h)
      BY <1>3, TypeParts DEF EnterUncached, Enters
    <3>2. <<n>> \in Seq(Trips)
      BY <3>1, ArrivesType, GetType DEF Fetches
    <3> QED BY <3>2
  <2>3. redis' = Append(redis, n) /\ fetched' = Fetching(u)
    BY <1>3 DEF EnterUncached
  <2>4. Extends({n})
    BY <1>0, <2>3 DEF Extends
  <2>5. fetched \subseteq fetched'
    BY <2>3 DEF Fetching
  <2>6. {n} \in SUBSET Trips
    BY <2>2
  <2>7. \A m \in {n} :
          /\ m.kind = "enter" => m.of = m.user
          /\ m.kind \in Cacheable =>
               /\ m.val = saved[m.of] /\ object[m.of] = NoObject
               /\ fetched' = Fetching(m.of)
    BY <2>1, <2>3
  <2> QED BY <1>1, <2>4, <2>5, <2>6, <2>7, EventCaches
<1> QED BY <1>2, <1>3

LEMMA ResponsesCache ==
    ASSUME CacheInv, TypeInv,
           \/ EnterBack
           \/ \E kind \in {"call", "list", "quiet"} : CallBack(kind)
           \/ SetBack
    PROVE  CacheInv'
<1>0. /\ redis \in Seq(Trips) /\ redis # <<>> /\ DataOK /\ MapsTypeOK
      /\ fetched' = fetched /\ nextVersion \in Nat
      /\ VersionsBelowNext /\ EntersForItself /\ FetchesAreFresh /\ CacheNotStale
      /\ MaxVersions \in Nat /\ Version \subseteq Nat
  <2>1. redis # <<>> /\ fetched' = fetched
    BY DEF EnterBack, CallBack, SetBack, Back
  <2>2. DataOK /\ MapsTypeOK
    BY TypeParts
  <2>3. redis \in Seq(Trips) /\ nextVersion \in Nat
    BY SessionAssumption, <2>2 DEF DataOK
  <2> QED BY <2>1, <2>2, <2>3, SessionAssumption, VersionFacts DEF CacheInv
<1> PICK t, h : t = Head(redis) /\ h = userToHandler[t.user]
  OBVIOUS
<1>1. /\ t \in Trips /\ 1 \in DOMAIN redis /\ t = redis[1]
      /\ t.of \in Users /\ t.user \in Users
  BY <1>0 DEF Trips
<1>2. ASSUME redis' = Tail(redis) PROVE Advances
  BY <1>0, <1>2 DEF Advances
<1>3. ASSUME redis' = Tail(redis), UNCHANGED data PROVE CacheInv'
  BY <1>0, <1>1, <1>2, <1>3, DataAlone, BackCaches
<1>4. CASE EnterBack
  <2>1. /\ redis' = Tail(redis) /\ t.kind = "enter"
        /\ UNCHANGED <<saved, nextVersion>>
        /\ \/ UNCHANGED <<object, dirty>>
           \/ t.val # NoData /\ object' = [object EXCEPT ![t.user] = t.val]
    BY <1>4 DEF EnterBack, Back
  <2>2. CASE UNCHANGED <<object, dirty>>
    BY <1>3, <2>1, <2>2 DEF data
  <2>3. CASE t.val # NoData /\ object' = [object EXCEPT ![t.user] = t.val]
    <3>1. t.of = t.user /\ t.kind \in Cacheable
      BY <1>0, <1>1, <2>1 DEF EntersForItself, Cacheable
    <3>2. /\ object'[t.of] = t.val
          /\ \A x \in Users \ {t.of} : object'[x] = object[x]
          /\ UNCHANGED <<saved, nextVersion>>
      BY <1>0, <1>1, <2>1, <2>3, <3>1 DEF DataOK
    <3>3. t.val < nextVersion
      BY <1>0, <1>1, <2>3, <3>1 DEF VersionsBelowNext
    <3>4. t.of \notin fetched => t.val = saved[t.of]
      BY <1>0, <1>1, <3>1 DEF FetchesAreFresh
    <3>5. \A x \in Users \ {t.of} : DataStep(x)
      BY <1>0, <3>2 DEF DataStep, VersionsBelowNext, CacheNotStale
    <3>6. t.val \in Nat
      BY <1>0, <1>1, <2>3 DEF Trips
    <3>7. /\ object'[t.of] = NoObject \/ object'[t.of] < nextVersion'
          /\ saved'[t.of] = NoData \/ saved'[t.of] < nextVersion'
          /\ \/ t.of \in fetched \/ object'[t.of] = NoObject
             \/ saved'[t.of] = NoData \/ object'[t.of] >= saved'[t.of]
      BY <1>0, <1>1, <3>2, <3>3, <3>4, <3>6 DEF VersionsBelowNext
    <3>8. nextVersion' \in Nat /\ nextVersion <= nextVersion'
      BY <1>0, <2>1
    <3> QED BY <1>0, <1>1, <1>2, <2>1, <3>1, <3>5, <3>7, <3>8, BackCaches
  <2> QED BY <2>1, <2>2, <2>3
<1>5. ASSUME NEW kind \in {"call", "list", "quiet"}, CallBack(kind)
      PROVE  CacheInv'
  <2>0. t.kind = kind
    BY <1>5 DEF CallBack, Back
  <2>1. CASE redis' = Tail(redis) /\ UNCHANGED data
    BY <1>3, <2>1
  <2>2. CASE /\ h # None /\ handlerToUser[h] # None
             /\ \E stored \in Copies(t), commits \in BOOLEAN :
                  Effects(handlerToUser[h], {}, stored, <<>>, commits,
                          Tail(redis), async \ {t.id})
    <3>1. h \in Handlers /\ handlerToUser[h] \in Users
      BY <1>0, <1>1, <2>2 DEF MapsTypeOK
    <3>2. PICK stored \in Copies(t), commits \in BOOLEAN :
            Effects(handlerToUser[h], {}, stored, <<>>, commits,
                    Tail(redis), async \ {t.id})
      BY <2>2
    <3>3. /\ stored \in SUBSET Users
          /\ stored # {} => nextVersion <= MaxVersions
          /\ {} \cup stored # {} => nextVersion <= MaxVersions
          /\ stored = {} \/ (stored = {t.of} /\ t.kind # "list")
          /\ {} \in SUBSET Users /\ \A x \in {} : object[x] # NoObject
      BY <1>1 DEF Copies
    <3>4. async \ {t.id} \in SUBSET (1..(nextAsync - 1))
      BY <1>0 DEF DataOK
    <3>5. Advances
      BY <1>0, <3>1, <3>2, <3>3, <3>4, EffectsAdvances
    <3>6. /\ \A x \in Users \ stored : DataStep(x)
          /\ \A x \in stored :
               /\ object'[x] = object[x] \/ x \in {}
               /\ object'[x] = NoObject \/ object'[x] < nextVersion'
               /\ saved'[x] < nextVersion'
          /\ nextVersion' \in Nat /\ nextVersion <= nextVersion'
      BY <1>0, <3>1, <3>2, <3>3, EffectsData
    <3>7. CASE stored = {}
      BY <1>0, <1>1, <3>5, <3>6, <3>7, BackCaches
    <3>8. CASE stored = {t.of} /\ t.kind # "list"
      <4>1. t.kind \in Cacheable
        BY <2>0, <3>8 DEF Cacheable
      <4>2. t.of \notin fetched => object[t.of] = NoObject
        BY <1>0, <1>1, <4>1 DEF FetchesAreFresh
      <4>3. /\ object'[t.of] = object[t.of]
            /\ object'[t.of] = NoObject \/ object'[t.of] < nextVersion'
            /\ saved'[t.of] < nextVersion'
        BY <3>6, <3>8
      <4>4. \A x \in Users \ {t.of} : DataStep(x)
        BY <3>6, <3>8
      <4>5. nextVersion' \in Nat /\ nextVersion <= nextVersion'
        BY <3>6
      <4> QED BY <1>0, <1>1, <3>5, <4>1, <4>2, <4>3, <4>4, <4>5, BackCaches
    <3> QED BY <3>3, <3>7, <3>8
  <2> QED BY <1>5, <2>1, <2>2 DEF CallBack
<1>6. CASE SetBack
  BY <1>3, <1>6 DEF SetBack
<1> QED BY <1>4, <1>5, <1>6

LEMMA CacheInductive == TypeInv /\ CacheInv /\ [Next]_vars => CacheInv'
<1> SUFFICES ASSUME TypeInv, CacheInv, [Next]_vars PROVE CacheInv'
  OBVIOUS
<1>1. ASSUME NEW h \in Handlers, NotEntered(h) PROVE CacheInv'
  <2>1. UNCHANGED <<data, redis, fetched>>
    BY <1>1 DEF NotEntered, trips
  <2>2. Extends({}) /\ fetched \subseteq fetched'
    BY <2>1 DEF Extends
  <2>3. /\ \A x \in Users : DataStep(x)
        /\ nextVersion' \in Nat /\ nextVersion <= nextVersion'
    BY <2>1, DataAlone
  <2> QED BY <2>2, <2>3, EventCaches
<1>2. ASSUME NEW x \in Handlers, OnUserDisconnect(x),
             UNCHANGED <<redis, fetched>>
      PROVE  CacheInv'
  <2>0. /\ nextVersion \in Nat /\ VersionsBelowNext /\ EntersForItself
        /\ FetchesAreFresh /\ CacheNotStale /\ redis \in Seq(Trips)
    BY SessionAssumption DEF CacheInv, TypeInv, TypeOK
  <2>1. UNCHANGED <<redis, fetched, saved, nextVersion>>
    BY <1>2 DEF OnUserDisconnect, data
  <2>2. \A v \in Users : object'[v] \in {object[v], NoObject}
    BY <1>2 DEF OnUserDisconnect, data, TypeInv, TypeOK
  <2>3. \A i \in DOMAIN redis : redis[i].of \in Users
    BY <2>0 DEF Trips
  <2>4. NoObject' = NoObject /\ NoData' = NoData
    BY DEF NoObject, NoData
  <2>5. VersionsBelowNext' /\ CacheNotStale' /\ EntersForItself'
    BY <2>0, <2>1, <2>2, <2>4 DEF VersionsBelowNext, CacheNotStale, EntersForItself
  <2>6. FetchesAreFresh'
    BY <2>0, <2>1, <2>2, <2>3, <2>4 DEF FetchesAreFresh
  <2> QED BY <2>5, <2>6 DEF CacheInv
<1>4. ASSUME UNCHANGED <<data, redis, fetched>> PROVE CacheInv'
  BY <1>4 DEF data, CacheInv, VersionsBelowNext, EntersForItself,
              FetchesAreFresh, CacheNotStale, NoObject, NoData
<1>5. ASSUME NEW h \in Handlers, UserDisconnect(h) \/ ClientDisconnect(h)
      PROVE  CacheInv'
  BY <1>2, <1>4, <1>5 DEF UserDisconnect, ClientDisconnect, trips
<1>3. CASE UNCHANGED vars
  BY <1>3, <1>4 DEF vars, data, trips
<1> QED BY <1>1, <1>3, <1>5, RequestCaches, EntersCaches, ResponsesCache DEF Next
-----------------------------------------------------------------------------
\* The three invariants together; the last two need the first.
SessionInv == TypeInv /\ MapsInv /\ AnswersInv /\ CacheInv

LEMMA SessionInvInitially == Init => SessionInv
<1> SUFFICES ASSUME Init PROVE SessionInv
  OBVIOUS
<1>1. AnswersInv
  BY DEF Init, AnswersInv, OriginsAsked, OneTripEach, AskerWaits, RepliesMatch
<1>2. CacheInv
  BY SessionAssumption DEF Init, CacheInv, VersionsBelowNext, EntersForItself,
     FetchesAreFresh, CacheNotStale, NoObject, NoData
<1> QED BY <1>1, <1>2, MapsInvInitially, TypeInvInitially DEF SessionInv

LEMMA SessionInvInductive == SessionInv /\ [Next]_vars => SessionInv'
  BY MapsInvInductive, TypeInvInductive, AnswersInductive, CacheInductive
     DEF SessionInv

\* SendToGateway takes the oldest request of the connection for the one it
\* answers, and is right as long as a connection has one request at a time
\* queued and nobody enters with a round trip of his out.
THEOREM RepliesGoToTheirRequest == Spec => []RepliesMatch
<1>1. SessionInv => RepliesMatch
  BY DEF SessionInv, AnswersInv
<1> QED BY <1>1, SessionInvInitially, SessionInvInductive, PTL DEF Spec

\* A cached object is at least as new as what the database was told, whatever
\* is changed, stored for others, fetched and dropped, unless two fetches of the
\* user's data overlapped.
THEOREM CacheIsNeverStale == Spec => []CacheNotStale
<1>1. SessionInv => CacheNotStale
  BY DEF SessionInv, CacheInv
<1> QED BY <1>1, SessionInvInitially, SessionInvInductive, PTL DEF Spec
=============================================================================
