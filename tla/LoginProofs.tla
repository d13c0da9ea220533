---------------------------- MODULE LoginProofs ----------------------------
(***************************************************************************)
(* What Login guarantees for every set of devices and connections and      *)
(* every bound.                                                            *)
(***************************************************************************)
EXTENDS Login, SequenceTheorems, TLAPS

\* What the three queues hold.
Messages == [op : Ops, key : Devices \cup Handlers \cup Nat,
             val : Devices \cup Nat \cup {None}, origin : Nat]

Request == [seq : 1..MaxRequests, device : Devices \cup {None}]

CommandOK(c) ==
    CASE c.op = "getGlobal" -> TRUE
      [] c.op = "setGlobal" -> c.val \in Nat
      [] c.op = "getDevice" -> c.key \in Handlers /\ c.val \in Devices
      [] c.op = "setDevice" -> c.key \in Devices /\ c.val \in Users
      [] OTHER -> c.key \in Users /\ (c.op = "setGame" => c.val = c.key)

ResponseOK(r) ==
    /\ r.op \notin {"setGlobal", "setDevice"}
    /\ CASE r.op = "getGlobal" -> r.val \in Nat \cup {None}
         [] r.op = "getDevice" -> r.key \in Handlers /\ r.val \in Users \cup {None}
         [] OTHER -> r.key \in Users

MessagesOK ==
    /\ commands \in Seq(Messages) /\ responses \in Seq(Messages)
    /\ \A i \in DOMAIN commands : CommandOK(commands[i])
    /\ \A i \in DOMAIN responses : ResponseOK(responses[i])
-----------------------------------------------------------------------------
\* What a queue holds is of its type.
LEMMA MemberFacts ==
    ASSUME NEW S, NEW s \in Seq(S), NEW i \in DOMAIN s
    PROVE  s[i] \in S
<1>1. i \in 1..Len(s)
  BY LenProperties
<1> QED BY <1>1, ElementOfSeq

\* The queues of the database client are first in, first out.
LEMMA TailFacts ==
    ASSUME NEW S, NEW s \in Seq(S), s # <<>>
    PROVE  /\ Head(s) = s[1] /\ Head(s) \in S /\ 1 \in DOMAIN s
           /\ Tail(s) \in Seq(S)
           /\ Len(s) \in Nat /\ Len(Tail(s)) = Len(s) - 1
           /\ DOMAIN s = 1..Len(s) /\ DOMAIN Tail(s) = 1..(Len(s) - 1)
           /\ \A i \in DOMAIN Tail(s) : i + 1 \in DOMAIN s /\ Tail(s)[i] = s[i + 1]
<1>1. Len(s) \in Nat \ {0} /\ DOMAIN s = 1..Len(s)
  BY EmptySeq, LenProperties
<1>2. /\ Tail(s) \in Seq(S) /\ Len(Tail(s)) = Len(s) - 1 /\ Head(s) \in S
      /\ \A i \in 1..Len(Tail(s)) : Tail(s)[i] = s[i + 1]
  BY HeadTailProperties
<1>3. DOMAIN Tail(s) = 1..Len(Tail(s))
  BY <1>2, LenProperties
<1>4. Head(s) = s[1]
  OBVIOUS
<1> QED BY <1>1, <1>2, <1>3, <1>4

LEMMA AppendFacts ==
    ASSUME NEW S, NEW s \in Seq(S), NEW e \in S
    PROVE  /\ Append(s, e) \in Seq(S) /\ Append(s, e) # <<>>
           /\ Len(s) \in Nat /\ Len(Append(s, e)) = Len(s) + 1
           /\ DOMAIN s = 1..Len(s) /\ DOMAIN Append(s, e) = 1..(Len(s) + 1)
           /\ \A i \in DOMAIN s : Append(s, e)[i] = s[i]
           /\ Append(s, e)[Len(s) + 1] = e
<1>1. Len(s) \in Nat /\ DOMAIN s = 1..Len(s)
  BY LenProperties
<1>2. Append(s, e) \in Seq(S) /\ Len(Append(s, e)) = Len(s) + 1
  BY AppendProperties
<1>3. DOMAIN Append(s, e) = 1..(Len(s) + 1)
  BY <1>2, LenProperties
<1>4. /\ \A i \in 1..Len(s) : Append(s, e)[i] = s[i]
      /\ Append(s, e)[Len(s) + 1] = e
  BY AppendProperties
<1> QED BY <1>1, <1>2, <1>3, <1>4, EmptySeq

\* A registration puts three commands at the end of the queue.
LEMMA RegistrationFacts ==
    ASSUME NEW S, NEW s \in Seq(S), NEW a \in S, NEW b \in S, NEW c \in S
    PROVE  /\ s \o <<a, b, c>> \in Seq(S)
           /\ Len(s) \in Nat /\ Len(s \o <<a, b, c>>) = Len(s) + 3
           /\ DOMAIN s = 1..Len(s) /\ DOMAIN (s \o <<a, b, c>>) = 1..(Len(s) + 3)
           /\ \A i \in DOMAIN s : (s \o <<a, b, c>>)[i] = s[i]
           /\ (s \o <<a, b, c>>)[Len(s) + 1] = a
           /\ (s \o <<a, b, c>>)[Len(s) + 2] = b
           /\ (s \o <<a, b, c>>)[Len(s) + 3] = c
<1> DEFINE t == <<a, b, c>>
<1>1. t \in Seq(S) /\ Len(t) = 3 /\ t[1] = a /\ t[2] = b /\ t[3] = c
  OBVIOUS
<1> HIDE DEF t
<1>2. Len(s) \in Nat /\ DOMAIN s = 1..Len(s)
  BY LenProperties
<1>3. /\ s \o t \in Seq(S) /\ Len(s \o t) = Len(s) + 3
      /\ \A i \in 1..(Len(s) + 3) :
           (s \o t)[i] = IF i <= Len(s) THEN s[i] ELSE t[i - Len(s)]
  <2>1. /\ s \o t \in Seq(S) /\ Len(s \o t) = Len(s) + Len(t)
        /\ \A i \in 1..(Len(s) + Len(t)) :
             (s \o t)[i] = IF i <= Len(s) THEN s[i] ELSE t[i - Len(s)]
    <3>1. t \in Seq(S)
      BY <1>1
    <3> QED BY <3>1, ConcatProperties
  <2> QED BY <1>1, <2>1
<1>4. DOMAIN (s \o t) = 1..(Len(s) + 3)
  BY <1>3, LenProperties
<1>5. /\ (s \o t)[Len(s) + 1] = t[1] /\ (s \o t)[Len(s) + 2] = t[2]
      /\ (s \o t)[Len(s) + 3] = t[3]
  BY <1>2, <1>3
<1>6. \A i \in DOMAIN s : (s \o t)[i] = s[i]
  BY <1>2, <1>3
<1> QED BY <1>1, <1>2, <1>3, <1>4, <1>5, <1>6 DEF t
-----------------------------------------------------------------------------
\* A reply takes requests off the queue of one connection and adds none.
LEMMA SendKeepsTypes ==
    ASSUME requests \in [Handlers -> Seq(Request)], NEW h \in Handlers,
           NEW seq, NEW u, NEW origin, NEW queue \in Seq(Request),
           SendToGateway(h, seq, u, origin, queue)
    PROVE  requests' \in [Handlers -> Seq(Request)]
<1>1. CASE queue = <<>>
  <2>1. <<>> \in Seq(Request)
    OBVIOUS
  <2> QED BY <1>1, <2>1 DEF SendToGateway
<1>2. CASE queue # <<>>
  <2>1. Tail(queue) \in Seq(Request)
    BY <1>2, TailFacts
  <2> QED BY <1>2, <2>1 DEF SendToGateway
<1> QED BY <1>1, <1>2

LEMMA RespondKeepsTypes ==
    ASSUME requests \in [Handlers -> Seq(Request)], NEW u \in Users, NEW origin,
           NEW maps \in [Users -> Handlers \cup {None}],
           Respond(u, origin, maps)
    PROVE  requests' \in [Handlers -> Seq(Request)]
<1>1. CASE maps[u] = None
  BY <1>1 DEF Respond
<1>2. CASE maps[u] # None
  <2>1. maps[u] \in Handlers /\ requests[maps[u]] \in Seq(Request)
    BY <1>2
  <2>2. SendToGateway(maps[u], Oldest(requests[maps[u]]), u, origin,
                      requests[maps[u]])
    BY <1>2 DEF Respond
  <2> QED BY <2>1, <2>2, SendKeepsTypes
<1> QED BY <1>1, <1>2

\* What the managers hold, apart from the two queues.
ManagersOK ==
    /\ globalId \in Nat \cup {None}
    /\ cached \subseteq Users
    /\ userToHandler \in [Users -> Handlers \cup {None}]
    /\ requests \in [Handlers -> Seq(Request)]

StoredOK ==
    /\ storedGlobal \in Nat \cup {None}
    /\ storedDevice \in [Devices -> Users \cup {None}]
    /\ storedGame \subseteq Users

HistoryOK ==
    /\ asked \in Seq([handler : Handlers, device : Devices \cup {None}])
    /\ crashes \in 0..MaxCrashes
    /\ bad \subseteq 1..MaxRequests
    /\ crowded \subseteq Handlers
    /\ raced \subseteq Devices

\* Everything the login server holds, has pending and has stored is well typed.
TypeInv == MessagesOK /\ ManagersOK /\ StoredOK /\ HistoryOK

LEMMA TypeInvImpliesTypeOK == TypeInv => TypeOK
<1>1. ASSUME NEW s \in Seq(Messages), NEW i \in DOMAIN s
      PROVE  s[i].op \in Ops
  <2>1. s[i] \in Messages
    BY <1>1, MemberFacts
  <2> QED BY <2>1 DEF Messages
<1> QED BY <1>1 DEF TypeInv, MessagesOK, ManagersOK, StoredOK, HistoryOK, Request, TypeOK

\* A command that is pushed, and a response that is delivered, keep the queues
\* well typed.
LEMMA PushKeepsMessages ==
    ASSUME MessagesOK, NEW c \in Messages, CommandOK(c),
           commands' = Append(commands, c),
           responses' = responses \/ (responses # <<>> /\ responses' = Tail(responses))
    PROVE  MessagesOK'
<1>1. /\ commands' \in Seq(Messages)
      /\ \A i \in DOMAIN commands' : CommandOK(commands'[i])
  BY AppendFacts DEF MessagesOK
<1>2. /\ responses' \in Seq(Messages)
      /\ \A i \in DOMAIN responses' : ResponseOK(responses'[i])
  <2>1. CASE responses' = responses
    BY <2>1 DEF MessagesOK
  <2>2. CASE responses # <<>> /\ responses' = Tail(responses)
    BY <2>2, TailFacts DEF MessagesOK
  <2> QED BY <2>1, <2>2
<1> QED BY <1>1, <1>2 DEF MessagesOK, CommandOK, ResponseOK

LEMMA DeliverKeepsMessages ==
    ASSUME MessagesOK, commands' = commands,
           responses # <<>>, responses' = Tail(responses)
    PROVE  MessagesOK'
<1>2. /\ responses' \in Seq(Messages)
      /\ \A i \in DOMAIN responses' : ResponseOK(responses'[i])
  BY TailFacts DEF MessagesOK
<1> QED BY <1>2 DEF MessagesOK, CommandOK, ResponseOK

LEMMA InitTypes == Init => TypeInv
<1> SUFFICES ASSUME Init PROVE TypeInv
  OBVIOUS
<1>1. FirstCommand \in Messages
  BY DEF FirstCommand, Command, Messages, Ops
<1>2. commands = <<FirstCommand>> /\ responses = <<>>
  BY DEF Init
<1>3. /\ commands \in Seq(Messages) /\ responses \in Seq(Messages)
      /\ DOMAIN responses = {} /\ DOMAIN commands = {1}
  BY <1>1, <1>2
<1>4. MessagesOK
  BY <1>2, <1>3 DEF MessagesOK, CommandOK, FirstCommand, Command
<1>5. ManagersOK
  <2>1. <<>> \in Seq(Request)
    OBVIOUS
  <2> QED BY <2>1 DEF Init, ManagersOK
<1>6. StoredOK /\ HistoryOK
  <2>1. crashes \in 0..MaxCrashes
    BY LoginAssumption DEF Init
  <2>2. asked \in Seq([handler : Handlers, device : Devices \cup {None}])
    BY DEF Init
  <2> QED BY <2>1, <2>2 DEF Init, StoredOK, HistoryOK
<1> QED BY <1>4, <1>5, <1>6 DEF TypeInv

\* A request that arrives is queued under the next sequence id.
LEMMA ArrivesTypes ==
    ASSUME TypeInv, NEW h \in Handlers, NEW d \in Devices \cup {None}, Arrives(h, d)
    PROVE  /\ bad' = bad => HistoryOK'
           /\ nextSeq \in 1..MaxRequests
           /\ Queued(h, d) \in Seq(Request) /\ Queued(h, d) # <<>>
<1>1. Len(asked) \in Nat
  BY LenProperties DEF TypeInv, HistoryOK
<1>2. nextSeq \in 1..MaxRequests
  BY <1>1, LoginAssumption DEF Arrives, nextSeq
<1>3. [seq |-> nextSeq, device |-> d] \in Request
  BY <1>2 DEF Request
<1>4. Queued(h, d) \in Seq(Request) /\ Queued(h, d) # <<>>
  <2>1. requests[h] \in Seq(Request)
    BY DEF TypeInv, ManagersOK
  <2> QED BY <1>3, <2>1, AppendFacts DEF Queued
<1>5. asked' \in Seq([handler : Handlers, device : Devices \cup {None}])
  <2>1. [handler |-> h, device |-> d] \in [handler : Handlers, device : Devices \cup {None}]
    OBVIOUS
  <2> HIDE DEF nextSeq
  <2> QED BY <2>1, AppendFacts DEF TypeInv, HistoryOK, Arrives
<1> QED BY <1>2, <1>4, <1>5 DEF Arrives, TypeInv, HistoryOK

LEMMA RequestTypes ==
    ASSUME TypeInv, NEW h \in Handlers,
           \/ \E d \in Devices : LoginDirect(h, d)
           \/ LoginBadParameters(h) \/ LoginParametersRaise(h) \/ OtherEvent(h)
    PROVE  TypeInv'
<1>1. ASSUME NEW d \in Devices, LoginDirect(h, d) PROVE TypeInv'
  <2>1. /\ nextSeq \in 1..MaxRequests /\ Queued(h, d) \in Seq(Request)
        /\ HistoryOK'
    BY <1>1, ArrivesTypes DEF LoginDirect
  <2>2. ManagersOK'
    BY <1>1, <2>1 DEF LoginDirect, Arrives, TypeInv, ManagersOK
  <2>3. MessagesOK'
    <3>1. Command("getDevice", h, d, nextSeq) \in Messages
      BY <2>1, LoginAssumption DEF Command, Messages, Ops
    <3>2. CommandOK(Command("getDevice", h, d, nextSeq))
      BY DEF CommandOK, Command
    <3>3. responses' = responses
      BY <1>1 DEF LoginDirect, Arrives
    <3> HIDE DEF nextSeq
    <3> QED BY <1>1, <3>1, <3>2, <3>3, PushKeepsMessages DEF LoginDirect, TypeInv
  <2>4. StoredOK'
    BY <1>1 DEF LoginDirect, Arrives, redis, TypeInv, StoredOK
  <2> QED BY <2>1, <2>2, <2>3, <2>4 DEF TypeInv
<1>2. ASSUME LoginBadParameters(h) PROVE TypeInv'
  <2>1. /\ nextSeq \in 1..MaxRequests /\ Queued(h, None) \in Seq(Request)
        /\ Queued(h, None) # <<>>
    BY <1>2, ArrivesTypes DEF LoginBadParameters
  <2>2. Tail(Queued(h, None)) \in Seq(Request)
    BY <2>1, TailFacts
  <2>3. requests' \in [Handlers -> Seq(Request)]
    <3>1. SendToGateway(h, nextSeq, None, nextSeq, Tail(Queued(h, None)))
      BY <1>2 DEF LoginBadParameters
    <3> QED BY <2>2, <3>1, SendKeepsTypes DEF TypeInv, ManagersOK
  <2>4. ManagersOK'
    BY <1>2, <2>3 DEF LoginBadParameters, Arrives, TypeInv, ManagersOK
  <2>5. HistoryOK'
    <3>1. asked' \in Seq([handler : Handlers, device : Devices \cup {None}])
      <4>1. [handler |-> h, device |-> None]
              \in [handler : Handlers, device : Devices \cup {None}]
        OBVIOUS
      <4> QED BY <1>2, <4>1, AppendFacts
              DEF TypeInv, HistoryOK, LoginBadParameters, Arrives
    <3>2. bad' = bad \cup {nextSeq}
      BY <1>2 DEF LoginBadParameters
    <3> QED BY <1>2, <2>1, <3>1, <3>2
            DEF TypeInv, HistoryOK, LoginBadParameters, Arrives
  <2>6. StoredOK' /\ MessagesOK'
    BY <1>2 DEF LoginBadParameters, Arrives, redis, TypeInv, StoredOK,
                MessagesOK, CommandOK, ResponseOK
  <2> QED BY <2>4, <2>5, <2>6 DEF TypeInv
<1>3. ASSUME OtherEvent(h) PROVE TypeInv'
  <2>1. Queued(h, None) \in Seq(Request) /\ HistoryOK'
    BY <1>3, ArrivesTypes DEF OtherEvent
  <2>2. ManagersOK'
    BY <1>3, <2>1 DEF OtherEvent, Arrives, TypeInv, ManagersOK
  <2>3. StoredOK' /\ MessagesOK'
    BY <1>3 DEF OtherEvent, Arrives, redis, TypeInv, StoredOK,
                MessagesOK, CommandOK, ResponseOK
  <2> QED BY <2>1, <2>2, <2>3 DEF TypeInv
<1>4. ASSUME LoginParametersRaise(h) PROVE TypeInv'
  <2>1. /\ Queued(h, None) \in Seq(Request) /\ Queued(h, None) # <<>>
        /\ HistoryOK'
    BY <1>4, ArrivesTypes DEF LoginParametersRaise
  <2>2. Tail(Queued(h, None)) \in Seq(Request)
    BY <2>1, TailFacts
  <2>3. ManagersOK'
    BY <1>4, <2>2 DEF LoginParametersRaise, Arrives, TypeInv, ManagersOK
  <2>4. StoredOK' /\ MessagesOK'
    BY <1>4 DEF LoginParametersRaise, Arrives, redis, TypeInv, StoredOK,
                MessagesOK, CommandOK, ResponseOK
  <2> QED BY <2>1, <2>3, <2>4 DEF TypeInv
<1> QED BY <1>1, <1>2, <1>3, <1>4

\* Redis answers what it has stored; a lookup of a device becomes its user.
LEMMA RedisTypes ==
    ASSUME TypeInv, RedisExecutes
    PROVE  TypeInv'
<1> DEFINE c == Head(commands)
           r == Command(c.op, c.key, Read(c), c.origin)
<1>0. /\ c \in Messages /\ CommandOK(c)
      /\ commands' \in Seq(Messages)
      /\ \A i \in DOMAIN commands' : CommandOK(commands'[i])
  BY TailFacts DEF RedisExecutes, TypeInv, MessagesOK
<1>1. c.op \in Ops /\ c.key \in Devices \cup Handlers \cup Nat /\ c.origin \in Nat
  BY <1>0 DEF Messages
<1>2. /\ storedGlobal' = IF c.op = "setGlobal" THEN c.val ELSE storedGlobal
      /\ storedDevice' = IF c.op = "setDevice"
                         THEN [storedDevice EXCEPT ![c.key] = c.val] ELSE storedDevice
      /\ storedGame' = IF c.op = "setGame" THEN storedGame \cup {c.key} ELSE storedGame
      /\ responses' = IF c.op \in {"setGlobal", "setDevice"} THEN responses
                      ELSE Append(responses, r)
  BY DEF RedisExecutes
<1> HIDE DEF c
<1>3. StoredOK'
  <2>1. CASE c.op = "setGlobal"
    BY <1>0, <1>2, <2>1 DEF StoredOK, TypeInv, CommandOK
  <2>2. CASE c.op = "setDevice"
    BY <1>0, <1>2, <2>2 DEF StoredOK, TypeInv, CommandOK
  <2>3. CASE c.op = "setGame"
    <3>1. c.key \in Users
      BY <1>0, <2>3 DEF CommandOK
    <3> QED BY <1>2, <2>3, <3>1 DEF StoredOK, TypeInv
  <2>4. CASE c.op \notin {"setGlobal", "setDevice", "setGame"}
    BY <1>2, <2>4 DEF StoredOK, TypeInv
  <2> QED BY <2>1, <2>2, <2>3, <2>4
<1>4. ASSUME c.op \notin {"setGlobal", "setDevice"}
      PROVE  r \in Messages /\ ResponseOK(r)
  <2>1. CASE c.op = "getGlobal"
    <3>1. Read(c) = storedGlobal /\ storedGlobal \in Nat \cup {None}
      BY <2>1 DEF Read, TypeInv, StoredOK
    <3> QED BY <1>1, <2>1, <3>1 DEF Command, Messages, ResponseOK
  <2>2. CASE c.op = "getDevice"
    <3>1. c.key \in Handlers /\ c.val \in Devices
      BY <1>0, <2>2 DEF CommandOK
    <3>2. Read(c) = storedDevice[c.val] /\ storedDevice[c.val] \in Users \cup {None}
      BY <2>2, <3>1 DEF Read, TypeInv, StoredOK
    <3>3. Users \subseteq Nat
      BY LoginAssumption DEF Users, Default
    <3> QED BY <1>1, <2>2, <3>1, <3>2, <3>3 DEF Command, Messages, ResponseOK
  <2>3. CASE c.op \in {"setGame", "getGame"}
    <3>1. c.key \in Users /\ Read(c) \in {c.key, None}
      BY <1>0, <2>3 DEF CommandOK, Read
    <3>2. Users \subseteq Nat
      BY LoginAssumption DEF Users, Default
    <3> QED BY <1>1, <2>3, <3>1, <3>2 DEF Command, Messages, ResponseOK
  <2> QED BY <1>1, <1>4, <2>1, <2>2, <2>3 DEF Ops
<1>5. /\ responses' \in Seq(Messages)
      /\ \A i \in DOMAIN responses' : ResponseOK(responses'[i])
  <2>1. CASE c.op \in {"setGlobal", "setDevice"}
    BY <1>2, <2>1 DEF TypeInv, MessagesOK
  <2>2. CASE c.op \notin {"setGlobal", "setDevice"}
    <3> HIDE DEF r
    <3> QED BY <1>2, <1>4, <2>2, AppendFacts DEF TypeInv, MessagesOK
  <2> QED BY <2>1, <2>2
<1>6. MessagesOK'
  BY <1>0, <1>5 DEF MessagesOK, CommandOK, ResponseOK
<1>7. ManagersOK' /\ HistoryOK'
  BY DEF RedisExecutes, lua, past, TypeInv, ManagersOK, HistoryOK
<1> QED BY <1>3, <1>6, <1>7 DEF TypeInv

\* The first response is taken off its queue; what is stored does not change.
LEMMA BackTypes ==
    ASSUME TypeInv, NEW op, Back(op)
    PROVE  /\ Head(responses) \in Messages /\ ResponseOK(Head(responses))
           /\ Head(responses).op = op
           /\ responses # <<>> /\ responses' = Tail(responses)
           /\ StoredOK'
           /\ raced' \subseteq Devices => HistoryOK'
<1>1. Head(responses) \in Messages /\ ResponseOK(Head(responses))
  BY TailFacts DEF Back, TypeInv, MessagesOK
<1>2. StoredOK' /\ (raced' \subseteq Devices => HistoryOK')
  BY DEF Back, redis, past, TypeInv, StoredOK, HistoryOK
<1> QED BY <1>1, <1>2 DEF Back

\* The counter arrives (OnResponseGlobalConfigEvent).
LEMMA GlobalBackTypes ==
    ASSUME TypeInv, GlobalBack
    PROVE  TypeInv'
<1> DEFINE n == Head(responses).val
           c == Command("setGlobal", 0, GlobalLoaded(n), 0)
<1>0. /\ responses # <<>> /\ responses' = Tail(responses)
      /\ StoredOK' /\ HistoryOK' /\ n \in Nat \cup {None}
  <2>1. raced' = raced /\ Back("getGlobal") /\ raced \subseteq Devices
    BY DEF GlobalBack, TypeInv, HistoryOK
  <2> QED BY <2>1, BackTypes DEF ResponseOK
<1>1. GlobalLoaded(n) \in Nat
  BY <1>0 DEF GlobalLoaded, Default
<1>2. ManagersOK'
  BY <1>1 DEF GlobalBack, TypeInv, ManagersOK
<1>3. c \in Messages /\ CommandOK(c)
  BY <1>1 DEF Command, Messages, Ops, CommandOK
<1>4. CASE n = None
  <2>1. commands' = Append(commands, c)
    BY <1>4 DEF GlobalBack
  <2> HIDE DEF c
  <2>2. MessagesOK'
    BY <1>0, <1>3, <2>1, PushKeepsMessages DEF TypeInv
  <2> QED BY <1>0, <1>2, <2>2 DEF TypeInv
<1>5. CASE n # None
  <2>1. commands' = commands
    BY <1>5 DEF GlobalBack
  <2>2. MessagesOK'
    BY <1>0, <2>1, DeliverKeepsMessages DEF TypeInv
  <2> QED BY <1>0, <1>2, <2>2 DEF TypeInv
<1> QED BY <1>4, <1>5

\* The game data of a registration or of a login arrive.
LEMMA RegisteringBackTypes ==
    ASSUME TypeInv, RegisteringBack
    PROVE  TypeInv'
<1>0. /\ responses # <<>> /\ responses' = Tail(responses)
      /\ StoredOK' /\ HistoryOK' /\ Head(responses).key \in Users
  <2>1. raced' = raced /\ Back("setGame") /\ raced \subseteq Devices
    BY DEF RegisteringBack, TypeInv, HistoryOK
  <2> QED BY <2>1, BackTypes DEF ResponseOK
<1>1. requests' \in [Handlers -> Seq(Request)]
  BY <1>0, RespondKeepsTypes DEF RegisteringBack, TypeInv, ManagersOK
<1>2. ManagersOK'
  BY <1>1 DEF RegisteringBack, TypeInv, ManagersOK
<1>3. MessagesOK'
  BY <1>0, DeliverKeepsMessages DEF RegisteringBack, TypeInv
<1> QED BY <1>0, <1>2, <1>3 DEF TypeInv

LEMMA GameBackTypes ==
    ASSUME TypeInv, GameBack
    PROVE  TypeInv'
<1>0. /\ responses # <<>> /\ responses' = Tail(responses)
      /\ StoredOK' /\ HistoryOK' /\ Head(responses).key \in Users
  <2>1. raced' = raced /\ Back("getGame") /\ raced \subseteq Devices
    BY DEF GameBack, TypeInv, HistoryOK
  <2> QED BY <2>1, BackTypes DEF ResponseOK
<1>1. requests' \in [Handlers -> Seq(Request)] /\ cached' \subseteq Users
  <2>1. CASE Head(responses).val = None
    BY <2>1 DEF GameBack, TypeInv, ManagersOK
  <2>2. CASE Head(responses).val # None
    BY <1>0, <2>2, RespondKeepsTypes DEF GameBack, TypeInv, ManagersOK
  <2> QED BY <2>1, <2>2
<1>2. ManagersOK'
  BY <1>1 DEF GameBack, TypeInv, ManagersOK
<1>3. MessagesOK'
  BY <1>0, DeliverKeepsMessages DEF GameBack, TypeInv
<1> QED BY <1>0, <1>2, <1>3 DEF TypeInv

\* RegisterProcess: the user and the three commands of a registration.
LEMMA RegisterTypes ==
    ASSUME TypeInv, NEW h \in Handlers, NEW d \in Devices, NEW origin \in Nat,
           Register(h, d, origin), responses # <<>>, responses' = Tail(responses)
    PROVE  ManagersOK' /\ MessagesOK' /\ raced' \subseteq Devices
<1> DEFINE u == globalId
           a == Command("setGlobal", 0, u + 1, 0)
           b == Command("setDevice", d, u, 0)
           c == Command("setGame", u, u, origin)
<1>0. u \in Users /\ u \in Nat /\ u + 1 \in Nat
  BY LoginAssumption DEF Register, Users, Default
<1>1. ManagersOK'
  BY <1>0 DEF Register, TypeInv, ManagersOK
<1>2. a \in Messages /\ b \in Messages /\ c \in Messages
  BY <1>0 DEF Command, Messages, Ops
<1>3. CommandOK(a) /\ CommandOK(b) /\ CommandOK(c)
  BY <1>0 DEF Command, CommandOK
<1>4. commands' = commands \o <<a, b, c>>
  BY DEF Register, Registration
<1>5. raced' \subseteq Devices
  BY DEF Register, TypeInv, HistoryOK
<1> HIDE DEF a, b, c
<1>6. /\ commands' \in Seq(Messages)
      /\ DOMAIN commands = 1..Len(commands)
      /\ Len(commands) \in Nat
      /\ DOMAIN commands' = 1..(Len(commands) + 3)
      /\ \A i \in DOMAIN commands : commands'[i] = commands[i]
      /\ commands'[Len(commands) + 1] = a
      /\ commands'[Len(commands) + 2] = b
      /\ commands'[Len(commands) + 3] = c
  BY <1>2, <1>4, RegistrationFacts DEF TypeInv, MessagesOK
<1>7. \A i \in DOMAIN commands' : CommandOK(commands'[i])
  <2> SUFFICES ASSUME NEW i \in DOMAIN commands' PROVE CommandOK(commands'[i])
    OBVIOUS
  <2>1. CASE i \in DOMAIN commands
    BY <1>6, <2>1 DEF TypeInv, MessagesOK
  <2>2. CASE i \notin DOMAIN commands
    <3>1. i \in {Len(commands) + 1, Len(commands) + 2, Len(commands) + 3}
      BY <1>6, <2>2
    <3> QED BY <1>3, <1>6, <3>1
  <2> QED BY <2>1, <2>2
<1>8. /\ responses' \in Seq(Messages)
      /\ \A i \in DOMAIN responses' : ResponseOK(responses'[i])
  BY TailFacts DEF TypeInv, MessagesOK
<1>9. MessagesOK'
  BY <1>6, <1>7, <1>8 DEF MessagesOK, CommandOK, ResponseOK
<1> QED BY <1>1, <1>5, <1>9

\* OnClientLogin: an answer at once, or the game data are asked for.
LEMMA LoginUserTypes ==
    ASSUME TypeInv, NEW h \in Handlers, NEW u \in Users, NEW origin \in Nat,
           LoginUser(h, u, origin), responses # <<>>, responses' = Tail(responses)
    PROVE  ManagersOK' /\ MessagesOK' /\ raced' \subseteq Devices
<1>0. userToHandler' \in [Users -> Handlers \cup {None}]
  BY DEF LoginUser, TypeInv, ManagersOK
<1>1. CASE u \in cached
  <2>1. requests' \in [Handlers -> Seq(Request)]
    BY <1>0, <1>1, RespondKeepsTypes DEF LoginUser, TypeInv, ManagersOK
  <2>2. MessagesOK'
    BY <1>1, DeliverKeepsMessages DEF LoginUser, TypeInv
  <2> QED BY <1>0, <2>1, <2>2 DEF LoginUser, TypeInv, ManagersOK, HistoryOK
<1>2. CASE u \notin cached
  <2> DEFINE c == Command("getGame", u, 0, origin)
  <2>1. Users \subseteq Nat
    BY LoginAssumption DEF Users, Default
  <2>2. c \in Messages /\ CommandOK(c) /\ commands' = Append(commands, c)
    BY <1>2, <2>1 DEF Command, Messages, Ops, CommandOK, LoginUser
  <2> HIDE DEF c
  <2>3. MessagesOK'
    BY <2>2, PushKeepsMessages DEF TypeInv
  <2> QED BY <1>0, <1>2, <2>3 DEF LoginUser, TypeInv, ManagersOK, HistoryOK
<1> QED BY <1>1, <1>2

LEMMA DeviceBackTypes ==
    ASSUME TypeInv, DeviceBack
    PROVE  TypeInv'
<1> DEFINE r == Head(responses)
           h == r.key
           d == Head(requests[h]).device
<1>0. /\ responses # <<>> /\ responses' = Tail(responses) /\ StoredOK'
      /\ raced' \subseteq Devices => HistoryOK'
      /\ h \in Handlers /\ r.val \in Users \cup {None} /\ r.origin \in Nat
      /\ raced \subseteq Devices
  <2>1. Back("getDevice") /\ raced \subseteq Devices
    BY DEF DeviceBack, TypeInv, HistoryOK
  <2> QED BY <2>1, BackTypes DEF ResponseOK, Messages
<1> SUFFICES ManagersOK' /\ MessagesOK' /\ raced' \subseteq Devices
  BY <1>0 DEF TypeInv
<1>1. CASE requests[h] = <<>>
  <2>1. UNCHANGED <<lua, commands, replies, raced>>
    BY <1>1 DEF DeviceBack
  <2>2. MessagesOK'
    BY <1>0, <2>1, DeliverKeepsMessages DEF TypeInv
  <2> QED BY <1>0, <2>1, <2>2 DEF lua, TypeInv, ManagersOK
<1>2. CASE requests[h] # <<>> /\ r.val # None
  <2>1. LoginUser(h, r.val, r.origin)
    BY <1>2 DEF DeviceBack
  <2> QED BY <1>0, <1>2, <2>1, LoginUserTypes
<1>3. CASE requests[h] # <<>> /\ r.val = None /\ d # None
  <2>1. Register(h, d, r.origin)
    BY <1>3 DEF DeviceBack
  <2>2. d \in Devices
    <3>1. requests[h] \in Seq(Request)
      BY <1>0 DEF TypeInv, ManagersOK
    <3>2. Head(requests[h]) \in Request
      BY <1>3, <3>1, TailFacts
    <3> QED BY <1>3, <3>2 DEF Request
  <2> QED BY <1>0, <2>1, <2>2, RegisterTypes
<1>4. CASE requests[h] # <<>> /\ r.val = None /\ d = None
  <2>1. /\ SendToGateway(h, Oldest(requests[h]), None, r.origin, requests[h])
        /\ UNCHANGED <<globalId, cached, userToHandler, commands, raced>>
    BY <1>4 DEF DeviceBack
  <2>2. requests' \in [Handlers -> Seq(Request)]
    BY <1>0, <2>1, SendKeepsTypes DEF TypeInv, ManagersOK
  <2>3. MessagesOK'
    BY <1>0, <2>1, DeliverKeepsMessages DEF TypeInv
  <2> QED BY <1>0, <2>1, <2>2, <2>3 DEF TypeInv, ManagersOK
<1> QED BY <1>1, <1>2, <1>3, <1>4

\* The restarted server holds nothing.
LEMMA CrashTypes ==
    ASSUME TypeInv, Crash
    PROVE  TypeInv'
<1>1. /\ commands' \in Seq(Messages) /\ responses' \in Seq(Messages)
      /\ \A i \in DOMAIN commands' : CommandOK(commands'[i])
      /\ DOMAIN responses' = {}
  <2>1. FirstCommand \in Messages /\ CommandOK(FirstCommand)
    BY DEF FirstCommand, Command, Messages, Ops, CommandOK
  <2> QED BY <2>1 DEF Crash
<1>2. MessagesOK'
  BY <1>1 DEF MessagesOK, CommandOK, ResponseOK
<1>3. ManagersOK'
  <2>1. <<>> \in Seq(Request)
    OBVIOUS
  <2> QED BY <2>1 DEF Crash, ManagersOK
<1>4. StoredOK' /\ HistoryOK'
  BY LoginAssumption DEF Crash, redis, TypeInv, StoredOK, HistoryOK
<1> QED BY <1>2, <1>3, <1>4 DEF TypeInv

LEMMA TypesInductive == TypeInv /\ [Next]_vars => TypeInv'
<1> SUFFICES ASSUME TypeInv, [Next]_vars PROVE TypeInv'
  OBVIOUS
<1>1. ASSUME NEW h \in Handlers,
             \/ \E d \in Devices : LoginDirect(h, d)
             \/ LoginBadParameters(h) \/ LoginParametersRaise(h) \/ OtherEvent(h)
      PROVE  TypeInv'
  BY <1>1, RequestTypes
<1>2. CASE RedisExecutes
  BY <1>2, RedisTypes
<1>3. CASE GlobalBack
  BY <1>3, GlobalBackTypes
<1>4. CASE DeviceBack
  BY <1>4, DeviceBackTypes
<1>5. CASE RegisteringBack
  BY <1>5, RegisteringBackTypes
<1>6. CASE GameBack
  BY <1>6, GameBackTypes
<1>7. CASE Crash
  BY <1>7, CrashTypes
<1>8. CASE UNCHANGED vars
  BY <1>8 DEF vars, lua, redis, past, TypeInv, MessagesOK, CommandOK, ResponseOK,
              ManagersOK, StoredOK, HistoryOK
<1> QED BY <1>1, <1>2, <1>3, <1>4, <1>5, <1>6, <1>7, <1>8 DEF Next

\* Every handler keeps what the managers, the queues of the database client and
\* redis hold in their ranges: a lookup comes back with a user or with nothing,
\* and a request is never queued for anybody but a connection.
THEOREM LoginTypeCorrect == Spec => []TypeOK
<1>1. Init => TypeInv
  BY InitTypes
<1>2. TypeInv /\ [Next]_vars => TypeInv'
  BY TypesInductive
<1>3. TypeInv => TypeOK
  BY TypeInvImpliesTypeOK
<1> QED BY <1>1, <1>2, <1>3, PTL DEF Spec
-----------------------------------------------------------------------------
\* Until the counter is known, everything that is pending is the question for it,
\* first in its queue, and lookups of devices behind it.
Loading ==
    /\ globalId = None =>
         \/ /\ responses = <<>>
            /\ commands # <<>> /\ commands[1].op = "getGlobal"
            /\ \A i \in DOMAIN commands : i # 1 => commands[i].op = "getDevice"
         \/ /\ responses # <<>> /\ responses[1].op = "getGlobal"
            /\ responses[1].val = storedGlobal
            /\ \A i \in DOMAIN responses : i # 1 => responses[i].op = "getDevice"
            /\ \A i \in DOMAIN commands : commands[i].op = "getDevice"
    /\ globalId # None =>
         /\ \A i \in DOMAIN commands : commands[i].op # "getGlobal"
         /\ \A i \in DOMAIN responses : responses[i].op # "getGlobal"

\* The counters that are still to be stored never go back.
CountersGrow ==
    /\ \A i \in DOMAIN commands : commands[i].op = "setGlobal" =>
         /\ storedGlobal = None \/ storedGlobal <= commands[i].val
         /\ globalId # None => commands[i].val <= globalId
    /\ \A i, j \in DOMAIN commands :
         (commands[i].op = "setGlobal" /\ commands[j].op = "setGlobal" /\ i < j) =>
           commands[i].val <= commands[j].val
    /\ (globalId # None /\ storedGlobal # None) => storedGlobal <= globalId

\* A counter above the user of a pending command is stored, or is before it.
PendingCovered ==
    \A i \in DOMAIN commands : commands[i].op \in {"setDevice", "setGame"} =>
      \/ storedGlobal # None /\ commands[i].val < storedGlobal
      \/ \E j \in DOMAIN commands : /\ j < i /\ commands[j].op = "setGlobal"
                                    /\ commands[i].val < commands[j].val

\* A user that is about to be stored for a device is no other device's.
PendingDistinct ==
    /\ \A i, j \in DOMAIN commands :
         (commands[i].op = "setDevice" /\ commands[j].op = "setDevice" /\ i # j) =>
           commands[i].val # commands[j].val
    /\ \A i \in DOMAIN commands, d \in Devices :
         commands[i].op = "setDevice" => storedDevice[d] # commands[i].val

IdInv == /\ TypeInv /\ Loading /\ CountersGrow /\ PendingCovered
         /\ PendingDistinct /\ IdsBelowGlobal /\ UsersAreDistinct

LEMMA InitIds == Init => IdInv
<1> SUFFICES ASSUME Init PROVE IdInv
  OBVIOUS
<1>1. TypeInv
  BY InitTypes
<1>2. /\ DOMAIN commands = {1} /\ commands[1].op = "getGlobal" /\ commands # <<>>
      /\ responses = <<>> /\ globalId = None /\ storedGlobal = None
      /\ storedGame = {} /\ \A d \in Devices : storedDevice[d] = None
  BY DEF Init, FirstCommand, Command
<1> QED BY <1>1, <1>2
        DEF IdInv, Loading, CountersGrow, PendingCovered, PendingDistinct,
            IdsBelowGlobal, UsersAreDistinct

\* While the counter is not known, the first response can only be the counter.
LEMMA NothingBeforeTheCounter ==
    ASSUME Loading, MessagesOK, responses # <<>>, Head(responses).op # "getGlobal"
    PROVE  globalId # None
<1>1. Head(responses) = responses[1]
  BY TailFacts DEF MessagesOK
<1> QED BY <1>1 DEF Loading

\* Delivering a response, when the counter is known, changes no id.
LEMMA DeliverKeepsIds ==
    ASSUME IdInv, TypeInv', globalId # None, responses # <<>>,
           responses' = Tail(responses), UNCHANGED <<globalId, commands, redis>>
    PROVE  IdInv'
<1>1. Loading'
  <2>1. \A i \in DOMAIN responses' : responses'[i].op # "getGlobal"
    BY TailFacts DEF IdInv, TypeInv, MessagesOK, Loading
  <2> QED BY <2>1 DEF IdInv, Loading
<1>2. CountersGrow' /\ PendingCovered' /\ PendingDistinct'
  BY DEF redis, IdInv, CountersGrow, PendingCovered, PendingDistinct
<1>3. IdsBelowGlobal' /\ UsersAreDistinct'
  BY DEF redis, IdInv, IdsBelowGlobal, UsersAreDistinct
<1> QED BY <1>1, <1>2, <1>3 DEF IdInv

\* A lookup that is pushed carries no id.
LEMMA LookupKeepsIds ==
    ASSUME IdInv, TypeInv', NEW c \in Messages,
           c.op \in {"getDevice", "getGame"},
           c.op = "getGame" => globalId # None,
           commands' = Append(commands, c),
           \/ responses' = responses
           \/ globalId # None /\ responses # <<>> /\ responses' = Tail(responses),
           UNCHANGED <<globalId, redis>>
    PROVE  IdInv'
<1>0. /\ Len(commands) \in Nat /\ DOMAIN commands = 1..Len(commands)
      /\ DOMAIN commands' = 1..(Len(commands) + 1) /\ commands' # <<>>
      /\ \A i \in DOMAIN commands : commands'[i] = commands[i]
      /\ commands'[Len(commands) + 1] = c
  BY AppendFacts DEF IdInv, TypeInv, MessagesOK
<1>1. \A i \in DOMAIN commands' :
        \/ i \in DOMAIN commands /\ commands'[i] = commands[i]
        \/ i = Len(commands) + 1 /\ commands'[i] = c /\ i \notin DOMAIN commands
  BY <1>0
<1>2. Loading'
  <2>1. CASE globalId = None
    <3>1. responses' = responses /\ c.op = "getDevice" /\ storedGlobal' = storedGlobal
      BY <2>1 DEF redis
    <3>2. CASE responses = <<>>
      <4>1. 1 \in DOMAIN commands /\ commands[1].op = "getGlobal"
        BY <1>0, <2>1, <3>2, EmptySeq DEF IdInv, TypeInv, MessagesOK, Loading
      <4> QED BY <1>0, <1>1, <2>1, <3>1, <3>2, <4>1 DEF IdInv, Loading
    <3>3. CASE responses # <<>>
      BY <1>0, <1>1, <2>1, <3>1, <3>3 DEF IdInv, Loading
    <3> QED BY <3>2, <3>3
  <2>2. CASE globalId # None
    <3>1. \A i \in DOMAIN responses' : responses'[i].op # "getGlobal"
      <4>1. CASE responses' = responses
        BY <2>2, <4>1 DEF IdInv, Loading
      <4>2. CASE responses # <<>> /\ responses' = Tail(responses)
        BY <2>2, <4>2, TailFacts DEF IdInv, TypeInv, MessagesOK, Loading
      <4> QED BY <4>1, <4>2
    <3>2. \A i \in DOMAIN commands' : commands'[i].op # "getGlobal"
      BY <1>1, <2>2 DEF IdInv, Loading
    <3> QED BY <2>2, <3>1, <3>2 DEF Loading
  <2> QED BY <2>1, <2>2
<1>3. CountersGrow'
  BY <1>0, <1>1 DEF redis, IdInv, CountersGrow
<1>4. PendingCovered'
  BY <1>0, <1>1 DEF redis, IdInv, PendingCovered
<1>5. PendingDistinct'
  BY <1>0, <1>1 DEF redis, IdInv, PendingDistinct
<1>6. IdsBelowGlobal' /\ UsersAreDistinct'
  BY DEF redis, IdInv, IdsBelowGlobal, UsersAreDistinct
<1> QED BY <1>2, <1>3, <1>4, <1>5, <1>6 DEF IdInv

\* The counter that is loaded is the stored one, or the default that is about to
\* be stored.
LEMMA GlobalBackIds ==
    ASSUME IdInv, TypeInv', GlobalBack
    PROVE  IdInv'
<1> DEFINE n == Head(responses).val
           c == Command("setGlobal", 0, GlobalLoaded(n), 0)
<1>0. /\ responses # <<>> /\ responses' = Tail(responses)
      /\ Head(responses) = responses[1] /\ responses[1].op = "getGlobal"
      /\ 1 \in DOMAIN responses
      /\ UNCHANGED redis
  BY TailFacts DEF GlobalBack, Back, IdInv, TypeInv, MessagesOK
<1>1. /\ globalId = None /\ n = storedGlobal
      /\ \A i \in DOMAIN responses : i # 1 => responses[i].op = "getDevice"
      /\ \A i \in DOMAIN commands : commands[i].op = "getDevice"
  BY <1>0 DEF IdInv, Loading
<1>2. globalId' = GlobalLoaded(n) /\ globalId' \in Nat /\ globalId' # None
  <2>1. storedGlobal \in Nat \cup {None}
    BY DEF IdInv, TypeInv, StoredOK
  <2> QED BY <1>1, <2>1, LoginAssumption DEF GlobalBack, GlobalLoaded, Default
<1>3. \A i \in DOMAIN responses' : responses'[i].op = "getDevice"
  <2>1. \A i \in DOMAIN responses' : /\ i + 1 \in DOMAIN responses /\ i + 1 # 1
                                     /\ responses'[i] = responses[i + 1]
    BY <1>0, TailFacts DEF IdInv, TypeInv, MessagesOK
  <2> QED BY <1>1, <2>1
<1>4. \A i \in DOMAIN commands' :
        \/ commands'[i].op = "getDevice"
        \/ /\ commands'[i].op = "setGlobal" /\ commands'[i].val = globalId'
           /\ storedGlobal = None /\ i = Len(commands')
  <2>1. CASE n # None
    BY <1>1, <2>1 DEF GlobalBack
  <2>2. CASE n = None
    <3>1. c \in Messages /\ c.op = "setGlobal" /\ c.val = globalId'
      BY <1>2 DEF Command, Messages, Ops
    <3>2. commands' = Append(commands, c)
      BY <2>2 DEF GlobalBack
    <3> HIDE DEF c
    <3>3. /\ Len(commands) \in Nat /\ DOMAIN commands = 1..Len(commands)
          /\ DOMAIN commands' = 1..(Len(commands) + 1)
          /\ Len(commands') = Len(commands) + 1
          /\ \A i \in DOMAIN commands : commands'[i] = commands[i]
          /\ commands'[Len(commands) + 1] = c
      BY <3>1, <3>2, AppendFacts DEF IdInv, TypeInv, MessagesOK
    <3>4. \A i \in DOMAIN commands' :
            i \in DOMAIN commands \/ i = Len(commands) + 1
      BY <3>3
    <3> HIDE DEF n
    <3> QED BY <1>1, <2>2, <3>1, <3>3, <3>4
  <2> QED BY <2>1, <2>2
<1>5. Loading'
  BY <1>2, <1>3, <1>4 DEF Loading
<1>6. CountersGrow'
  <2>1. storedGlobal' # None => globalId' = storedGlobal'
    BY <1>0, <1>1, <1>2 DEF redis, GlobalLoaded
  <2>2. \A i \in DOMAIN commands' : commands'[i].op = "setGlobal" =>
          /\ storedGlobal' = None /\ commands'[i].val = globalId'
    BY <1>0, <1>4 DEF redis
  <2> QED BY <1>2, <2>1, <2>2 DEF CountersGrow
<1>7. PendingCovered' /\ PendingDistinct'
  BY <1>4 DEF PendingCovered, PendingDistinct
<1>8. IdsBelowGlobal' /\ UsersAreDistinct'
  BY <1>0 DEF redis, IdInv, IdsBelowGlobal, UsersAreDistinct
<1> QED BY <1>5, <1>6, <1>7, <1>8 DEF IdInv

\* Redis executes the first command: what covered the others still does.
LEMMA RedisIds ==
    ASSUME IdInv, TypeInv', RedisExecutes
    PROVE  IdInv'
<1> DEFINE c == Head(commands)
           r == Command(c.op, c.key, Read(c), c.origin)
<1>0. /\ c = commands[1] /\ 1 \in DOMAIN commands /\ c \in Messages /\ CommandOK(c)
      /\ DOMAIN commands \subseteq Nat /\ DOMAIN commands' \subseteq Nat
      /\ \A i \in DOMAIN commands' : /\ i + 1 \in DOMAIN commands
                                     /\ commands'[i] = commands[i + 1] /\ i >= 1
      /\ \A i \in DOMAIN commands : i # 1 => /\ i - 1 \in DOMAIN commands'
                                             /\ commands'[i - 1] = commands[i]
  <2>1. commands \in Seq(Messages) /\ commands # <<>> /\ commands' = Tail(commands)
    BY DEF RedisExecutes, IdInv, TypeInv, MessagesOK
  <2>2. /\ DOMAIN commands = 1..Len(commands) /\ Len(commands) \in Nat
        /\ DOMAIN commands' = 1..(Len(commands) - 1)
        /\ \A i \in DOMAIN commands' : commands'[i] = commands[i + 1]
        /\ Head(commands) = commands[1] /\ 1 \in DOMAIN commands
        /\ Head(commands) \in Messages
    BY <2>1, TailFacts
  <2>3. CommandOK(commands[1])
    BY <2>2 DEF IdInv, TypeInv, MessagesOK
  <2>4. /\ \A i \in DOMAIN commands' : i + 1 \in DOMAIN commands /\ i >= 1
        /\ DOMAIN commands \subseteq Nat /\ DOMAIN commands' \subseteq Nat
    BY <2>2
  <2>5. \A i \in DOMAIN commands : i # 1 => /\ i - 1 \in DOMAIN commands'
                                            /\ commands'[i - 1] = commands[i]
    BY <2>2
  <2> QED BY <2>2, <2>3, <2>4, <2>5
<1>1. /\ storedGlobal' = IF c.op = "setGlobal" THEN c.val ELSE storedGlobal
      /\ storedDevice' = IF c.op = "setDevice"
                         THEN [storedDevice EXCEPT ![c.key] = c.val] ELSE storedDevice
      /\ storedGame' = IF c.op = "setGame" THEN storedGame \cup {c.key} ELSE storedGame
      /\ responses' = IF c.op \in {"setGlobal", "setDevice"} THEN responses
                      ELSE Append(responses, r)
      /\ globalId' = globalId
  BY DEF RedisExecutes, lua
<1> HIDE DEF c
<1>2. Loading'
  <2>1. CASE globalId # None
    <3>1. \A i \in DOMAIN commands' : commands'[i].op # "getGlobal"
      BY <1>0, <2>1 DEF IdInv, Loading
    <3>2. c.op # "getGlobal"
      BY <1>0, <2>1 DEF IdInv, Loading
    <3>3. \A i \in DOMAIN responses' : responses'[i].op # "getGlobal"
      <4>1. CASE c.op \in {"setGlobal", "setDevice"}
        BY <1>1, <2>1, <4>1 DEF IdInv, Loading
      <4>2. CASE c.op \notin {"setGlobal", "setDevice"}
        <5>1. r.op = c.op /\ responses' = Append(responses, r)
          BY <1>1, <4>2 DEF Command
        <5> HIDE DEF r
        <5>2. DOMAIN responses' = DOMAIN responses \cup {Len(responses) + 1}
              /\ responses'[Len(responses) + 1] = r
              /\ \A i \in DOMAIN responses : responses'[i] = responses[i]
          <6>1. responses \in Seq(Messages) /\ responses' \in Seq(Messages)
            BY DEF IdInv, TypeInv, MessagesOK
          <6>2. /\ Len(responses) \in Nat /\ DOMAIN responses = 1..Len(responses)
                /\ DOMAIN responses' = 1..Len(responses')
            BY <6>1, LenProperties
          <6>3. Len(responses') = Len(responses) + 1
            BY <5>1, <6>1
          <6> QED BY <5>1, <6>1, <6>2, <6>3
        <5> QED BY <3>2, <2>1, <5>1, <5>2 DEF IdInv, Loading
      <4> QED BY <4>1, <4>2
    <3> QED BY <1>1, <2>1, <3>1, <3>3 DEF Loading
  <2>2. CASE globalId = None /\ responses = <<>>
    <3>1. c.op = "getGlobal" /\ \A i \in DOMAIN commands' : commands'[i].op = "getDevice"
      BY <1>0, <2>2 DEF IdInv, Loading
    <3>2. /\ responses' = <<r>> /\ r.op = "getGlobal" /\ r.val = storedGlobal
          /\ storedGlobal' = storedGlobal
      BY <1>1, <2>2, <3>1 DEF Command, Read
    <3> HIDE DEF r
    <3>3. responses' # <<>> /\ responses'[1] = r /\ DOMAIN responses' = {1}
      BY <3>2
    <3> QED BY <1>1, <2>2, <3>1, <3>2, <3>3 DEF Loading
  <2>3. CASE globalId = None /\ responses # <<>>
    <3>1. /\ responses[1].op = "getGlobal" /\ responses[1].val = storedGlobal
          /\ \A i \in DOMAIN responses : i # 1 => responses[i].op = "getDevice"
          /\ \A i \in DOMAIN commands : commands[i].op = "getDevice"
      BY <2>3 DEF IdInv, Loading
    <3>2. c.op = "getDevice" /\ r.op = "getDevice"
      BY <1>0, <3>1 DEF Command
    <3>3. responses' = Append(responses, r) /\ storedGlobal' = storedGlobal
      BY <1>1, <3>2
    <3> HIDE DEF r
    <3>4. /\ DOMAIN responses' = DOMAIN responses \cup {Len(responses) + 1}
          /\ 1 \in DOMAIN responses /\ responses' # <<>>
          /\ responses'[Len(responses) + 1] = r
          /\ \A i \in DOMAIN responses : responses'[i] = responses[i]
      <4>1. responses \in Seq(Messages) /\ responses' \in Seq(Messages)
        BY DEF IdInv, TypeInv, MessagesOK
      <4>2. /\ Len(responses) \in Nat /\ DOMAIN responses = 1..Len(responses)
            /\ DOMAIN responses' = 1..Len(responses')
        BY <4>1, LenProperties
      <4>3. Len(responses') = Len(responses) + 1
        BY <3>3, <4>1
      <4> QED BY <2>3, <3>3, <4>1, <4>2, <4>3
    <3>5. \A i \in DOMAIN commands' : commands'[i].op = "getDevice"
      BY <1>0, <3>1
    <3> QED BY <1>1, <2>3, <3>1, <3>2, <3>3, <3>4, <3>5 DEF Loading
  <2> QED BY <2>1, <2>2, <2>3
<1>3. CountersGrow'
  <2>0. /\ storedGlobal \in Nat \cup {None} /\ globalId \in Nat \cup {None}
        /\ None \notin Nat
    BY LoginAssumption DEF IdInv, TypeInv, StoredOK, ManagersOK
  <2>1. \A i \in DOMAIN commands' : commands'[i].op = "setGlobal" =>
          /\ storedGlobal' = None \/ storedGlobal' <= commands'[i].val
          /\ globalId' # None => commands'[i].val <= globalId'
    <3> SUFFICES ASSUME NEW i \in DOMAIN commands', commands'[i].op = "setGlobal"
                 PROVE  /\ storedGlobal' = None \/ storedGlobal' <= commands'[i].val
                        /\ globalId' # None => commands'[i].val <= globalId'
      OBVIOUS
    <3>1. i + 1 \in DOMAIN commands /\ commands[i + 1].op = "setGlobal" /\ 1 < i + 1
          /\ commands'[i] = commands[i + 1]
      BY <1>0
    <3>2. c.op = "setGlobal" => c.val <= commands'[i].val
      BY <1>0, <3>1 DEF IdInv, CountersGrow
    <3> QED BY <1>1, <3>1, <3>2 DEF IdInv, CountersGrow
  <2>2. ASSUME NEW i \in DOMAIN commands', NEW j \in DOMAIN commands', i < j,
               commands'[i].op = "setGlobal", commands'[j].op = "setGlobal"
        PROVE  commands'[i].val <= commands'[j].val
    <3>1. /\ i + 1 \in DOMAIN commands /\ j + 1 \in DOMAIN commands /\ i + 1 < j + 1
          /\ commands[i + 1] = commands'[i] /\ commands[j + 1] = commands'[j]
      BY <1>0, <2>2
    <3> QED BY <2>2, <3>1 DEF IdInv, CountersGrow
  <2>3. (globalId' # None /\ storedGlobal' # None) => storedGlobal' <= globalId'
    BY <1>0, <1>1 DEF IdInv, CountersGrow
  <2> QED BY <2>1, <2>2, <2>3 DEF CountersGrow
<1>4. storedGlobal # None => storedGlobal' # None /\ storedGlobal <= storedGlobal'
  <2>1. /\ storedGlobal \in Nat \cup {None} /\ None \notin Nat
        /\ c.op = "setGlobal" => c.val \in Nat
    BY <1>0, LoginAssumption DEF IdInv, TypeInv, StoredOK, CommandOK
  <2> QED BY <1>0, <1>1, <2>1 DEF IdInv, CountersGrow
<1>5. PendingCovered'
  <2> SUFFICES ASSUME NEW i \in DOMAIN commands',
                      commands'[i].op \in {"setDevice", "setGame"}
               PROVE  \/ storedGlobal' # None /\ commands'[i].val < storedGlobal'
                      \/ \E j \in DOMAIN commands' :
                           /\ j < i /\ commands'[j].op = "setGlobal"
                           /\ commands'[i].val < commands'[j].val
    BY DEF PendingCovered
  <2> DEFINE u == commands'[i].val
  <2>0. /\ i + 1 \in DOMAIN commands /\ commands[i + 1] = commands'[i]
        /\ u \in Nat
    <3>1. u \in Users
      BY DEF TypeInv, MessagesOK, CommandOK
    <3> QED BY <1>0, <3>1, LoginAssumption DEF Users, Default
  <2>00. /\ storedGlobal \in Nat \cup {None} /\ None \notin Nat
         /\ storedGlobal' \in Nat \cup {None}
    BY LoginAssumption DEF IdInv, TypeInv, StoredOK
  <2>1. CASE storedGlobal # None /\ u < storedGlobal
    BY <1>4, <2>0, <2>00, <2>1
  <2>2. CASE \E j \in DOMAIN commands : /\ j < i + 1 /\ commands[j].op = "setGlobal"
                                         /\ u < commands[j].val
    <3>1. PICK j \in DOMAIN commands : /\ j < i + 1 /\ commands[j].op = "setGlobal"
                                       /\ u < commands[j].val
      BY <2>2
    <3>2. CASE j = 1
      <4>1. c.op = "setGlobal" /\ storedGlobal' = c.val /\ u < c.val
        BY <1>0, <1>1, <3>1, <3>2
      <4>2. c.val \in Nat
        BY <1>0, <4>1 DEF CommandOK
      <4> QED BY <2>00, <4>1, <4>2
    <3>3. CASE j # 1
      <4>1. j - 1 \in DOMAIN commands' /\ commands'[j - 1] = commands[j]
        BY <1>0, <3>3
      <4>2. j - 1 < i
        BY <1>0, <3>1
      <4> QED BY <3>1, <4>1, <4>2
    <3> QED BY <3>2, <3>3
  <2> QED BY <2>0, <2>1, <2>2 DEF IdInv, PendingCovered
<1>6. PendingDistinct'
  <2>1. ASSUME NEW i \in DOMAIN commands', NEW j \in DOMAIN commands', i # j,
               commands'[i].op = "setDevice", commands'[j].op = "setDevice"
        PROVE  commands'[i].val # commands'[j].val
    <3>1. /\ i + 1 \in DOMAIN commands /\ j + 1 \in DOMAIN commands /\ i + 1 # j + 1
          /\ commands[i + 1] = commands'[i] /\ commands[j + 1] = commands'[j]
      BY <1>0, <2>1
    <3> QED BY <2>1, <3>1 DEF IdInv, PendingDistinct
  <2>2. ASSUME NEW i \in DOMAIN commands', NEW d \in Devices,
               commands'[i].op = "setDevice"
        PROVE  storedDevice'[d] # commands'[i].val
    <3>1. /\ i + 1 \in DOMAIN commands /\ commands[i + 1] = commands'[i]
          /\ i + 1 # 1
      BY <1>0
    <3>2. storedDevice[d] # commands'[i].val
      BY <2>2, <3>1 DEF IdInv, PendingDistinct
    <3>3. c.op = "setDevice" => c.val # commands'[i].val
      BY <1>0, <2>2, <3>1 DEF IdInv, PendingDistinct
    <3>4. storedDevice'[d] \in {storedDevice[d], c.val}
          /\ (c.op # "setDevice" => storedDevice'[d] = storedDevice[d])
      BY <1>1 DEF IdInv, TypeInv, StoredOK
    <3> QED BY <3>2, <3>3, <3>4
  <2> QED BY <2>1, <2>2 DEF PendingDistinct
<1>7. c.op \in {"setDevice", "setGame"} => storedGlobal # None /\ c.val < storedGlobal
  BY <1>0 DEF IdInv, PendingCovered
<1>8. IdsBelowGlobal'
  <2>0. /\ storedGlobal \in Nat \cup {None} /\ None \notin Nat
        /\ storedGlobal' \in Nat \cup {None}
        /\ Users \subseteq Nat
    BY LoginAssumption DEF IdInv, TypeInv, StoredOK, Users, Default
  <2>1. ASSUME NEW d \in Devices, storedDevice'[d] # None
        PROVE  storedGlobal' # None /\ storedDevice'[d] < storedGlobal'
    <3>0. storedDevice[d] \in Nat \cup {None}
      BY <2>0 DEF IdInv, TypeInv, StoredOK
    <3>1. CASE storedDevice'[d] = storedDevice[d]
      <4>1. storedGlobal # None /\ storedDevice[d] < storedGlobal
        BY <2>1, <3>1 DEF IdInv, IdsBelowGlobal
      <4> QED BY <1>4, <2>0, <2>1, <3>0, <3>1, <4>1
    <3>2. CASE storedDevice'[d] # storedDevice[d]
      <4>1. c.op = "setDevice" /\ storedDevice'[d] = c.val
        BY <1>1, <3>2 DEF IdInv, TypeInv, StoredOK
      <4>2. c.val \in Nat
        BY <1>0, <2>0, <4>1 DEF CommandOK
      <4> QED BY <1>4, <1>7, <2>0, <4>1, <4>2
    <3> QED BY <3>1, <3>2
  <2>2. ASSUME NEW u \in storedGame'
        PROVE  storedGlobal' # None /\ u < storedGlobal'
    <3>0. u \in Nat
      BY <2>0 DEF TypeInv, StoredOK
    <3>1. CASE u \in storedGame
      <4>1. storedGlobal # None /\ u < storedGlobal
        BY <3>1 DEF IdInv, IdsBelowGlobal
      <4> QED BY <1>4, <2>0, <3>0, <4>1
    <3>2. CASE u \notin storedGame
      <4>1. c.op = "setGame" /\ u = c.key
        BY <1>1, <3>2
      <4>2. u = c.val
        BY <1>0, <4>1 DEF CommandOK
      <4> QED BY <1>4, <1>7, <2>0, <3>0, <4>1, <4>2
    <3> QED BY <3>1, <3>2
  <2> QED BY <2>1, <2>2 DEF IdsBelowGlobal
<1>9. UsersAreDistinct'
  <2> SUFFICES ASSUME NEW d \in Devices, NEW e \in Devices,
                      d # e, storedDevice'[d] # None,
                      storedDevice'[d] = storedDevice'[e]
               PROVE  FALSE
    BY DEF UsersAreDistinct
  <2>1. CASE c.op = "setDevice"
    <3>1. \A x \in Devices : storedDevice[x] # c.val
      BY <1>0, <2>1 DEF IdInv, PendingDistinct
    <3>2. \A x \in Devices : storedDevice'[x] = IF x = c.key THEN c.val ELSE storedDevice[x]
      BY <1>1, <2>1 DEF IdInv, TypeInv, StoredOK
    <3> QED BY <3>1, <3>2 DEF IdInv, UsersAreDistinct
  <2>2. CASE c.op # "setDevice"
    BY <1>1, <2>2 DEF IdInv, UsersAreDistinct
  <2> QED BY <2>1, <2>2
<1> QED BY <1>2, <1>3, <1>5, <1>6, <1>8, <1>9 DEF IdInv

\* A registration takes an id that no device, and no pending command, has.
LEMMA RegisterIds ==
    ASSUME IdInv, TypeInv', NEW h \in Handlers, NEW d \in Devices, NEW origin \in Nat,
           Register(h, d, origin), responses # <<>>, responses' = Tail(responses),
           UNCHANGED redis
    PROVE  IdInv'
<1> DEFINE u == globalId
           n == Len(commands)
           a == Command("setGlobal", 0, u + 1, 0)
           b == Command("setDevice", d, u, 0)
           c == Command("setGame", u, u, origin)
<1>0. /\ u \in Users /\ u \in Nat /\ globalId # None
      /\ globalId' = u + 1 /\ globalId' \in Nat /\ globalId' # None
  BY LoginAssumption DEF Register, Users, Default
<1>1. a \in Messages /\ b \in Messages /\ c \in Messages
  BY <1>0 DEF Command, Messages, Ops
<1>2. /\ a.op = "setGlobal" /\ a.val = u + 1
      /\ b.op = "setDevice" /\ b.val = u
      /\ c.op = "setGame" /\ c.val = u
  BY DEF Command
<1>3. commands' = commands \o <<a, b, c>>
  BY DEF Register, Registration
<1> HIDE DEF a, b, c
<1>4. /\ n \in Nat /\ DOMAIN commands = 1..n /\ DOMAIN commands' = 1..(n + 3)
      /\ \A i \in DOMAIN commands : commands'[i] = commands[i]
      /\ commands'[n + 1] = a /\ commands'[n + 2] = b /\ commands'[n + 3] = c
  BY <1>1, <1>3, RegistrationFacts DEF IdInv, TypeInv, MessagesOK
<1> HIDE DEF u, n
<1>5. \A i \in DOMAIN commands' :
        \/ i \in DOMAIN commands /\ commands'[i] = commands[i]
        \/ i = n + 1 /\ commands'[i] = a
        \/ i = n + 2 /\ commands'[i] = b
        \/ i = n + 3 /\ commands'[i] = c
  BY <1>4
<1>6. /\ storedGlobal \in Nat \cup {None} /\ None \notin Nat
      /\ storedGlobal' = storedGlobal /\ storedDevice' = storedDevice
      /\ storedGame' = storedGame
      /\ storedGlobal # None => storedGlobal <= u
      /\ \A i \in DOMAIN commands : commands[i].op = "setGlobal" =>
           commands[i].val \in Nat /\ commands[i].val <= u
  BY <1>0, LoginAssumption
     DEF redis, IdInv, TypeInv, StoredOK, CountersGrow, MessagesOK, CommandOK, u
<1>7. Loading'
  <2>1. \A i \in DOMAIN responses' : responses'[i].op # "getGlobal"
    BY <1>0, TailFacts DEF IdInv, TypeInv, MessagesOK, Loading
  <2>2. \A i \in DOMAIN commands' : commands'[i].op # "getGlobal"
    BY <1>0, <1>2, <1>5 DEF IdInv, Loading
  <2> QED BY <1>0, <2>1, <2>2 DEF Loading
<1>8. CountersGrow'
  <2>1. \A i \in DOMAIN commands' : commands'[i].op = "setGlobal" =>
          /\ storedGlobal' = None \/ storedGlobal' <= commands'[i].val
          /\ globalId' # None => commands'[i].val <= globalId'
    <3> SUFFICES ASSUME NEW i \in DOMAIN commands', commands'[i].op = "setGlobal"
                 PROVE  /\ storedGlobal' = None \/ storedGlobal' <= commands'[i].val
                        /\ commands'[i].val <= globalId'
      OBVIOUS
    <3>1. CASE i \in DOMAIN commands /\ commands'[i] = commands[i]
      <4>1. storedGlobal = None \/ storedGlobal <= commands[i].val
        BY <3>1 DEF IdInv, CountersGrow
      <4> QED BY <1>0, <1>6, <3>1, <4>1 DEF u
    <3>2. CASE i = n + 1 /\ commands'[i] = a
      BY <1>0, <1>2, <1>6, <3>2 DEF u
    <3> QED BY <1>2, <1>5, <3>1, <3>2
  <2>2. ASSUME NEW i \in DOMAIN commands', NEW j \in DOMAIN commands', i < j,
               commands'[i].op = "setGlobal", commands'[j].op = "setGlobal"
        PROVE  commands'[i].val <= commands'[j].val
    <3>1. CASE j \in DOMAIN commands /\ commands'[j] = commands[j]
      <4>1. i \in DOMAIN commands /\ commands'[i] = commands[i]
        BY <1>4, <2>2, <3>1
      <4> QED BY <2>2, <3>1, <4>1 DEF IdInv, CountersGrow
    <3>2. CASE j = n + 1 /\ commands'[j] = a
      <4>1. i \in DOMAIN commands /\ commands'[i] = commands[i]
        BY <1>4, <2>2, <3>2
      <4> QED BY <1>0, <1>2, <1>6, <2>2, <3>2, <4>1 DEF u
    <3> QED BY <1>2, <1>5, <2>2, <3>1, <3>2
  <2>3. storedGlobal' # None => storedGlobal' <= globalId'
    BY <1>0, <1>6 DEF u
  <2> QED BY <2>1, <2>2, <2>3 DEF CountersGrow
<1>9. PendingCovered'
  <2> SUFFICES ASSUME NEW i \in DOMAIN commands',
                      commands'[i].op \in {"setDevice", "setGame"}
               PROVE  \/ storedGlobal' # None /\ commands'[i].val < storedGlobal'
                      \/ \E j \in DOMAIN commands' :
                           /\ j < i /\ commands'[j].op = "setGlobal"
                           /\ commands'[i].val < commands'[j].val
    BY DEF PendingCovered
  <2>1. CASE i \in DOMAIN commands /\ commands'[i] = commands[i]
    <3>1. \A j \in DOMAIN commands : j \in DOMAIN commands' /\ commands'[j] = commands[j]
      BY <1>4
    <3> QED BY <1>6, <2>1, <3>1 DEF IdInv, PendingCovered
  <2>2. CASE i \in {n + 2, n + 3} /\ commands'[i].val = u
    <3>1. n + 1 \in DOMAIN commands' /\ n + 1 < i
      BY <1>4, <2>2
    <3>2. commands'[i].val < commands'[n + 1].val
      BY <1>0, <1>2, <1>4, <2>2
    <3> QED BY <1>2, <1>4, <3>1, <3>2
  <2> QED BY <1>2, <1>5, <2>1, <2>2
<1>10. \A i \in DOMAIN commands : commands[i].op \in {"setDevice", "setGame"} =>
         commands[i].val # u
  <2> SUFFICES ASSUME NEW i \in DOMAIN commands,
                      commands[i].op \in {"setDevice", "setGame"}, commands[i].val = u
               PROVE  FALSE
    OBVIOUS
  <2>1. CASE storedGlobal # None /\ commands[i].val < storedGlobal
    BY <1>0, <1>6, <2>1
  <2>2. CASE \E j \in DOMAIN commands : /\ commands[j].op = "setGlobal"
                                         /\ commands[i].val < commands[j].val
    BY <1>0, <1>6, <2>2
  <2> QED BY <2>1, <2>2 DEF IdInv, PendingCovered
<1>11. \A e \in Devices : storedDevice[e] # u
  <2> SUFFICES ASSUME NEW e \in Devices, storedDevice[e] = u PROVE FALSE
    OBVIOUS
  <2>1. storedGlobal # None /\ u < storedGlobal
    BY <1>0 DEF IdInv, IdsBelowGlobal, u
  <2> QED BY <1>0, <1>6, <2>1
<1>12. PendingDistinct'
  <2>1. \A i \in DOMAIN commands' : commands'[i].op = "setDevice" =>
          \/ i \in DOMAIN commands /\ commands'[i] = commands[i]
          \/ i = n + 2 /\ commands'[i].val = u /\ i \notin DOMAIN commands
    BY <1>2, <1>4, <1>5
  <2> QED BY <1>6, <1>10, <1>11, <2>1 DEF IdInv, PendingDistinct
<1>13. IdsBelowGlobal' /\ UsersAreDistinct'
  BY DEF redis, IdInv, IdsBelowGlobal, UsersAreDistinct
<1> QED BY <1>7, <1>8, <1>9, <1>12, <1>13 DEF IdInv

\* The restart asks for the counter again.
LEMMA CrashIds ==
    ASSUME IdInv, TypeInv', Crash
    PROVE  IdInv'
<1>1. /\ DOMAIN commands' = {1} /\ commands'[1].op = "getGlobal" /\ commands' # <<>>
      /\ responses' = <<>> /\ globalId' = None
      /\ storedGlobal' = storedGlobal /\ storedDevice' = storedDevice
      /\ storedGame' = storedGame
  BY DEF Crash, redis, FirstCommand, Command
<1>2. Loading'
  BY <1>1 DEF Loading
<1>3. CountersGrow' /\ PendingCovered' /\ PendingDistinct'
  BY <1>1 DEF CountersGrow, PendingCovered, PendingDistinct
<1>4. IdsBelowGlobal' /\ UsersAreDistinct'
  BY <1>1 DEF IdInv, IdsBelowGlobal, UsersAreDistinct
<1> QED BY <1>2, <1>3, <1>4 DEF IdInv

LEMMA DeviceBackIds ==
    ASSUME IdInv, TypeInv', DeviceBack
    PROVE  IdInv'
<1> DEFINE r == Head(responses)
           h == r.key
           d == Head(requests[h]).device
<1>0. /\ responses # <<>> /\ responses' = Tail(responses) /\ UNCHANGED redis
      /\ h \in Handlers /\ r.val \in Users \cup {None} /\ r.origin \in Nat
      /\ r.op = "getDevice"
  <2>1. Back("getDevice") /\ TypeInv
    BY DEF DeviceBack, IdInv
  <2> QED BY <2>1, BackTypes DEF ResponseOK, Messages, Back
<1>1. globalId # None
  BY <1>0, NothingBeforeTheCounter DEF IdInv, TypeInv
<1>2. CASE requests[h] = <<>>
  BY <1>0, <1>1, <1>2, DeliverKeepsIds DEF DeviceBack, lua
<1>3. CASE requests[h] # <<>> /\ r.val # None
  <2>1. LoginUser(h, r.val, r.origin) /\ r.val \in Users
    BY <1>0, <1>3 DEF DeviceBack
  <2>2. CASE r.val \in cached
    <3>1. UNCHANGED <<globalId, commands>>
      BY <2>1, <2>2 DEF LoginUser
    <3> QED BY <1>0, <1>1, <3>1, DeliverKeepsIds
  <2>3. CASE r.val \notin cached
    <3> DEFINE c == Command("getGame", r.val, 0, r.origin)
    <3>1. Users \subseteq Nat
      BY LoginAssumption DEF Users, Default
    <3>2. c \in Messages /\ c.op = "getGame"
      BY <1>0, <2>1, <3>1 DEF Command, Messages, Ops
    <3>3. commands' = Append(commands, c) /\ globalId' = globalId
      BY <2>1, <2>3 DEF LoginUser
    <3> HIDE DEF c
    <3> QED BY <1>0, <1>1, <3>2, <3>3, LookupKeepsIds
  <2> QED BY <2>2, <2>3
<1>4. CASE requests[h] # <<>> /\ r.val = None /\ d # None
  <2>1. Register(h, d, r.origin)
    BY <1>4 DEF DeviceBack
  <2>2. d \in Devices
    <3>1. requests[h] \in Seq(Request)
      BY <1>0 DEF IdInv, TypeInv, ManagersOK
    <3>2. Head(requests[h]) \in Request
      BY <1>4, <3>1, TailFacts
    <3> QED BY <1>4, <3>2 DEF Request
  <2> QED BY <1>0, <2>1, <2>2, RegisterIds
<1>5. CASE requests[h] # <<>> /\ r.val = None /\ d = None
  <2>1. UNCHANGED <<globalId, commands>>
    BY <1>5 DEF DeviceBack
  <2> QED BY <1>0, <1>1, <2>1, DeliverKeepsIds
<1> QED BY <1>2, <1>3, <1>4, <1>5

LEMMA IdsInductive == IdInv /\ [Next]_vars => IdInv'
<1> SUFFICES ASSUME IdInv, [Next]_vars PROVE IdInv'
  OBVIOUS
<1>0. TypeInv'
  BY TypesInductive DEF IdInv
<1> DEFINE idvars == <<globalId, commands, responses, redis>>
<1>u. ASSUME UNCHANGED idvars PROVE IdInv'
  BY <1>0, <1>u DEF redis, IdInv, Loading, CountersGrow, PendingCovered,
                    PendingDistinct, IdsBelowGlobal, UsersAreDistinct
<1>1. ASSUME NEW h \in Handlers, NEW d \in Devices, LoginDirect(h, d) PROVE IdInv'
  <2> DEFINE c == Command("getDevice", h, d, nextSeq)
  <2>1. nextSeq \in Nat
    BY LenProperties DEF nextSeq, IdInv, TypeInv, HistoryOK
  <2>2. c \in Messages /\ c.op = "getDevice"
    BY <2>1 DEF Command, Messages, Ops
  <2>3. commands' = Append(commands, c) /\ UNCHANGED <<globalId, responses, redis>>
    BY <1>1 DEF LoginDirect, Arrives
  <2> HIDE DEF c
  <2> QED BY <1>0, <2>2, <2>3, LookupKeepsIds
<1>2. ASSUME NEW h \in Handlers,
             LoginBadParameters(h) \/ LoginParametersRaise(h) \/ OtherEvent(h)
      PROVE  IdInv'
  <2>1. UNCHANGED idvars
    BY <1>2 DEF LoginBadParameters, LoginParametersRaise, OtherEvent, Arrives
  <2> QED BY <1>u, <2>1
<1>3. CASE RedisExecutes
  BY <1>0, <1>3, RedisIds
<1>4. CASE GlobalBack
  BY <1>0, <1>4, GlobalBackIds
<1>5. CASE DeviceBack
  BY <1>0, <1>5, DeviceBackIds
<1>6. CASE RegisteringBack \/ GameBack
  <2>1. /\ responses # <<>> /\ Head(responses).op # "getGlobal"
        /\ responses' = Tail(responses)
        /\ UNCHANGED <<globalId, commands, redis>>
    BY <1>6 DEF RegisteringBack, GameBack, Back
  <2>2. globalId # None
    BY <2>1, NothingBeforeTheCounter DEF IdInv, TypeInv
  <2> QED BY <1>0, <2>1, <2>2, DeliverKeepsIds
<1>7. CASE Crash
  BY <1>0, <1>7, CrashIds
<1>8. CASE UNCHANGED vars
  <2>1. UNCHANGED idvars
    BY <1>8 DEF vars, lua
  <2> QED BY <1>u, <2>1
<1> QED BY <1>1, <1>2, <1>3, <1>4, <1>5, <1>6, <1>7, <1>8 DEF Next

\* Whatever prefix of a registration a crash lets through, the stored counter is
\* above every stored user: the commands of RegisterProcess are pushed with the
\* counter first and redis takes them in order.
THEOREM StoredIdsBelowGlobal == Spec => []IdsBelowGlobal
<1>1. IdInv => IdsBelowGlobal
  BY DEF IdInv
<1> QED BY <1>1, InitIds, IdsInductive, PTL DEF Spec

\* No two devices are ever given one user, over any number of restarts.
THEOREM NoUserIsShared == Spec => []UsersAreDistinct
<1>1. IdInv => UsersAreDistinct
  BY DEF IdInv
<1> QED BY <1>1, InitIds, IdsInductive, PTL DEF Spec

\* No device is looked up by Lua before the counter is known: the question for
\* it is first in both queues.
THEOREM CounterIsLoadedFirst == Spec => []GlobalLoadedFirst
<1>1. IdInv => GlobalLoadedFirst
  BY NothingBeforeTheCounter DEF IdInv, TypeInv, GlobalLoadedFirst
<1> QED BY <1>1, InitIds, IdsInductive, PTL DEF Spec
-----------------------------------------------------------------------------
\* The messages that end in an answer.
Work == {"getDevice", "setGame", "getGame"}

\* Every request that is queued, worked on or answered is one that was sent.
OriginsKnown ==
    /\ \A i \in DOMAIN commands : commands[i].op \in Work =>
         /\ commands[i].origin \in DOMAIN asked
         /\ asked[commands[i].origin].device \in Devices
    /\ \A i \in DOMAIN commands : commands[i].op = "getDevice" =>
         /\ commands[i].key = asked[commands[i].origin].handler
         /\ commands[i].val = asked[commands[i].origin].device
    /\ \A i \in DOMAIN responses : responses[i].op \in Work =>
         /\ responses[i].origin \in DOMAIN asked
         /\ asked[responses[i].origin].device \in Devices
    /\ \A i \in DOMAIN responses : responses[i].op = "getDevice" =>
         responses[i].key = asked[responses[i].origin].handler
    /\ \A h \in Handlers : \A k \in DOMAIN requests[h] :
         LET q == requests[h][k]
         IN  /\ q.seq \in DOMAIN asked
             /\ asked[q.seq].handler = h /\ asked[q.seq].device = q.device
    /\ \A r \in replies :
         /\ r.handler \in Handlers
         /\ r.origin \in DOMAIN asked /\ r.seq \in DOMAIN asked
         /\ r.user # None => asked[r.origin].device \in Devices

\* No request is worked on twice.
WorkedOnOnce ==
    /\ \A i, j \in DOMAIN commands :
         (commands[i].op \in Work /\ commands[j].op \in Work /\ i # j) =>
           commands[i].origin # commands[j].origin
    /\ \A i, j \in DOMAIN responses :
         (responses[i].op \in Work /\ responses[j].op \in Work /\ i # j) =>
           responses[i].origin # responses[j].origin
    /\ \A i \in DOMAIN commands, j \in DOMAIN responses :
         (commands[i].op \in Work /\ responses[j].op \in Work) =>
           commands[i].origin # responses[j].origin

\* The users that are pending were below the stored counter when they were read.
PendingBelowGlobal ==
    /\ \A i \in DOMAIN commands : commands[i].op = "getGame" =>
         storedGlobal # None /\ commands[i].key < storedGlobal
    /\ \A i \in DOMAIN responses :
         /\ responses[i].op \in {"setGame", "getGame"} =>
              storedGlobal # None /\ responses[i].key < storedGlobal
         /\ (responses[i].op = "getDevice" /\ responses[i].val # None) =>
              storedGlobal # None /\ responses[i].val < storedGlobal

\* u is taken for the user of d: it is stored, is about to be, or was read.
UserOf(u, d) ==
    \/ storedDevice[d] = u
    \/ \E i \in DOMAIN commands :
         /\ commands[i].op = "setDevice"
         /\ commands[i].key = d /\ commands[i].val = u
    \/ \E i \in DOMAIN commands :
         /\ commands[i].op = "getGame"
         /\ commands[i].key = u /\ asked[commands[i].origin].device = d
    \/ \E i \in DOMAIN responses :
         /\ responses[i].op = "getGame"
         /\ responses[i].key = u /\ asked[responses[i].origin].device = d
    \/ \E i \in DOMAIN responses :
         /\ responses[i].op = "getDevice"
         /\ responses[i].val = u /\ asked[responses[i].origin].device = d

OneDeviceEach ==
    \A u \in Users : \A d, e \in Devices : UserOf(u, d) /\ UserOf(u, e) => d = e

\* The connection a user plays on asked for the device of every login under way.
AskedFor(h, d) == \E i \in DOMAIN asked : asked[i].handler = h /\ asked[i].device = d

LoginsFollowed ==
    /\ \A i \in DOMAIN commands : commands[i].op = "getGame" =>
         LET h == userToHandler[commands[i].key]
         IN  h # None => AskedFor(h, asked[commands[i].origin].device)
    /\ \A i \in DOMAIN responses : responses[i].op = "getGame" =>
         LET h == userToHandler[responses[i].key]
         IN  h # None => AskedFor(h, asked[responses[i].origin].device)

\* Nobody can log a user in before his registration is answered: the device and
\* the game data are stored one after the other.
RegistrationsKept ==
    /\ \A i \in DOMAIN commands : commands[i].op = "setGame" =>
         /\ userToHandler[commands[i].key] = asked[commands[i].origin].handler
         /\ i # 1 => /\ commands[i - 1].op = "setDevice"
                     /\ commands[i - 1].val = commands[i].key
    /\ \A i \in DOMAIN responses : responses[i].op = "setGame" =>
         userToHandler[responses[i].key] = asked[responses[i].origin].handler
    /\ \A i \in DOMAIN commands, j \in DOMAIN responses :
         (commands[i].op = "setGame" /\ responses[j].op = "getDevice") =>
           responses[j].val # commands[i].key
    /\ \A i, j \in DOMAIN responses :
         (/\ responses[i].op = "setGame" /\ responses[j].op = "getDevice"
          /\ responses[j].val = responses[i].key) => i < j

\* A connection that waited for each answer, and got only its own.
Clean(h) ==
    /\ h \notin crowded
    /\ \A q \in replies : q.handler = h => asked[q.origin].handler = h

\* The only request such a connection has is the one that is worked on.
QueuesMatch ==
    /\ \A i \in DOMAIN commands : commands[i].op \in Work =>
         LET h == asked[commands[i].origin].handler
         IN  Clean(h) => /\ requests[h] # <<>>
                         /\ Head(requests[h]).seq = commands[i].origin
    /\ \A i \in DOMAIN responses : responses[i].op \in Work =>
         LET h == asked[responses[i].origin].handler
         IN  Clean(h) => /\ requests[h] # <<>>
                         /\ Head(requests[h]).seq = responses[i].origin
    /\ \A h \in Handlers \ crowded :
         /\ Len(requests[h]) <= 1
         /\ requests[h] # <<>> =>
              \A q \in replies : q.handler = h => q.seq < Head(requests[h]).seq

\* The user is stored for the device of request s, for good.
Lasting(s, u) ==
    storedDevice[asked[s].device] = u \/ asked[s].device \in raced

CommandLasts(i) ==
    LET c == commands[i]
    IN  /\ c.op = "getGame" => Lasting(c.origin, c.key)
        /\ c.op = "setGame" => \/ ~ Clean(asked[c.origin].handler)
                               \/ Lasting(c.origin, c.key)
                               \/ i # 1 /\ commands[i - 1].key = asked[c.origin].device

ResponseLasts(i) ==
    LET r == responses[i]
    IN  /\ r.op = "getGame" => Lasting(r.origin, r.key)
        /\ r.op = "setGame" => ~ Clean(asked[r.origin].handler) \/ Lasting(r.origin, r.key)
        /\ (r.op = "getDevice" /\ r.val # None) => Lasting(r.origin, r.val)

\* A device that is registered once has no user before.
RacesKnown ==
    \A d \in Devices \ raced :
      /\ \A i \in DOMAIN commands :
           (commands[i].op = "setDevice" /\ commands[i].key = d) => storedDevice[d] = None
      /\ \A i, j \in DOMAIN commands :
           (/\ commands[i].op = "setDevice" /\ commands[i].key = d
            /\ commands[j].op = "setDevice" /\ commands[j].key = d) => i = j

UsersLast ==
    /\ \A i \in DOMAIN commands : CommandLasts(i)
    /\ \A i \in DOMAIN responses : ResponseLasts(i)
    /\ RacesKnown

ReplyInv ==
    /\ IdInv /\ OriginsKnown /\ WorkedOnOnce /\ PendingBelowGlobal /\ OneDeviceEach
    /\ LoginsFollowed /\ RegistrationsKept /\ QueuesMatch /\ UsersLast
    /\ RepliesMatch /\ RepliesDurable

LEMMA InitReplies == Init => ReplyInv
<1> SUFFICES ASSUME Init PROVE ReplyInv
  OBVIOUS
<1>1. IdInv
  BY InitIds
<1>2. /\ DOMAIN commands = {1} /\ commands[1].op = "getGlobal"
      /\ DOMAIN responses = {} /\ replies = {}
      /\ \A h \in Handlers : requests[h] = <<>>
      /\ \A d \in Devices : storedDevice[d] = None
  BY DEF Init, FirstCommand, Command
<1>3. OneDeviceEach
  <2>1. \A u \in Users, d \in Devices : ~ UserOf(u, d)
    <3>1. \A u \in Users : u # None
      BY LoginAssumption DEF Users, Default
    <3> QED BY <1>2, <3>1 DEF UserOf
  <2> QED BY <2>1 DEF OneDeviceEach
<1>4. OriginsKnown /\ WorkedOnOnce /\ PendingBelowGlobal /\ LoginsFollowed
  BY <1>2 DEF OriginsKnown, WorkedOnOnce, PendingBelowGlobal, LoginsFollowed, Work
<1>5. RegistrationsKept /\ QueuesMatch /\ UsersLast
  BY <1>2 DEF RegistrationsKept, QueuesMatch, UsersLast, CommandLasts, ResponseLasts,
               RacesKnown, Work
<1>6. RepliesMatch /\ RepliesDurable
  BY <1>2 DEF RepliesMatch, RepliesDurable
<1> QED BY <1>1, <1>3, <1>4, <1>5, <1>6 DEF ReplyInv

\* What was told stays right while more is asked, and registered twice.  (The
\* reply to bad parameters names no user and goes back to who sent them.)
LEMMA RepliesStay ==
    ASSUME OriginsKnown, RepliesMatch, RepliesDurable,
           \A i \in DOMAIN asked : i \in DOMAIN asked' /\ asked'[i] = asked[i],
           crowded \subseteq crowded', raced \subseteq raced', replies \subseteq replies',
           \A r \in replies' \ replies :
             r.handler = asked'[r.origin].handler /\ r.seq = r.origin /\ r.user = None,
           storedDevice' = storedDevice
    PROVE  RepliesMatch' /\ RepliesDurable'
<1>1. \A r \in replies : Confused(r) => Confused(r)'
  BY DEF Confused, OriginsKnown
<1>2. RepliesMatch'
  BY <1>1 DEF RepliesMatch, OriginsKnown
<1>3. RepliesDurable'
  BY <1>1 DEF RepliesDurable, OriginsKnown
<1> QED BY <1>2, <1>3

\* Taking a response off its queue, whatever is answered for it.
LEMMA DeliverKeepsWork ==
    ASSUME ReplyInv, responses # <<>>, responses' = Tail(responses),
           UNCHANGED <<commands, redis, asked, crowded, raced>>,
           replies \subseteq replies'
    PROVE  /\ WorkedOnOnce' /\ PendingBelowGlobal' /\ OneDeviceEach' /\ UsersLast'
           /\ \A i \in DOMAIN responses' : /\ i + 1 \in DOMAIN responses
                                           /\ responses'[i] = responses[i + 1]
                                           /\ i \in Nat /\ i >= 1
           /\ 1 \in DOMAIN responses /\ Head(responses) = responses[1]
<1>1. /\ \A i \in DOMAIN responses' : /\ i + 1 \in DOMAIN responses
                                      /\ responses'[i] = responses[i + 1]
                                      /\ i \in Nat /\ i >= 1
      /\ 1 \in DOMAIN responses /\ Head(responses) = responses[1]
  BY TailFacts DEF ReplyInv, IdInv, TypeInv, MessagesOK
<1>2. /\ storedDevice' = storedDevice /\ storedGlobal' = storedGlobal
      /\ commands' = commands /\ asked' = asked /\ raced' = raced
  BY DEF redis
<1>3. WorkedOnOnce'
  BY <1>1, <1>2 DEF ReplyInv, WorkedOnOnce
<1>4. PendingBelowGlobal'
  BY <1>1, <1>2 DEF ReplyInv, PendingBelowGlobal
<1>5. OneDeviceEach'
  <2>1. \A u \in Users, d \in Devices : UserOf(u, d)' => UserOf(u, d)
    BY <1>1, <1>2 DEF UserOf
  <2> QED BY <2>1 DEF ReplyInv, OneDeviceEach
<1>6. UsersLast'
  <2>1. \A h : Clean(h)' => Clean(h)
    BY <1>2 DEF Clean
  <2>2. \A s, u : Lasting(s, u)' <=> Lasting(s, u)
    BY <1>2 DEF Lasting
  <2>3. ASSUME NEW i \in DOMAIN commands' PROVE CommandLasts(i)'
    BY <1>2, <2>1, <2>2 DEF ReplyInv, UsersLast, CommandLasts
  <2>4. ASSUME NEW i \in DOMAIN responses' PROVE ResponseLasts(i)'
    BY <1>1, <1>2, <2>1, <2>2 DEF ReplyInv, UsersLast, ResponseLasts
  <2>5. RacesKnown'
    BY <1>2 DEF ReplyInv, UsersLast, RacesKnown
  <2> QED BY <2>3, <2>4, <2>5 DEF UsersLast
<1> QED BY <1>1, <1>3, <1>4, <1>5, <1>6

\* A response for which nothing is sent.
LEMMA SilenceKeepsReplies ==
    ASSUME ReplyInv, TypeInv', responses # <<>>, responses' = Tail(responses),
           UNCHANGED <<commands, redis, asked, crowded, raced, requests, replies>>
    PROVE  OriginsKnown' /\ QueuesMatch' /\ RepliesMatch' /\ RepliesDurable'
<1>1. \A i \in DOMAIN responses' : /\ i + 1 \in DOMAIN responses
                                   /\ responses'[i] = responses[i + 1]
  BY DeliverKeepsWork
<1>2. /\ storedDevice' = storedDevice /\ raced' = raced /\ crowded' = crowded
      /\ commands' = commands /\ asked' = asked /\ requests' = requests
      /\ replies' = replies
  BY DEF redis
<1>3. OriginsKnown'
  BY <1>1, <1>2 DEF ReplyInv, OriginsKnown
<1>4. QueuesMatch'
  <2>1. \A h : Clean(h)' <=> Clean(h)
    BY <1>2 DEF Clean
  <2> QED BY <1>1, <1>2, <2>1 DEF ReplyInv, QueuesMatch
<1>5. RepliesMatch' /\ RepliesDurable'
  BY <1>2, RepliesStay DEF ReplyInv
<1> QED BY <1>3, <1>4, <1>5

\* A reply to h, which asked for the device of the request that is answered, for
\* a user that device will keep, or one h registered while it was not clean.
LEMMA AnswerKeepsReplies ==
    ASSUME ReplyInv, TypeInv', responses # <<>>, responses' = Tail(responses),
           UNCHANGED <<commands, redis, asked, crowded, raced>>,
           Head(responses).op \in Work,
           NEW h \in Handlers, NEW u \in Users \cup {None}, NEW s,
           s = Head(responses).origin,
           SendToGateway(h, Oldest(requests[h]), u, s, requests[h]),
           asked[s].handler # h => AskedFor(h, asked[s].device),
           u # None => Lasting(s, u) \/ (asked[s].handler = h /\ ~ Clean(h))
    PROVE  OriginsKnown' /\ QueuesMatch' /\ RepliesMatch' /\ RepliesDurable'
<1>0. requests \in [Handlers -> Seq(Request)] /\ requests[h] \in Seq(Request)
  BY DEF ReplyInv, IdInv, TypeInv, ManagersOK
<1>1. CASE requests[h] = <<>>
  <2>1. requests' = requests /\ replies' = replies
    BY <1>0, <1>1 DEF SendToGateway
  <2> QED BY <2>1, SilenceKeepsReplies
<1>2. CASE requests[h] # <<>>
  <2> PICK q : q = requests[h]
    OBVIOUS
  <2> PICK r : r = [handler |-> h, seq |-> Head(q).seq, user |-> u, origin |-> s]
    OBVIOUS
  <2>0. /\ requests' = [requests EXCEPT ![h] = Tail(q)]
        /\ replies' = replies \cup {r}
    BY <1>2 DEF SendToGateway, Oldest
  <2>1. /\ q \in Seq(Request) /\ 1 \in DOMAIN q /\ Head(q) = q[1]
        /\ Len(q) \in Nat /\ Len(Tail(q)) = Len(q) - 1 /\ Tail(q) \in Seq(Request)
        /\ \A k \in DOMAIN Tail(q) : k + 1 \in DOMAIN q /\ Tail(q)[k] = q[k + 1]
    BY <1>0, <1>2, TailFacts
  <2>2. /\ requests'[h] = Tail(q)
        /\ \A x \in Handlers \ {h} : requests'[x] = requests[x]
    BY <1>0, <2>0
  <2>3. /\ storedDevice' = storedDevice /\ raced' = raced /\ crowded' = crowded
        /\ commands' = commands /\ asked' = asked
    BY DEF redis
  <2>4. /\ \A i \in DOMAIN responses' : /\ i + 1 \in DOMAIN responses /\ i + 1 # 1
                                        /\ responses'[i] = responses[i + 1]
        /\ 1 \in DOMAIN responses /\ Head(responses) = responses[1]
        /\ responses[1].op \in Work /\ responses[1].origin = s
    BY DeliverKeepsWork
  <2>5. /\ s \in DOMAIN asked /\ asked[s].device \in Devices
        /\ Head(q).seq \in DOMAIN asked
    BY <2>1, <2>4 DEF ReplyInv, OriginsKnown
  <2>6. /\ r.handler = h /\ r.seq = Head(q).seq /\ r.user = u /\ r.origin = s
    OBVIOUS
  <2>7. OriginsKnown'
    <3>1. \A x \in Handlers : \A k \in DOMAIN requests'[x] :
            LET p == requests'[x][k]
            IN  /\ p.seq \in DOMAIN asked
                /\ asked[p.seq].handler = x /\ asked[p.seq].device = p.device
      <4>1. \A k \in DOMAIN q : /\ q[k].seq \in DOMAIN asked
                                /\ asked[q[k].seq].handler = h
                                /\ asked[q[k].seq].device = q[k].device
        BY DEF ReplyInv, OriginsKnown
      <4> SUFFICES ASSUME NEW x \in Handlers, NEW k \in DOMAIN requests'[x]
                   PROVE  LET p == requests'[x][k]
                          IN  /\ p.seq \in DOMAIN asked
                              /\ asked[p.seq].handler = x
                              /\ asked[p.seq].device = p.device
        OBVIOUS
      <4>2. CASE x = h
        <5>1. k \in DOMAIN Tail(q) /\ requests'[x][k] = Tail(q)[k]
          BY <2>2, <4>2
        <5>2. k + 1 \in DOMAIN q /\ requests'[x][k] = q[k + 1]
          BY <2>1, <5>1
        <5> QED BY <4>1, <4>2, <5>2
      <4>3. CASE x # h
        <5>1. requests'[x] = requests[x]
          BY <2>2, <4>3
        <5> QED BY <5>1 DEF ReplyInv, OriginsKnown
      <4> QED BY <4>2, <4>3
    <3>2. \A p \in replies' :
            /\ p.handler \in Handlers
            /\ p.origin \in DOMAIN asked /\ p.seq \in DOMAIN asked
            /\ p.user # None => asked[p.origin].device \in Devices
      BY <2>0, <2>5, <2>6 DEF ReplyInv, OriginsKnown
    <3>3. ASSUME NEW i \in DOMAIN responses'
          PROVE  /\ responses'[i].op \in Work =>
                      /\ responses'[i].origin \in DOMAIN asked
                      /\ asked[responses'[i].origin].device \in Devices
                 /\ responses'[i].op = "getDevice" =>
                      responses'[i].key = asked[responses'[i].origin].handler
      <4>1. i + 1 \in DOMAIN responses /\ responses'[i] = responses[i + 1]
        BY <2>4
      <4> QED BY <4>1 DEF ReplyInv, OriginsKnown
    <3>4. /\ \A i \in DOMAIN commands' : commands'[i].op \in Work =>
               /\ commands'[i].origin \in DOMAIN asked
               /\ asked[commands'[i].origin].device \in Devices
          /\ \A i \in DOMAIN commands' : commands'[i].op = "getDevice" =>
               /\ commands'[i].key = asked[commands'[i].origin].handler
               /\ commands'[i].val = asked[commands'[i].origin].device
      BY <2>3 DEF ReplyInv, OriginsKnown
    <3> QED BY <2>3, <3>1, <3>2, <3>3, <3>4 DEF OriginsKnown
  <2>8. \A x \in Handlers : Clean(x)' => Clean(x) /\ (x = h => asked[s].handler = h)
    BY <2>0, <2>3, <2>6 DEF Clean
  <2>9. Clean(h) /\ asked[s].handler = h => Head(q).seq = s
    BY <2>4 DEF ReplyInv, QueuesMatch
  <2>10. QueuesMatch'
    <3>1. ASSUME NEW o, o # s, NEW x \in Handlers, Clean(x)',
                 Clean(x) => requests[x] # <<>> /\ Head(requests[x]).seq = o
          PROVE  requests'[x] # <<>> /\ Head(requests'[x]).seq = o
      <4>1. CASE x = h
        BY <2>8, <2>9, <3>1, <4>1
      <4>2. CASE x # h
        BY <2>2, <2>8, <3>1, <4>2
      <4> QED BY <4>1, <4>2
    <3>2. ASSUME NEW k \in DOMAIN asked PROVE asked[k].handler \in Handlers
      <4>1. asked \in Seq([handler : Handlers, device : Devices \cup {None}])
        BY DEF ReplyInv, IdInv, TypeInv, HistoryOK
      <4>2. asked[k] \in [handler : Handlers, device : Devices \cup {None}]
        BY <4>1, MemberFacts
      <4> QED BY <4>2
    <3>3. ASSUME NEW i \in DOMAIN commands', commands'[i].op \in Work,
                 NEW x, x = asked[commands'[i].origin].handler, Clean(x)'
          PROVE  requests'[x] # <<>> /\ Head(requests'[x]).seq = commands'[i].origin
      <4>1. i \in DOMAIN commands /\ commands'[i] = commands[i]
        BY <2>3
      <4>2. commands[i].origin # s
        BY <2>4, <3>3, <4>1 DEF ReplyInv, WorkedOnOnce
      <4>3. x \in Handlers
        BY <3>2, <3>3, <4>1 DEF ReplyInv, OriginsKnown
      <4>4. Clean(x) => requests[x] # <<>> /\ Head(requests[x]).seq = commands[i].origin
        BY <3>3, <4>1 DEF ReplyInv, QueuesMatch
      <4> QED BY <3>1, <3>3, <4>1, <4>2, <4>3, <4>4
    <3>4. ASSUME NEW i \in DOMAIN responses', responses'[i].op \in Work,
                 NEW x, x = asked[responses'[i].origin].handler, Clean(x)'
          PROVE  requests'[x] # <<>> /\ Head(requests'[x]).seq = responses'[i].origin
      <4>1. i + 1 \in DOMAIN responses /\ responses'[i] = responses[i + 1] /\ i + 1 # 1
        BY <2>4
      <4>2. responses[i + 1].origin # s
        BY <2>4, <3>4, <4>1 DEF ReplyInv, WorkedOnOnce
      <4>3. x \in Handlers
        BY <3>2, <3>4, <4>1 DEF ReplyInv, OriginsKnown
      <4>4. Clean(x) => requests[x] # <<>> /\ Head(requests[x]).seq = responses[i + 1].origin
        BY <3>4, <4>1 DEF ReplyInv, QueuesMatch
      <4> QED BY <3>1, <3>4, <4>1, <4>2, <4>3, <4>4
    <3>5. ASSUME NEW x \in Handlers \ crowded'
          PROVE  /\ Len(requests'[x]) <= 1
                 /\ requests'[x] # <<>> =>
                      \A p \in replies' : p.handler = x => p.seq < Head(requests'[x]).seq
      <4>1. CASE x = h
        <5>1. Len(q) <= 1
          BY <2>3, <4>1 DEF ReplyInv, QueuesMatch
        <5>2. Len(Tail(q)) <= 0
          BY <2>1, <5>1
        <5>3. Tail(q) = <<>>
          BY <2>1, <5>2, EmptySeq
        <5>4. requests'[x] = Tail(q)
          BY <2>2, <4>1
        <5>5. Len(Tail(q)) <= 1
          BY <2>1, <5>2
        <5> QED BY <5>3, <5>4, <5>5
      <4>2. CASE x # h
        <5>1. requests'[x] = requests[x] /\ x \in Handlers \ crowded
          BY <2>2, <2>3, <4>2
        <5>2. \A p \in replies' : p.handler = x => p \in replies
          BY <2>0, <2>6, <4>2
        <5> QED BY <5>1, <5>2 DEF ReplyInv, QueuesMatch
      <4> QED BY <4>1, <4>2
    <3> QED BY <2>3, <3>3, <3>4, <3>5 DEF QueuesMatch
  <2>11. \A p \in replies : Confused(p) => Confused(p)'
    BY <2>0, <2>3 DEF Confused
  <2>12. Confused(r)' \/ Clean(h)
    <3>1. CASE h \in crowded
      BY <2>3, <2>6, <3>1 DEF Confused
    <3>2. CASE h \notin crowded
      <4>1. SUFFICES ASSUME NEW p \in replies, p.handler = h, asked[p.origin].handler # h
                     PROVE  Confused(r)'
        BY <3>2 DEF Clean
      <4>2. p.seq < r.seq
        BY <1>2, <2>6, <3>2, <4>1 DEF ReplyInv, QueuesMatch
      <4>3. p \in replies' /\ asked'[p.origin].handler # p.handler /\ p.handler = r.handler
        BY <2>0, <2>3, <2>6, <4>1
      <4> QED BY <4>2, <4>3 DEF Confused
    <3> QED BY <3>1, <3>2
  <2>13. RepliesMatch'
    <3>1. ASSUME NEW p \in replies
          PROVE  LET a == asked'[p.origin]
                 IN  \/ p.handler = a.handler /\ p.seq = p.origin
                     \/ \E i \in DOMAIN asked' : /\ i # p.origin
                                                 /\ asked'[i].handler = p.handler
                                                 /\ asked'[i].device = a.device
                     \/ Confused(p)'
      BY <2>3, <2>11 DEF ReplyInv, RepliesMatch
    <3>2. \/ h = asked[s].handler /\ r.seq = s
          \/ \E i \in DOMAIN asked : /\ i # s /\ asked[i].handler = h
                                     /\ asked[i].device = asked[s].device
          \/ Confused(r)'
      <4>1. CASE asked[s].handler = h
        BY <2>6, <2>9, <2>12, <4>1
      <4>2. CASE asked[s].handler # h
        BY <4>2 DEF AskedFor
      <4> QED BY <4>1, <4>2
    <3> QED BY <2>0, <2>3, <2>6, <3>1, <3>2 DEF RepliesMatch
  <2>14. RepliesDurable'
    <3>1. ASSUME NEW p \in replies, p.user # None
          PROVE  LET d == asked'[p.origin].device
                 IN  storedDevice'[d] = p.user \/ d \in raced' \/ Confused(p)'
      BY <2>3, <2>11, <3>1 DEF ReplyInv, RepliesDurable
    <3>2. u # None => \/ storedDevice[asked[s].device] = u
                      \/ asked[s].device \in raced
                      \/ Confused(r)'
      BY <2>12 DEF Lasting
    <3> QED BY <2>0, <2>3, <2>6, <3>1, <3>2 DEF RepliesDurable
  <2> QED BY <2>7, <2>10, <2>13, <2>14
<1> QED BY <1>1, <1>2

\* A request arrives: nothing is known of its sequence id yet.
LEMMA ArrivesFacts ==
    ASSUME ReplyInv, NEW h \in Handlers, NEW d \in Devices \cup {None}, Arrives(h, d)
    PROVE  /\ nextSeq \in Nat /\ nextSeq = Len(asked) + 1 /\ DOMAIN asked = 1..Len(asked)
           /\ nextSeq \notin DOMAIN asked /\ nextSeq \in DOMAIN asked'
           /\ \A i \in DOMAIN asked : /\ i \in DOMAIN asked' /\ asked'[i] = asked[i]
                                      /\ i < nextSeq
           /\ asked'[nextSeq].handler = h /\ asked'[nextSeq].device = d
           /\ crowded \subseteq crowded'
           /\ h \notin crowded' => requests[h] = <<>>
           /\ \A x \in Handlers \ {h} : x \in crowded' <=> x \in crowded
           /\ DOMAIN Queued(h, d) = DOMAIN requests[h] \cup {Len(requests[h]) + 1}
           /\ \A k \in DOMAIN requests[h] : Queued(h, d)[k] = requests[h][k]
           /\ Queued(h, d)[Len(requests[h]) + 1] = [seq |-> nextSeq, device |-> d]
           /\ requests[h] = <<>> => /\ Len(Queued(h, d)) = 1
                                    /\ Head(Queued(h, d)).seq = nextSeq
           /\ Queued(h, d) # <<>>
<1> DEFINE a == [handler |-> h, device |-> d]
           q == [seq |-> nextSeq, device |-> d]
<1>1. /\ asked \in Seq([handler : Handlers, device : Devices \cup {None}])
      /\ a \in [handler : Handlers, device : Devices \cup {None}]
  BY DEF ReplyInv, IdInv, TypeInv, HistoryOK
<1>2. asked' = Append(asked, a) /\ a.handler = h /\ a.device = d
  BY DEF Arrives
<1>3. /\ Len(asked) \in Nat /\ nextSeq = Len(asked) + 1 /\ DOMAIN asked = 1..Len(asked)
      /\ DOMAIN asked' = 1..(Len(asked) + 1)
      /\ \A i \in DOMAIN asked : asked'[i] = asked[i]
      /\ asked'[Len(asked) + 1] = a
  <2> HIDE DEF a
  <2> QED BY <1>1, <1>2, AppendFacts DEF nextSeq
<1>4. /\ crowded' = IF requests[h] = <<>> THEN crowded ELSE crowded \cup {h}
      /\ requests[h] \in Seq(Request)
  BY DEF Arrives, ReplyInv, IdInv, TypeInv, ManagersOK
<1>5. q \in Request
  <2>1. nextSeq \in 1..MaxRequests
    BY <1>3, LoginAssumption DEF Arrives
  <2> QED BY <2>1 DEF Request
<1>6. /\ Queued(h, d) = Append(requests[h], q) /\ q.seq = nextSeq
      /\ Queued(h, d) # <<>> /\ Len(requests[h]) \in Nat
      /\ DOMAIN requests[h] = 1..Len(requests[h])
      /\ DOMAIN Queued(h, d) = 1..(Len(requests[h]) + 1)
      /\ \A k \in DOMAIN requests[h] : Queued(h, d)[k] = requests[h][k]
      /\ Queued(h, d)[Len(requests[h]) + 1] = q
      /\ Len(Queued(h, d)) = Len(requests[h]) + 1
      /\ Queued(h, d) \in Seq(Request)
  <2>1. Queued(h, d) = Append(requests[h], q) /\ q.seq = nextSeq
    BY DEF Queued
  <2> HIDE DEF q, nextSeq
  <2> QED BY <1>4, <1>5, <2>1, AppendFacts
<1>7. requests[h] = <<>> => Len(Queued(h, d)) = 1 /\ Head(Queued(h, d)).seq = nextSeq
  <2> SUFFICES ASSUME requests[h] = <<>>
               PROVE  Len(Queued(h, d)) = 1 /\ Head(Queued(h, d)).seq = nextSeq
    OBVIOUS
  <2>1. Len(requests[h]) = 0
    BY EmptySeq
  <2>2. Head(Queued(h, d)) = Queued(h, d)[1]
    BY <1>6, TailFacts
  <2> HIDE DEF q, nextSeq
  <2> QED BY <1>6, <2>1, <2>2
<1>8. /\ nextSeq \in Nat /\ nextSeq \notin DOMAIN asked /\ nextSeq \in DOMAIN asked'
      /\ \A i \in DOMAIN asked : i \in DOMAIN asked' /\ i < nextSeq
  BY <1>3
<1>9. DOMAIN Queued(h, d) = DOMAIN requests[h] \cup {Len(requests[h]) + 1}
  BY <1>6
<1> HIDE DEF nextSeq, q, a
<1>10. /\ crowded \subseteq crowded'
       /\ h \notin crowded' => requests[h] = <<>>
       /\ \A x \in Handlers \ {h} : x \in crowded' <=> x \in crowded
  BY <1>4
<1>11. asked'[nextSeq].handler = h /\ asked'[nextSeq].device = d
  BY <1>2, <1>3
<1> QED BY <1>3, <1>6, <1>7, <1>8, <1>9, <1>10, <1>11 DEF q

\* What is worked on does not depend on the requests that arrive, and what was
\* answered stays so.
LEMMA ArrivalKeepsWork ==
    ASSUME ReplyInv, NEW h \in Handlers, NEW d \in Devices \cup {None}, Arrives(h, d),
           DOMAIN commands \subseteq DOMAIN commands',
           \A i \in DOMAIN commands : commands'[i] = commands[i],
           \A i \in DOMAIN commands' \ DOMAIN commands :
             /\ i = Len(commands) + 1
             /\ commands'[i].op = "getDevice" /\ commands'[i].origin = nextSeq,
           replies \subseteq replies',
           \A r \in replies' \ replies :
             r.handler = h /\ r.seq = nextSeq /\ r.origin = nextSeq /\ r.user = None
    PROVE  /\ WorkedOnOnce' /\ PendingBelowGlobal' /\ OneDeviceEach' /\ LoginsFollowed'
           /\ RegistrationsKept' /\ UsersLast'
           /\ RepliesMatch' /\ RepliesDurable'
<1>1. /\ responses' = responses /\ storedDevice' = storedDevice
      /\ storedGlobal' = storedGlobal /\ raced' = raced
      /\ userToHandler' = userToHandler
  BY DEF Arrives, redis
<1>2. /\ \A i \in DOMAIN asked : i \in DOMAIN asked' /\ asked'[i] = asked[i]
      /\ crowded \subseteq crowded' /\ nextSeq \notin DOMAIN asked
      /\ asked'[nextSeq].handler = h
  BY ArrivesFacts
<1> DEFINE n == Len(commands) + 1
<1> HIDE DEF nextSeq
<1>3. /\ \A i \in DOMAIN commands' :
           \/ i \in DOMAIN commands /\ commands'[i] = commands[i]
           \/ /\ i = n /\ i \notin DOMAIN commands
              /\ commands'[i].op = "getDevice" /\ commands'[i].origin = nextSeq
      /\ \A i \in DOMAIN commands : i # 1 => /\ i - 1 \in DOMAIN commands
                                             /\ commands'[i - 1] = commands[i - 1]
  <2>1. DOMAIN commands = 1..Len(commands) /\ Len(commands) \in Nat
    BY LenProperties DEF ReplyInv, IdInv, TypeInv, MessagesOK
  <2> QED BY <2>1
<1> HIDE DEF n
<1>4. \A i \in DOMAIN commands : commands[i].op \in Work =>
        /\ asked'[commands[i].origin] = asked[commands[i].origin]
        /\ commands[i].origin # nextSeq
  BY <1>2 DEF ReplyInv, OriginsKnown
<1>5. \A i \in DOMAIN responses : responses[i].op \in Work =>
        /\ asked'[responses[i].origin] = asked[responses[i].origin]
        /\ responses[i].origin # nextSeq
  BY <1>2 DEF ReplyInv, OriginsKnown
<1>6. WorkedOnOnce'
  BY <1>1, <1>3, <1>4, <1>5 DEF ReplyInv, WorkedOnOnce
<1>7. PendingBelowGlobal'
  BY <1>1, <1>3 DEF ReplyInv, PendingBelowGlobal
<1>8. OneDeviceEach'
  <2>1. \A u \in Users, e \in Devices : UserOf(u, e)' => UserOf(u, e)
    BY <1>1, <1>3, <1>4, <1>5 DEF UserOf, Work
  <2> QED BY <2>1 DEF ReplyInv, OneDeviceEach
<1>9. LoginsFollowed'
  <2>1. \A x, e : AskedFor(x, e) => AskedFor(x, e)'
    BY <1>2 DEF AskedFor
  <2> HIDE DEF AskedFor
  <2> QED BY <1>1, <1>3, <1>4, <1>5, <2>1 DEF ReplyInv, LoginsFollowed, Work
<1>10. RegistrationsKept'
  BY <1>1, <1>3, <1>4, <1>5 DEF ReplyInv, RegistrationsKept, Work
<1>11. UsersLast'
  <2>1. \A x : Clean(x)' => Clean(x)
    BY <1>2 DEF ReplyInv, Clean, OriginsKnown
  <2>2. \A k \in DOMAIN asked : \A u : Lasting(k, u) => Lasting(k, u)'
    BY <1>1, <1>2 DEF Lasting
  <2>3. /\ \A i \in DOMAIN commands : commands[i].op \in Work =>
             commands[i].origin \in DOMAIN asked
        /\ \A i \in DOMAIN responses : responses[i].op \in Work =>
             responses[i].origin \in DOMAIN asked
    BY DEF ReplyInv, OriginsKnown
  <2> HIDE DEF Lasting, Clean
  <2>4. ASSUME NEW i \in DOMAIN commands' PROVE CommandLasts(i)'
    BY <1>3, <1>4, <2>1, <2>2, <2>3 DEF ReplyInv, UsersLast, CommandLasts, Work
  <2>5. ASSUME NEW i \in DOMAIN responses' PROVE ResponseLasts(i)'
    BY <1>1, <1>5, <2>1, <2>2, <2>3 DEF ReplyInv, UsersLast, ResponseLasts, Work
  <2>6. RacesKnown'
    BY <1>1, <1>3 DEF ReplyInv, UsersLast, RacesKnown
  <2> QED BY <2>4, <2>5, <2>6 DEF UsersLast
<1>12. RepliesMatch' /\ RepliesDurable'
  BY <1>1, <1>2, RepliesStay DEF ReplyInv
<1> QED BY <1>6, <1>7, <1>8, <1>9, <1>10, <1>11, <1>12

\* The queue of a connection that waited for its answers holds the new request
\* alone, or nothing when its parameters were bad.
LEMMA ArrivalKeepsQueues ==
    ASSUME ReplyInv, NEW h \in Handlers, NEW d \in Devices \cup {None}, Arrives(h, d),
           DOMAIN commands \subseteq DOMAIN commands',
           \A i \in DOMAIN commands : commands'[i] = commands[i],
           \A i \in DOMAIN commands' \ DOMAIN commands :
             /\ commands'[i].op = "getDevice" /\ commands'[i].origin = nextSeq
             /\ commands'[i].key = h /\ commands'[i].val = d /\ d \in Devices
             /\ requests'[h] # <<>>,
           replies \subseteq replies',
           \A r \in replies' \ replies :
             /\ r.handler = h /\ r.seq = nextSeq /\ r.origin = nextSeq
             /\ r.user = None /\ h \in crowded',
           \A x \in Handlers \ {h} : requests'[x] = requests[x],
           \A k \in DOMAIN requests'[h] :
             \/ \E j \in DOMAIN requests[h] : requests'[h][k] = requests[h][j]
             \/ requests'[h][k] = [seq |-> nextSeq, device |-> d],
           h \notin crowded' =>
             \/ requests'[h] = <<>>
             \/ Len(requests'[h]) = 1 /\ Head(requests'[h]).seq = nextSeq
    PROVE  OriginsKnown' /\ QueuesMatch'
<1>0. ASSUME NEW k \in DOMAIN asked PROVE asked[k].handler \in Handlers
  <2>1. asked \in Seq([handler : Handlers, device : Devices \cup {None}])
    BY DEF ReplyInv, IdInv, TypeInv, HistoryOK
  <2>2. asked[k] \in [handler : Handlers, device : Devices \cup {None}]
    BY <2>1, MemberFacts
  <2> QED BY <2>2
<1>1. /\ nextSeq \in Nat
      /\ nextSeq \notin DOMAIN asked /\ nextSeq \in DOMAIN asked'
      /\ \A i \in DOMAIN asked : /\ i \in DOMAIN asked' /\ asked'[i] = asked[i]
                                 /\ i < nextSeq
      /\ asked'[nextSeq].handler = h /\ asked'[nextSeq].device = d
      /\ crowded \subseteq crowded'
      /\ h \notin crowded' => requests[h] = <<>>
      /\ \A x \in Handlers \ {h} : x \in crowded' <=> x \in crowded
      /\ responses' = responses
  BY ArrivesFacts DEF Arrives
<1> HIDE DEF nextSeq
<1>2. OriginsKnown'
  <2>1. ASSUME NEW x \in Handlers, NEW k \in DOMAIN requests'[x]
        PROVE  LET p == requests'[x][k]
               IN  /\ p.seq \in DOMAIN asked'
                   /\ asked'[p.seq].handler = x /\ asked'[p.seq].device = p.device
    <3>1. ASSUME NEW j \in DOMAIN requests[x], requests'[x][k] = requests[x][j]
          PROVE  LET p == requests'[x][k]
                 IN  /\ p.seq \in DOMAIN asked'
                     /\ asked'[p.seq].handler = x /\ asked'[p.seq].device = p.device
      BY <1>1, <3>1 DEF ReplyInv, OriginsKnown
    <3>2. CASE x = h /\ requests'[h][k] = [seq |-> nextSeq, device |-> d]
      BY <1>1, <3>2
    <3> QED BY <3>1, <3>2
  <2>2. ASSUME NEW i \in DOMAIN commands'
        PROVE  /\ commands'[i].op \in Work =>
                    /\ commands'[i].origin \in DOMAIN asked'
                    /\ asked'[commands'[i].origin].device \in Devices
               /\ commands'[i].op = "getDevice" =>
                    /\ commands'[i].key = asked'[commands'[i].origin].handler
                    /\ commands'[i].val = asked'[commands'[i].origin].device
    <3>1. CASE i \in DOMAIN commands
      BY <1>1, <3>1 DEF ReplyInv, OriginsKnown, Work
    <3>2. CASE i \notin DOMAIN commands
      BY <1>1, <3>2
    <3> QED BY <3>1, <3>2
  <2>3. \A i \in DOMAIN responses :
          /\ responses[i].op \in Work =>
               /\ responses[i].origin \in DOMAIN asked'
               /\ asked'[responses[i].origin].device \in Devices
          /\ responses[i].op = "getDevice" =>
               responses[i].key = asked'[responses[i].origin].handler
    BY <1>1 DEF ReplyInv, OriginsKnown, Work
  <2>4. \A r \in replies' :
          /\ r.handler \in Handlers
          /\ r.origin \in DOMAIN asked' /\ r.seq \in DOMAIN asked'
          /\ r.user # None => asked'[r.origin].device \in Devices
    BY <1>1 DEF ReplyInv, OriginsKnown
  <2> QED BY <1>1, <2>1, <2>2, <2>3, <2>4 DEF OriginsKnown
<1>3. QueuesMatch'
  <2>0. \A x \in Handlers : Clean(x)' =>
          Clean(x) /\ (x = h => requests[h] = <<>> /\ h \notin crowded')
    BY <1>1 DEF ReplyInv, Clean, OriginsKnown
  <2>1. ASSUME NEW o \in DOMAIN asked, NEW x \in Handlers, Clean(x)',
               Clean(x) => requests[x] # <<>> /\ Head(requests[x]).seq = o
        PROVE  requests'[x] # <<>> /\ Head(requests'[x]).seq = o
    BY <2>0, <2>1
  <2>2. ASSUME NEW i \in DOMAIN commands', commands'[i].op \in Work,
               NEW x, x = asked'[commands'[i].origin].handler, Clean(x)'
        PROVE  requests'[x] # <<>> /\ Head(requests'[x]).seq = commands'[i].origin
    <3>1. CASE i \in DOMAIN commands
      <4>1. /\ commands'[i] = commands[i] /\ commands[i].origin \in DOMAIN asked
            /\ x = asked[commands[i].origin].handler
        BY <1>1, <2>2, <3>1 DEF ReplyInv, OriginsKnown
      <4>2. x \in Handlers
        BY <1>0, <4>1
      <4>3. Clean(x) => requests[x] # <<>> /\ Head(requests[x]).seq = commands[i].origin
        BY <2>2, <3>1, <4>1 DEF ReplyInv, QueuesMatch
      <4> QED BY <2>1, <2>2, <4>1, <4>2, <4>3
    <3>2. CASE i \notin DOMAIN commands
      <4>1. x = h /\ commands'[i].origin = nextSeq /\ requests'[h] # <<>>
        BY <1>1, <2>2, <3>2
      <4>2. h \notin crowded'
        BY <2>0, <2>2, <4>1
      <4> QED BY <4>1, <4>2
    <3> QED BY <3>1, <3>2
  <2>3. ASSUME NEW i \in DOMAIN responses, responses[i].op \in Work,
               NEW x, x = asked'[responses[i].origin].handler, Clean(x)'
        PROVE  requests'[x] # <<>> /\ Head(requests'[x]).seq = responses[i].origin
    <3>1. /\ responses[i].origin \in DOMAIN asked
          /\ x = asked[responses[i].origin].handler
      BY <1>1, <2>3 DEF ReplyInv, OriginsKnown
    <3>2. x \in Handlers
      BY <1>0, <3>1
    <3>3. Clean(x) => requests[x] # <<>> /\ Head(requests[x]).seq = responses[i].origin
      BY <2>3, <3>1 DEF ReplyInv, QueuesMatch
    <3> QED BY <2>1, <2>3, <3>1, <3>2, <3>3
  <2>4. ASSUME NEW x \in Handlers \ crowded'
        PROVE  /\ Len(requests'[x]) <= 1
               /\ requests'[x] # <<>> =>
                    \A p \in replies' : p.handler = x => p.seq < Head(requests'[x]).seq
    <3>1. CASE x = h
      <4>1. CASE requests'[h] = <<>>
        <5>1. Len(<<>>) = 0
          OBVIOUS
        <5> QED BY <3>1, <4>1, <5>1
      <4>2. CASE Len(requests'[h]) = 1 /\ Head(requests'[h]).seq = nextSeq
        <5>1. \A p \in replies' : p.seq < nextSeq
          BY <1>1, <2>4, <3>1 DEF ReplyInv, OriginsKnown
        <5> QED BY <3>1, <4>2, <5>1
      <4> QED BY <2>4, <3>1, <4>1, <4>2
    <3>2. CASE x # h
      <4>1. x \in Handlers \ crowded /\ requests'[x] = requests[x]
        BY <1>1, <3>2
      <4>2. \A p \in replies' : p.handler = x => p \in replies
        BY <3>2
      <4> QED BY <4>1, <4>2 DEF ReplyInv, QueuesMatch
    <3> QED BY <3>1, <3>2
  <2> QED BY <1>1, <2>2, <2>3, <2>4 DEF QueuesMatch
<1> QED BY <1>2, <1>3

LEMMA RequestReplies ==
    ASSUME ReplyInv, IdInv', NEW h \in Handlers,
           \/ \E d \in Devices : LoginDirect(h, d)
           \/ LoginBadParameters(h) \/ LoginParametersRaise(h) \/ OtherEvent(h)
    PROVE  ReplyInv'
<1>0. requests \in [Handlers -> Seq(Request)]
  BY DEF ReplyInv, IdInv, TypeInv, ManagersOK
<1>q. ASSUME NEW d \in Devices \cup {None}, Arrives(h, d)
      PROVE  /\ \A k \in DOMAIN Queued(h, d) :
                  \/ \E j \in DOMAIN requests[h] : Queued(h, d)[k] = requests[h][j]
                  \/ Queued(h, d)[k] = [seq |-> nextSeq, device |-> d]
             /\ h \notin crowded' => Len(Queued(h, d)) = 1 /\ Head(Queued(h, d)).seq = nextSeq
             /\ h \notin crowded' => requests[h] = <<>>
             /\ Queued(h, d) # <<>> /\ Queued(h, d) \in Seq(Request)
  <2>1. Queued(h, d) \in Seq(Request)
    BY <1>q, ArrivesTypes DEF ReplyInv, IdInv
  <2>2. /\ DOMAIN Queued(h, d) = DOMAIN requests[h] \cup {Len(requests[h]) + 1}
        /\ \A k \in DOMAIN requests[h] : Queued(h, d)[k] = requests[h][k]
    <3>1. DOMAIN Queued(h, d) = DOMAIN requests[h] \cup {Len(requests[h]) + 1}
      BY <1>q, ArrivesFacts
    <3>2. ASSUME NEW k \in DOMAIN requests[h] PROVE Queued(h, d)[k] = requests[h][k]
      <4> DEFINE q == [seq |-> nextSeq, device |-> d]
      <4>1. q \in Request
        <5>1. nextSeq \in 1..MaxRequests
          BY <1>q, ArrivesTypes DEF ReplyInv, IdInv
        <5> QED BY <5>1 DEF Request
      <4>2. requests[h] \in Seq(Request)
        BY <1>0
      <4> HIDE DEF q
      <4>3. Append(requests[h], q)[k] = requests[h][k]
        BY <4>1, <4>2, AppendFacts
      <4> QED BY <4>3 DEF Queued, q
    <3> QED BY <3>1, <3>2
  <2>3. Queued(h, d)[Len(requests[h]) + 1] = [seq |-> nextSeq, device |-> d]
    BY <1>q, ArrivesFacts
  <2>4. h \notin crowded' => requests[h] = <<>>
    BY <1>q, ArrivesFacts
  <2>5. requests[h] = <<>> => Len(Queued(h, d)) = 1 /\ Head(Queued(h, d)).seq = nextSeq
    BY <1>q, ArrivesFacts
  <2>6. Queued(h, d) # <<>>
    BY <1>q, ArrivesFacts
  <2> QED BY <2>1, <2>2, <2>3, <2>4, <2>5, <2>6
<1>1. ASSUME NEW d \in Devices, LoginDirect(h, d) PROVE ReplyInv'
  <2> DEFINE c == Command("getDevice", h, d, nextSeq)
             q == Queued(h, d)
  <2>1. /\ Arrives(h, d)
        /\ requests' = [requests EXCEPT ![h] = q]
        /\ commands' = Append(commands, c)
        /\ replies' = replies
    BY <1>1 DEF LoginDirect
  <2>2. /\ \A k \in DOMAIN q : \/ \E j \in DOMAIN requests[h] : q[k] = requests[h][j]
                               \/ q[k] = [seq |-> nextSeq, device |-> d]
        /\ h \notin crowded' => Len(q) = 1 /\ Head(q).seq = nextSeq
        /\ q # <<>>
    BY <1>q, <2>1
  <2>3. /\ c.op = "getDevice" /\ c.key = h /\ c.val = d /\ c.origin = nextSeq
        /\ c \in Messages
    <3>1. nextSeq \in Nat
      BY <2>1, ArrivesFacts
    <3> QED BY <3>1 DEF Command, Messages, Ops
  <2> HIDE DEF c, q, nextSeq
  <2>4. /\ Len(commands) \in Nat /\ DOMAIN commands = 1..Len(commands)
        /\ DOMAIN commands' = 1..(Len(commands) + 1)
        /\ \A i \in DOMAIN commands : commands'[i] = commands[i]
        /\ commands'[Len(commands) + 1] = c
    BY <2>1, <2>3, AppendFacts DEF ReplyInv, IdInv, TypeInv, MessagesOK
  <2>5. /\ DOMAIN commands \subseteq DOMAIN commands'
        /\ \A i \in DOMAIN commands' \ DOMAIN commands :
             i = Len(commands) + 1 /\ commands'[i] = c
    BY <2>4
  <2>6. /\ WorkedOnOnce' /\ PendingBelowGlobal' /\ OneDeviceEach' /\ LoginsFollowed'
        /\ RegistrationsKept' /\ UsersLast'
        /\ RepliesMatch' /\ RepliesDurable'
    BY <2>1, <2>3, <2>4, <2>5, ArrivalKeepsWork
  <2>7. /\ requests'[h] = q
        /\ \A x \in Handlers \ {h} : requests'[x] = requests[x]
    BY <1>0, <2>1
  <2>8. OriginsKnown' /\ QueuesMatch'
    <3>1. \A i \in DOMAIN commands' \ DOMAIN commands :
            /\ commands'[i].op = "getDevice" /\ commands'[i].origin = nextSeq
            /\ commands'[i].key = h /\ commands'[i].val = d /\ d \in Devices
            /\ requests'[h] # <<>>
      BY <2>2, <2>3, <2>5, <2>7
    <3>2. /\ \A k \in DOMAIN requests'[h] :
               \/ \E j \in DOMAIN requests[h] : requests'[h][k] = requests[h][j]
               \/ requests'[h][k] = [seq |-> nextSeq, device |-> d]
          /\ h \notin crowded' => Len(requests'[h]) = 1 /\ Head(requests'[h]).seq = nextSeq
      BY <2>2, <2>7
    <3> QED BY <2>1, <2>4, <2>5, <2>7, <3>1, <3>2, ArrivalKeepsQueues
  <2> QED BY <2>6, <2>8 DEF ReplyInv
<1>2. ASSUME OtherEvent(h) PROVE ReplyInv'
  <2> DEFINE q == Queued(h, None)
  <2>1. /\ Arrives(h, None)
        /\ requests' = [requests EXCEPT ![h] = q]
        /\ commands' = commands /\ replies' = replies
    BY <1>2 DEF OtherEvent
  <2>2. /\ \A k \in DOMAIN q : \/ \E j \in DOMAIN requests[h] : q[k] = requests[h][j]
                               \/ q[k] = [seq |-> nextSeq, device |-> None]
        /\ h \notin crowded' => Len(q) = 1 /\ Head(q).seq = nextSeq
    BY <1>q, <2>1
  <2> HIDE DEF q, nextSeq
  <2>3. /\ WorkedOnOnce' /\ PendingBelowGlobal' /\ OneDeviceEach' /\ LoginsFollowed'
        /\ RegistrationsKept' /\ UsersLast'
        /\ RepliesMatch' /\ RepliesDurable'
    BY <2>1, ArrivalKeepsWork
  <2>4. /\ requests'[h] = q
        /\ \A x \in Handlers \ {h} : requests'[x] = requests[x]
    BY <1>0, <2>1
  <2>5. OriginsKnown' /\ QueuesMatch'
    BY <2>1, <2>2, <2>4, ArrivalKeepsQueues
  <2> QED BY <2>3, <2>5 DEF ReplyInv
<1>3. ASSUME LoginBadParameters(h) PROVE ReplyInv'
  <2> DEFINE q == Queued(h, None)
             t == Tail(q)
             r == [handler |-> h, seq |-> nextSeq, user |-> None, origin |-> nextSeq]
  <2>1. /\ Arrives(h, None)
        /\ SendToGateway(h, nextSeq, None, nextSeq, t)
        /\ commands' = commands
    BY <1>3 DEF LoginBadParameters
  <2>2. /\ \A k \in DOMAIN q : \/ \E j \in DOMAIN requests[h] : q[k] = requests[h][j]
                               \/ q[k] = [seq |-> nextSeq, device |-> None]
        /\ h \notin crowded' => Len(q) = 1
        /\ q # <<>> /\ q \in Seq(Request)
    BY <1>q, <2>1
  <2>3. CASE t = <<>>
    <3>1. requests' = [requests EXCEPT ![h] = <<>>] /\ replies' = replies
      BY <2>1, <2>3 DEF SendToGateway
    <3>2. /\ requests'[h] = <<>>
          /\ \A x \in Handlers \ {h} : requests'[x] = requests[x]
          /\ DOMAIN requests'[h] = {}
      BY <1>0, <3>1
    <3> HIDE DEF q, t, r, nextSeq
    <3>3. /\ WorkedOnOnce' /\ PendingBelowGlobal' /\ OneDeviceEach' /\ LoginsFollowed'
          /\ RegistrationsKept' /\ UsersLast'
          /\ RepliesMatch' /\ RepliesDurable'
      BY <2>1, <3>1, ArrivalKeepsWork
    <3>4. OriginsKnown' /\ QueuesMatch'
      BY <2>1, <3>1, <3>2, ArrivalKeepsQueues
    <3> QED BY <3>3, <3>4 DEF ReplyInv
  <2>4. CASE t # <<>>
    <3>1. requests' = [requests EXCEPT ![h] = Tail(t)] /\ replies' = replies \cup {r}
      BY <2>1, <2>4 DEF SendToGateway
    <3>2. r.handler = h /\ r.seq = nextSeq /\ r.origin = nextSeq /\ r.user = None
      OBVIOUS
    <3>3. /\ requests'[h] = Tail(t)
          /\ \A x \in Handlers \ {h} : requests'[x] = requests[x]
      BY <1>0, <3>1
    <3> HIDE DEF q, t, r, nextSeq
    <3>4. /\ t \in Seq(Request) /\ Len(t) = Len(q) - 1
          /\ \A k \in DOMAIN t : k + 1 \in DOMAIN q /\ t[k] = q[k + 1]
      BY <2>2, TailFacts DEF t
    <3>5. /\ Len(t) \in Nat /\ Len(t) # 0
          /\ \A k \in DOMAIN Tail(t) : k + 1 \in DOMAIN t /\ Tail(t)[k] = t[k + 1]
      BY <2>4, <3>4, TailFacts, EmptySeq
    <3>6. h \in crowded'
      BY <2>2, <3>4, <3>5
    <3>7. \A k \in DOMAIN requests'[h] : \E j \in DOMAIN q : requests'[h][k] = q[j]
      BY <3>3, <3>4, <3>5
    <3>8. /\ WorkedOnOnce' /\ PendingBelowGlobal' /\ OneDeviceEach' /\ LoginsFollowed'
          /\ RegistrationsKept' /\ UsersLast'
          /\ RepliesMatch' /\ RepliesDurable'
      BY <2>1, <3>1, <3>2, ArrivalKeepsWork
    <3>9. \A k \in DOMAIN requests'[h] :
            \/ \E j \in DOMAIN requests[h] : requests'[h][k] = requests[h][j]
            \/ requests'[h][k] = [seq |-> nextSeq, device |-> None]
      BY <2>2, <3>7
    <3>10. OriginsKnown' /\ QueuesMatch'
      BY <2>1, <3>1, <3>2, <3>3, <3>6, <3>9, ArrivalKeepsQueues
    <3> QED BY <3>8, <3>10 DEF ReplyInv
  <2> QED BY <2>3, <2>4
<1>4. ASSUME LoginParametersRaise(h) PROVE ReplyInv'
  <2> DEFINE q == Queued(h, None)
             t == Tail(q)
  <2>1. /\ Arrives(h, None)
        /\ requests' = [requests EXCEPT ![h] = t]
        /\ commands' = commands /\ replies' = replies
    BY <1>4 DEF LoginParametersRaise
  <2>2. /\ \A k \in DOMAIN q : \/ \E j \in DOMAIN requests[h] : q[k] = requests[h][j]
                               \/ q[k] = [seq |-> nextSeq, device |-> None]
        /\ h \notin crowded' => Len(q) = 1
        /\ q # <<>> /\ q \in Seq(Request)
    BY <1>q, <2>1
  <2>3. /\ requests'[h] = t
        /\ \A x \in Handlers \ {h} : requests'[x] = requests[x]
    BY <1>0, <2>1
  <2> HIDE DEF q, t, nextSeq
  <2>4. /\ t \in Seq(Request) /\ Len(t) = Len(q) - 1
        /\ \A k \in DOMAIN t : k + 1 \in DOMAIN q /\ t[k] = q[k + 1]
    BY <2>2, TailFacts DEF t
  <2>5. h \notin crowded' => requests'[h] = <<>>
    BY <2>2, <2>3, <2>4, EmptySeq
  <2>6. \A k \in DOMAIN requests'[h] :
          \/ \E j \in DOMAIN requests[h] : requests'[h][k] = requests[h][j]
          \/ requests'[h][k] = [seq |-> nextSeq, device |-> None]
    BY <2>2, <2>3, <2>4
  <2>7. /\ WorkedOnOnce' /\ PendingBelowGlobal' /\ OneDeviceEach' /\ LoginsFollowed'
        /\ RegistrationsKept' /\ UsersLast'
        /\ RepliesMatch' /\ RepliesDurable'
    BY <2>1, ArrivalKeepsWork
  <2>8. OriginsKnown' /\ QueuesMatch'
    BY <2>1, <2>3, <2>5, <2>6, ArrivalKeepsQueues
  <2> QED BY <2>7, <2>8 DEF ReplyInv
<1> QED BY <1>1, <1>2, <1>3, <1>4

LEMMA OriginsKnownNext ==
    ASSUME OriginsKnown, UNCHANGED <<asked, requests, replies>>,
           \A i \in DOMAIN commands' :
             /\ commands'[i].op \in Work => /\ commands'[i].origin \in DOMAIN asked
                                            /\ asked[commands'[i].origin].device \in Devices
             /\ commands'[i].op = "getDevice" =>
                  /\ commands'[i].key = asked[commands'[i].origin].handler
                  /\ commands'[i].val = asked[commands'[i].origin].device,
           \A i \in DOMAIN responses' :
             /\ responses'[i].op \in Work => /\ responses'[i].origin \in DOMAIN asked
                                             /\ asked[responses'[i].origin].device \in Devices
             /\ responses'[i].op = "getDevice" =>
                  responses'[i].key = asked[responses'[i].origin].handler
    PROVE  OriginsKnown'
  BY DEF OriginsKnown

\* QueuesMatch after a step, one message at a time.
LEMMA QueuesMatchNext ==
    ASSUME \A x : \A i \in DOMAIN commands' :
             (/\ commands'[i].op \in Work /\ x = asked'[commands'[i].origin].handler
              /\ Clean(x)')
               => requests'[x] # <<>> /\ Head(requests'[x]).seq = commands'[i].origin,
           \A x : \A i \in DOMAIN responses' :
             (/\ responses'[i].op \in Work /\ x = asked'[responses'[i].origin].handler
              /\ Clean(x)')
               => requests'[x] # <<>> /\ Head(requests'[x]).seq = responses'[i].origin,
           \A x \in Handlers \ crowded' :
             /\ Len(requests'[x]) <= 1
             /\ requests'[x] # <<>> =>
                  \A q \in replies' : q.handler = x => q.seq < Head(requests'[x]).seq
    PROVE  QueuesMatch'
  BY DEF QueuesMatch

\* Redis executes the first command: who asked, and for which device, goes along
\* with it, and a device that is registered once gets its user for good.
LEMMA RedisReplies ==
    ASSUME ReplyInv, IdInv', RedisExecutes
    PROVE  ReplyInv'
<1> PICK c : c = Head(commands)
  OBVIOUS
<1> PICK r : r = Command(c.op, c.key, Read(c), c.origin)
  OBVIOUS
<1> PICK n : n = Len(responses) + 1
  OBVIOUS
<1>0. /\ c = commands[1] /\ 1 \in DOMAIN commands /\ CommandOK(c)
      /\ DOMAIN commands' \subseteq Nat /\ DOMAIN responses \subseteq Nat
      /\ \A i \in DOMAIN commands' : /\ i + 1 \in DOMAIN commands /\ i + 1 # 1
                                     /\ commands'[i] = commands[i + 1]
                                     /\ i # 1 => /\ i - 1 \in DOMAIN commands'
                                                 /\ commands'[i - 1] = commands[i]
                                     /\ (i + 1) - 1 = i
      /\ n \notin DOMAIN responses /\ \A i \in DOMAIN responses : i < n
  <2>1. commands \in Seq(Messages) /\ commands # <<>> /\ commands' = Tail(commands)
    BY DEF RedisExecutes, ReplyInv, IdInv, TypeInv, MessagesOK
  <2>2. /\ DOMAIN commands = 1..Len(commands) /\ Len(commands) \in Nat
        /\ DOMAIN commands' = 1..(Len(commands) - 1)
        /\ \A i \in DOMAIN commands' : commands'[i] = commands[i + 1]
        /\ Head(commands) = commands[1] /\ 1 \in DOMAIN commands
    BY <2>1, TailFacts
  <2>3. CommandOK(c)
    BY <2>2 DEF ReplyInv, IdInv, TypeInv, MessagesOK
  <2>4. DOMAIN responses = 1..Len(responses) /\ Len(responses) \in Nat
    BY LenProperties DEF ReplyInv, IdInv, TypeInv, MessagesOK
  <2> QED BY <2>2, <2>3, <2>4
<1>1. /\ storedGlobal' = IF c.op = "setGlobal" THEN c.val ELSE storedGlobal
      /\ storedDevice' = IF c.op = "setDevice"
                         THEN [storedDevice EXCEPT ![c.key] = c.val] ELSE storedDevice
      /\ responses' = IF c.op \in {"setGlobal", "setDevice"} THEN responses
                      ELSE Append(responses, r)
      /\ userToHandler' = userToHandler /\ requests' = requests
      /\ asked' = asked /\ crowded' = crowded /\ replies' = replies /\ raced' = raced
  BY DEF RedisExecutes, lua, past
<1>2. r.op = c.op /\ r.key = c.key /\ r.origin = c.origin /\ r.val = Read(c)
  BY DEF Command
<1>3. \A i \in DOMAIN responses' :
        \/ i \in DOMAIN responses /\ responses'[i] = responses[i]
        \/ /\ i = n /\ responses'[i] = r
           /\ c.op \notin {"setGlobal", "setDevice"}
  <2>1. responses \in Seq(Messages) /\ responses' \in Seq(Messages)
    BY DEF ReplyInv, IdInv, TypeInv, MessagesOK
  <2>2. CASE c.op \in {"setGlobal", "setDevice"}
    BY <1>1, <2>2
  <2>3. CASE c.op \notin {"setGlobal", "setDevice"}
    <3>1. responses' = Append(responses, r)
      BY <1>1, <2>3
    <3>2. /\ Len(responses) \in Nat /\ DOMAIN responses = 1..Len(responses)
          /\ DOMAIN responses' = 1..Len(responses')
      BY <2>1, LenProperties
    <3>3. Len(responses') = Len(responses) + 1
      BY <3>1, <2>1
    <3> QED BY <2>1, <2>3, <3>1, <3>2, <3>3
  <2> QED BY <2>2, <2>3
<1>4. c.op = "getDevice" =>
        /\ c.key = asked[c.origin].handler
        /\ c.val = asked[c.origin].device /\ c.val \in Devices
        /\ r.val = storedDevice[c.val]
  BY <1>0, <1>2 DEF ReplyInv, OriginsKnown, Read, CommandOK
<1>5. storedGlobal # None =>
        /\ storedGlobal' # None
        /\ \A u \in Nat : u < storedGlobal => u < storedGlobal'
  <2>1. /\ storedGlobal \in Nat \cup {None} /\ None \notin Nat
        /\ c.op = "setGlobal" => c.val \in Nat
    BY <1>0, LoginAssumption DEF ReplyInv, IdInv, TypeInv, StoredOK, CommandOK
  <2>2. (c.op = "setGlobal" /\ storedGlobal # None) => storedGlobal <= c.val
    BY <1>0 DEF ReplyInv, IdInv, CountersGrow
  <2> QED BY <1>1, <2>1, <2>2
<1>6. /\ \A x \in Devices : storedDevice'[x] =
           IF c.op = "setDevice" /\ x = c.key THEN c.val ELSE storedDevice[x]
      /\ Users \subseteq Nat /\ None \notin Nat
  BY <1>1, LoginAssumption DEF ReplyInv, IdInv, TypeInv, StoredOK, Users, Default
<1>7. OriginsKnown'
  <2>1. ASSUME NEW i \in DOMAIN commands'
        PROVE  /\ commands'[i].op \in Work =>
                    /\ commands'[i].origin \in DOMAIN asked
                    /\ asked[commands'[i].origin].device \in Devices
               /\ commands'[i].op = "getDevice" =>
                    /\ commands'[i].key = asked[commands'[i].origin].handler
                    /\ commands'[i].val = asked[commands'[i].origin].device
    <3>1. i + 1 \in DOMAIN commands /\ commands[i + 1] = commands'[i]
      BY <1>0
    <3> QED BY <3>1 DEF ReplyInv, OriginsKnown
  <2>2. ASSUME NEW i \in DOMAIN responses'
        PROVE  /\ responses'[i].op \in Work =>
                    /\ responses'[i].origin \in DOMAIN asked
                    /\ asked[responses'[i].origin].device \in Devices
               /\ responses'[i].op = "getDevice" =>
                    responses'[i].key = asked[responses'[i].origin].handler
    <3>1. CASE i \in DOMAIN responses /\ responses'[i] = responses[i]
      BY <3>1 DEF ReplyInv, OriginsKnown
    <3>2. CASE responses'[i] = r
      <4>1. c.op \in Work => c.origin \in DOMAIN asked /\ asked[c.origin].device \in Devices
        BY <1>0 DEF ReplyInv, OriginsKnown
      <4> QED BY <1>2, <1>4, <3>2, <4>1
    <3> QED BY <1>3, <3>1, <3>2
  <2> QED BY <1>1, <2>1, <2>2, OriginsKnownNext DEF ReplyInv
<1>8. WorkedOnOnce'
  <2>1. ASSUME NEW i \in DOMAIN commands', NEW j \in DOMAIN commands', i # j,
               commands'[i].op \in Work, commands'[j].op \in Work
        PROVE  commands'[i].origin # commands'[j].origin
    <3>1. /\ i + 1 \in DOMAIN commands /\ commands[i + 1] = commands'[i]
          /\ j + 1 \in DOMAIN commands /\ commands[j + 1] = commands'[j]
          /\ i + 1 # j + 1
      BY <1>0, <2>1
    <3> QED BY <2>1, <3>1 DEF ReplyInv, WorkedOnOnce
  <2>2. ASSUME NEW i \in DOMAIN responses', NEW j \in DOMAIN responses', i # j,
               responses'[i].op \in Work, responses'[j].op \in Work
        PROVE  responses'[i].origin # responses'[j].origin
    <3>1. CASE responses'[i] = responses[i] /\ responses'[j] = responses[j]
               /\ i \in DOMAIN responses /\ j \in DOMAIN responses
      BY <2>2, <3>1 DEF ReplyInv, WorkedOnOnce
    <3>2. CASE responses'[i] = r /\ i = n
      <4>1. j \in DOMAIN responses /\ responses'[j] = responses[j]
        BY <1>3, <2>2, <3>2
      <4> QED BY <1>0, <1>2, <2>2, <3>2, <4>1 DEF ReplyInv, WorkedOnOnce
    <3>3. CASE responses'[j] = r /\ j = n
      <4>1. i \in DOMAIN responses /\ responses'[i] = responses[i]
        BY <1>3, <2>2, <3>3
      <4> QED BY <1>0, <1>2, <2>2, <3>3, <4>1 DEF ReplyInv, WorkedOnOnce
    <3> QED BY <1>3, <3>1, <3>2, <3>3
  <2>3. ASSUME NEW i \in DOMAIN commands', NEW j \in DOMAIN responses',
               commands'[i].op \in Work, responses'[j].op \in Work
        PROVE  commands'[i].origin # responses'[j].origin
    <3>1. i + 1 \in DOMAIN commands /\ commands[i + 1] = commands'[i] /\ i + 1 # 1
      BY <1>0
    <3>2. CASE j \in DOMAIN responses /\ responses'[j] = responses[j]
      BY <2>3, <3>1, <3>2 DEF ReplyInv, WorkedOnOnce
    <3>3. CASE responses'[j] = r
      BY <1>0, <1>2, <2>3, <3>1, <3>3 DEF ReplyInv, WorkedOnOnce
    <3> QED BY <1>3, <3>2, <3>3
  <2> QED BY <2>1, <2>2, <2>3 DEF WorkedOnOnce
<1>9. PendingBelowGlobal'
  <2>1. ASSUME NEW i \in DOMAIN commands', commands'[i].op = "getGame"
        PROVE  storedGlobal' # None /\ commands'[i].key < storedGlobal'
    <3>1. commands'[i].key \in Nat
      BY <1>6, <2>1 DEF IdInv, TypeInv, MessagesOK, CommandOK
    <3>2. storedGlobal # None /\ commands'[i].key < storedGlobal
      <4>1. i + 1 \in DOMAIN commands /\ commands[i + 1] = commands'[i]
        BY <1>0
      <4> QED BY <2>1, <4>1 DEF ReplyInv, PendingBelowGlobal
    <3> QED BY <1>5, <3>1, <3>2
  <2>2. ASSUME NEW i \in DOMAIN responses'
        PROVE  /\ responses'[i].op \in {"setGame", "getGame"} =>
                    storedGlobal' # None /\ responses'[i].key < storedGlobal'
               /\ (responses'[i].op = "getDevice" /\ responses'[i].val # None) =>
                    storedGlobal' # None /\ responses'[i].val < storedGlobal'
    <3>0. /\ responses'[i].op \in {"setGame", "getGame"} => responses'[i].key \in Nat
          /\ (responses'[i].op = "getDevice" /\ responses'[i].val # None) =>
               responses'[i].val \in Nat
      BY <1>6 DEF IdInv, TypeInv, MessagesOK, ResponseOK
    <3>1. CASE i \in DOMAIN responses /\ responses'[i] = responses[i]
      BY <1>5, <3>0, <3>1 DEF ReplyInv, PendingBelowGlobal
    <3>2. CASE responses'[i] = r
      <4>1. c.op = "setGame" => storedGlobal # None /\ c.key < storedGlobal
        <5> SUFFICES ASSUME c.op = "setGame"
                     PROVE  storedGlobal # None /\ c.key < storedGlobal
          OBVIOUS
        <5>1. c.val = c.key
          BY <1>0 DEF CommandOK
        <5>2. \A j \in DOMAIN commands : ~ (j < 1)
          BY LenProperties DEF ReplyInv, IdInv, TypeInv, MessagesOK
        <5> QED BY <1>0, <5>1, <5>2 DEF ReplyInv, IdInv, PendingCovered
      <4>2. c.op = "getGame" => storedGlobal # None /\ c.key < storedGlobal
        BY <1>0 DEF ReplyInv, PendingBelowGlobal
      <4>3. (c.op = "getDevice" /\ r.val # None) =>
              storedGlobal # None /\ r.val < storedGlobal
        BY <1>4 DEF ReplyInv, IdInv, IdsBelowGlobal
      <4> QED BY <1>2, <1>5, <3>0, <3>2, <4>1, <4>2, <4>3
    <3> QED BY <1>3, <3>1, <3>2
  <2> QED BY <2>1, <2>2 DEF PendingBelowGlobal
<1>10. OneDeviceEach'
  <2>1. ASSUME NEW u \in Users, NEW d \in Devices, UserOf(u, d)' PROVE UserOf(u, d)
    <3>1. CASE storedDevice'[d] = u
      BY <1>0, <1>6, <3>1 DEF UserOf
    <3>2. CASE \E i \in DOMAIN commands' :
                 \/ /\ commands'[i].op = "setDevice"
                    /\ commands'[i].key = d /\ commands'[i].val = u
                 \/ /\ commands'[i].op = "getGame"
                    /\ commands'[i].key = u /\ asked[commands'[i].origin].device = d
      <4>1. PICK i \in DOMAIN commands' :
                 \/ /\ commands'[i].op = "setDevice"
                    /\ commands'[i].key = d /\ commands'[i].val = u
                 \/ /\ commands'[i].op = "getGame"
                    /\ commands'[i].key = u /\ asked[commands'[i].origin].device = d
        BY <3>2
      <4>2. i + 1 \in DOMAIN commands /\ commands[i + 1] = commands'[i]
        BY <1>0
      <4> QED BY <4>1, <4>2 DEF UserOf
    <3>3. CASE \E i \in DOMAIN responses' :
                 \/ /\ responses'[i].op = "getGame"
                    /\ responses'[i].key = u /\ asked[responses'[i].origin].device = d
                 \/ /\ responses'[i].op = "getDevice"
                    /\ responses'[i].val = u /\ asked[responses'[i].origin].device = d
      <4>1. PICK i \in DOMAIN responses' :
                 \/ /\ responses'[i].op = "getGame"
                    /\ responses'[i].key = u /\ asked[responses'[i].origin].device = d
                 \/ /\ responses'[i].op = "getDevice"
                    /\ responses'[i].val = u /\ asked[responses'[i].origin].device = d
        BY <3>3
      <4>2. CASE i \in DOMAIN responses /\ responses'[i] = responses[i]
        BY <4>1, <4>2 DEF UserOf
      <4>3. CASE responses'[i] = r
        <5>1. CASE c.op = "getGame" /\ c.key = u /\ asked[c.origin].device = d
          BY <1>0, <5>1 DEF UserOf
        <5>2. CASE c.op = "getDevice" /\ r.val = u /\ asked[c.origin].device = d
          BY <1>4, <5>2 DEF UserOf
        <5> QED BY <1>2, <4>1, <4>3, <5>1, <5>2
      <4> QED BY <1>3, <4>2, <4>3
    <3> QED BY <1>1, <2>1, <3>1, <3>2, <3>3 DEF UserOf
  <2> QED BY <2>1 DEF ReplyInv, OneDeviceEach
<1>11. LoginsFollowed'
  <2>1. \A x, d : AskedFor(x, d)' <=> AskedFor(x, d)
    BY <1>1 DEF AskedFor
  <2>2. ASSUME NEW i \in DOMAIN commands', commands'[i].op = "getGame",
               userToHandler[commands'[i].key] # None
        PROVE  AskedFor(userToHandler[commands'[i].key],
                        asked[commands'[i].origin].device)
    <3>1. i + 1 \in DOMAIN commands /\ commands[i + 1] = commands'[i]
      BY <1>0
    <3> QED BY <2>2, <3>1 DEF ReplyInv, LoginsFollowed
  <2>3. ASSUME NEW i \in DOMAIN responses', responses'[i].op = "getGame",
               userToHandler[responses'[i].key] # None
        PROVE  AskedFor(userToHandler[responses'[i].key],
                        asked[responses'[i].origin].device)
    <3>1. CASE i \in DOMAIN responses /\ responses'[i] = responses[i]
      BY <2>3, <3>1 DEF ReplyInv, LoginsFollowed
    <3>2. CASE responses'[i] = r
      BY <1>0, <1>2, <2>3, <3>2 DEF ReplyInv, LoginsFollowed
    <3> QED BY <1>3, <3>1, <3>2
  <2>4. /\ userToHandler' = userToHandler /\ asked' = asked
    BY <1>1
  <2> QED BY <2>1, <2>2, <2>3, <2>4, Zenon DEF LoginsFollowed
<1>12. RegistrationsKept'
  <2>1. ASSUME NEW i \in DOMAIN commands', commands'[i].op = "setGame"
        PROVE  /\ userToHandler'[commands'[i].key] = asked'[commands'[i].origin].handler
               /\ i # 1 => /\ commands'[i - 1].op = "setDevice"
                           /\ commands'[i - 1].val = commands'[i].key
               /\ commands[i].op = "setDevice" /\ commands[i].val = commands'[i].key
               /\ i \in DOMAIN commands
    <3>1. /\ i + 1 \in DOMAIN commands /\ i + 1 # 1 /\ commands[i + 1] = commands'[i]
          /\ (i + 1) - 1 = i
          /\ i # 1 => commands'[i - 1] = commands[i]
      BY <1>0
    <3>2. /\ userToHandler[commands[i + 1].key] = asked[commands[i + 1].origin].handler
          /\ commands[i].op = "setDevice" /\ commands[i].val = commands[i + 1].key
      BY <2>1, <3>1 DEF ReplyInv, RegistrationsKept
    <3>3. i \in DOMAIN commands
      <4>1. DOMAIN commands = 1..Len(commands) /\ Len(commands) \in Nat
        BY LenProperties DEF ReplyInv, IdInv, TypeInv, MessagesOK
      <4> QED BY <1>0, <3>1, <4>1
    <3> QED BY <1>1, <3>1, <3>2, <3>3
  <2>2. \A i \in DOMAIN responses' : responses'[i].op = "setGame" =>
          userToHandler'[responses'[i].key] = asked'[responses'[i].origin].handler
    <3> SUFFICES ASSUME NEW i \in DOMAIN responses', responses'[i].op = "setGame"
                 PROVE  userToHandler'[responses'[i].key] = asked'[responses'[i].origin].handler
      OBVIOUS
    <3>1. CASE i \in DOMAIN responses /\ responses'[i] = responses[i]
      BY <1>1, <3>1 DEF ReplyInv, RegistrationsKept
    <3>2. CASE responses'[i] = r
      <4>1. c.op = "setGame" => userToHandler[c.key] = asked[c.origin].handler
        BY <1>0 DEF ReplyInv, RegistrationsKept
      <4> QED BY <1>1, <1>2, <3>2, <4>1
    <3> QED BY <1>3, <3>1, <3>2
  <2>3. ASSUME NEW i \in DOMAIN commands', NEW j \in DOMAIN responses',
               commands'[i].op = "setGame", responses'[j].op = "getDevice"
        PROVE  responses'[j].val # commands'[i].key
    <3>0. i + 1 \in DOMAIN commands /\ commands[i + 1] = commands'[i]
      BY <1>0
    <3>1. CASE j \in DOMAIN responses /\ responses'[j] = responses[j]
      BY <2>3, <3>0, <3>1 DEF ReplyInv, RegistrationsKept
    <3>2. CASE responses'[j] = r
      <4>1. c.op = "getDevice" /\ r.val = storedDevice[c.val] /\ c.val \in Devices
        BY <1>2, <1>4, <2>3, <3>2
      <4>2. storedDevice[c.val] # commands[i].val
        BY <2>1, <2>3, <4>1 DEF ReplyInv, IdInv, PendingDistinct
      <4> QED BY <2>1, <2>3, <3>2, <4>1, <4>2
    <3> QED BY <1>3, <3>1, <3>2
  <2>4. ASSUME NEW i \in DOMAIN responses', NEW j \in DOMAIN responses',
               responses'[i].op = "setGame", responses'[j].op = "getDevice",
               responses'[j].val = responses'[i].key
        PROVE  i < j
    <3>1. CASE i \in DOMAIN responses /\ j \in DOMAIN responses
      <4>1. responses'[i] = responses[i] /\ responses'[j] = responses[j]
        BY <1>0, <1>3, <3>1
      <4> QED BY <2>4, <3>1, <4>1 DEF ReplyInv, RegistrationsKept
    <3>2. CASE i \in DOMAIN responses /\ j \notin DOMAIN responses
      BY <1>0, <1>3, <3>2
    <3>3. CASE i \notin DOMAIN responses
      <4>1. responses'[i] = r /\ c.op = "setGame"
        BY <1>2, <1>3, <2>4, <3>3
      <4>2. j \in DOMAIN responses /\ responses'[j] = responses[j]
        BY <1>2, <1>3, <2>4, <4>1
      <4> QED BY <1>0, <1>2, <2>4, <4>1, <4>2 DEF ReplyInv, RegistrationsKept
    <3> QED BY <3>1, <3>2, <3>3
  <2> QED BY <2>1, <2>2, <2>3, <2>4 DEF RegistrationsKept
<1>13. QueuesMatch'
  <2>1. \A x : Clean(x)' <=> Clean(x)
    BY <1>1 DEF Clean
  <2>2. ASSUME NEW x, NEW i \in DOMAIN commands', commands'[i].op \in Work,
               x = asked'[commands'[i].origin].handler, Clean(x)'
        PROVE  requests'[x] # <<>> /\ Head(requests'[x]).seq = commands'[i].origin
    <3>1. i + 1 \in DOMAIN commands /\ commands[i + 1] = commands'[i] /\ Clean(x)
      BY <1>0, <2>1, <2>2
    <3> QED BY <1>1, <2>2, <3>1 DEF ReplyInv, QueuesMatch
  <2>3. ASSUME NEW x, NEW i \in DOMAIN responses', responses'[i].op \in Work,
               x = asked'[responses'[i].origin].handler, Clean(x)'
        PROVE  requests'[x] # <<>> /\ Head(requests'[x]).seq = responses'[i].origin
    <3>1. Clean(x)
      BY <2>1, <2>3
    <3>2. CASE i \in DOMAIN responses /\ responses'[i] = responses[i]
      BY <1>1, <2>3, <3>1, <3>2 DEF ReplyInv, QueuesMatch
    <3>3. CASE responses'[i] = r
      <4>1. /\ commands[1].op \in Work /\ x = asked[commands[1].origin].handler
            /\ responses'[i].origin = commands[1].origin /\ 1 \in DOMAIN commands
        BY <1>0, <1>1, <1>2, <2>3, <3>3
      <4> QED BY <1>1, <3>1, <4>1 DEF ReplyInv, QueuesMatch
    <3> QED BY <1>3, <3>2, <3>3
  <2>4. ASSUME NEW x \in Handlers \ crowded'
        PROVE  /\ Len(requests'[x]) <= 1
               /\ requests'[x] # <<>> =>
                    \A q \in replies' : q.handler = x => q.seq < Head(requests'[x]).seq
    BY <1>1 DEF ReplyInv, QueuesMatch
  <2> QED BY <2>2, <2>3, <2>4, QueuesMatchNext
<1>14. \A s, u : (/\ asked[s].device \in Devices /\ u # None /\ Lasting(s, u)) =>
                    Lasting(s, u)'
  <2>1. ASSUME NEW d \in Devices \ raced, storedDevice[d] # None
        PROVE  storedDevice'[d] = storedDevice[d]
    BY <1>0, <1>6, <2>1 DEF ReplyInv, UsersLast, RacesKnown
  <2> QED BY <1>1, <2>1 DEF Lasting
<1>15. UsersLast'
  <2>1. \A x : Clean(x)' <=> Clean(x)
    BY <1>1 DEF Clean
  <2>2. /\ \A i \in DOMAIN commands : commands[i].op \in {"setGame", "getGame"} =>
             /\ asked[commands[i].origin].device \in Devices
             /\ commands[i].key \in Users
        /\ \A i \in DOMAIN responses :
             /\ responses[i].op \in Work => asked[responses[i].origin].device \in Devices
             /\ responses[i].op \in {"setGame", "getGame"} => responses[i].key \in Users
    BY DEF ReplyInv, OriginsKnown, Work, IdInv, TypeInv, MessagesOK, CommandOK, ResponseOK
  <2>3. \A u \in Users : u # None
    BY <1>6
  <2> HIDE DEF Clean, Lasting
  <2>4. ASSUME NEW i \in DOMAIN commands' PROVE CommandLasts(i)'
    <3>0. /\ i + 1 \in DOMAIN commands /\ i + 1 # 1 /\ commands[i + 1] = commands'[i]
          /\ (i + 1) - 1 = i
          /\ i # 1 => commands'[i - 1] = commands[i]
      BY <1>0
    <3>1. CommandLasts(i + 1)
      BY <3>0 DEF ReplyInv, UsersLast
    <3>2. CASE commands'[i].op = "getGame"
      BY <1>1, <1>14, <2>2, <2>3, <3>0, <3>1, <3>2 DEF CommandLasts
    <3>3. CASE commands'[i].op = "setGame"
      <4>1. CASE ~ Clean(asked[commands[i + 1].origin].handler)
        BY <1>1, <2>1, <3>0, <3>3, <4>1 DEF CommandLasts
      <4>2. CASE Lasting(commands[i + 1].origin, commands[i + 1].key)
        BY <1>1, <1>14, <2>2, <2>3, <3>0, <3>3, <4>2 DEF CommandLasts
      <4>3. CASE commands[i].key = asked[commands[i + 1].origin].device
        <5>1. CASE i # 1
          BY <1>1, <3>0, <3>3, <4>3, <5>1 DEF CommandLasts
        <5>2. CASE i = 1
          <6>1. c.op = "setDevice" /\ c.val = commands[i + 1].key
            BY <1>0, <3>0, <3>3, <5>2 DEF ReplyInv, RegistrationsKept
          <6>2. asked[commands[i + 1].origin].device \in Devices
            BY <2>2, <3>0, <3>3
          <6>3. storedDevice'[asked[commands[i + 1].origin].device] = commands[i + 1].key
            BY <1>0, <1>6, <4>3, <5>2, <6>1, <6>2
          <6> QED BY <1>1, <3>0, <3>3, <6>3 DEF CommandLasts, Lasting
        <5> QED BY <5>1, <5>2
      <4> QED BY <3>0, <3>1, <3>3, <4>1, <4>2, <4>3 DEF CommandLasts
    <3>4. CASE commands'[i].op \notin {"getGame", "setGame"}
      BY <3>4 DEF CommandLasts
    <3> QED BY <3>2, <3>3, <3>4
  <2>5. ASSUME NEW i \in DOMAIN responses' PROVE ResponseLasts(i)'
    <3>1. CASE i \in DOMAIN responses /\ responses'[i] = responses[i]
      <4>1. ResponseLasts(i)
        BY <3>1 DEF ReplyInv, UsersLast
      <4> QED BY <1>1, <1>14, <2>1, <2>2, <2>3, <3>1, <4>1 DEF ResponseLasts, Work
    <3>2. CASE responses'[i] = r
      <4>1. CommandLasts(1)
        BY <1>0 DEF ReplyInv, UsersLast
      <4>2. c.op \in {"setGame", "getGame"} =>
              asked[c.origin].device \in Devices /\ c.key \in Users
        BY <1>0, <2>2
      <4>3. c.op = "getGame" => Lasting(c.origin, c.key)
        BY <1>0, <4>1 DEF CommandLasts
      <4>4. c.op = "setGame" =>
              ~ Clean(asked[c.origin].handler) \/ Lasting(c.origin, c.key)
        BY <1>0, <4>1 DEF CommandLasts
      <4>5. (c.op = "getDevice" /\ r.val # None) =>
              Lasting(c.origin, r.val) /\ asked[c.origin].device \in Devices
        BY <1>4 DEF Lasting
      <4> QED BY <1>1, <1>2, <1>14, <2>1, <2>3, <3>2, <4>2, <4>3, <4>4, <4>5
              DEF ResponseLasts
    <3> QED BY <1>3, <3>1, <3>2
  <2>6. RacesKnown'
    <3>1. ASSUME NEW d \in Devices \ raced, NEW i \in DOMAIN commands',
                 commands'[i].op = "setDevice", commands'[i].key = d
          PROVE  storedDevice'[d] = None
      <4>1. i + 1 \in DOMAIN commands /\ i + 1 # 1 /\ commands[i + 1] = commands'[i]
        BY <1>0
      <4>2. storedDevice[d] = None
        BY <3>1, <4>1 DEF ReplyInv, UsersLast, RacesKnown
      <4>3. ~ (c.op = "setDevice" /\ c.key = d)
        BY <1>0, <3>1, <4>1 DEF ReplyInv, UsersLast, RacesKnown
      <4> QED BY <1>6, <4>2, <4>3
    <3>2. ASSUME NEW d \in Devices \ raced,
                 NEW i \in DOMAIN commands', NEW j \in DOMAIN commands',
                 commands'[i].op = "setDevice", commands'[i].key = d,
                 commands'[j].op = "setDevice", commands'[j].key = d
          PROVE  i = j
      <4>1. /\ i + 1 \in DOMAIN commands /\ commands[i + 1] = commands'[i]
            /\ j + 1 \in DOMAIN commands /\ commands[j + 1] = commands'[j]
            /\ i \in Nat /\ j \in Nat
        BY <1>0
      <4>2. i + 1 = j + 1
        BY <3>2, <4>1 DEF ReplyInv, UsersLast, RacesKnown
      <4> QED BY <4>1, <4>2
    <3> QED BY <1>1, <3>1, <3>2 DEF RacesKnown
  <2> QED BY <2>4, <2>5, <2>6 DEF UsersLast
<1>16. RepliesMatch'
  BY <1>1 DEF ReplyInv, RepliesMatch, Confused
<1>17. RepliesDurable'
  <2>1. \A p : Confused(p)' <=> Confused(p)
    BY <1>1 DEF Confused
  <2> SUFFICES ASSUME NEW p \in replies, p.user # None
               PROVE  \/ storedDevice'[asked[p.origin].device] = p.user
                      \/ asked[p.origin].device \in raced
                      \/ Confused(p)
    BY <1>1, <2>1 DEF RepliesDurable
  <2>2. asked[p.origin].device \in Devices
    BY DEF ReplyInv, OriginsKnown
  <2>3. Lasting(p.origin, p.user) \/ Confused(p)
    BY DEF ReplyInv, RepliesDurable, Lasting
  <2>4. Lasting(p.origin, p.user) => Lasting(p.origin, p.user)'
    BY <1>14, <2>2
  <2> QED BY <1>1, <2>3, <2>4 DEF Lasting
<1> QED BY <1>7, <1>8, <1>9, <1>10, <1>11, <1>12, <1>13, <1>15, <1>16, <1>17
        DEF ReplyInv

\* The counter answers nobody.
LEMMA GlobalBackReplies ==
    ASSUME ReplyInv, IdInv', GlobalBack
    PROVE  ReplyInv'
<1>1. /\ responses # <<>> /\ responses' = Tail(responses)
      /\ commands' = commands \/ \E c \in Messages :
           commands' = Append(commands, c) /\ c.op = "setGlobal"
      /\ UNCHANGED <<redis, asked, crowded, raced, requests, replies, userToHandler>>
  <2>1. globalId' \in Nat
    <3>1. Back("getGlobal") /\ TypeInv
      BY DEF GlobalBack, ReplyInv, IdInv
    <3>2. Head(responses).val \in Nat \cup {None}
      BY <3>1, BackTypes DEF ResponseOK
    <3> QED BY <3>2 DEF GlobalBack, GlobalLoaded, Default
  <2>2. Command("setGlobal", 0, globalId', 0) \in Messages
    BY <2>1 DEF Command, Messages, Ops
  <2>3. Command("setGlobal", 0, globalId', 0).op = "setGlobal"
    BY DEF Command
  <2> QED BY <2>2, <2>3 DEF GlobalBack, Back, past
<1> PICK m : m = Len(commands) + 1
  OBVIOUS
<1>2. /\ \A i \in DOMAIN responses' : /\ i + 1 \in DOMAIN responses
                                      /\ responses'[i] = responses[i + 1]
                                      /\ i \in Nat
      /\ 1 \in DOMAIN responses
      /\ \A i \in DOMAIN commands' :
           \/ i \in DOMAIN commands /\ commands'[i] = commands[i]
           \/ i = m /\ commands'[i].op = "setGlobal"
      /\ \A i \in DOMAIN commands : i # 1 => i - 1 \in DOMAIN commands
                                             /\ commands'[i - 1] = commands[i - 1]
  <2>1. /\ responses \in Seq(Messages) /\ commands \in Seq(Messages)
    BY DEF ReplyInv, IdInv, TypeInv, MessagesOK
  <2>2. /\ \A i \in DOMAIN responses' : /\ i + 1 \in DOMAIN responses
                                        /\ responses'[i] = responses[i + 1]
        /\ 1 \in DOMAIN responses
        /\ DOMAIN responses' = 1..(Len(responses) - 1) /\ Len(responses) \in Nat
    BY <1>1, <2>1, TailFacts
  <2>3. CASE commands' = commands
    <3>1. DOMAIN commands = 1..Len(commands) /\ Len(commands) \in Nat
      BY <2>1, LenProperties
    <3> QED BY <2>2, <2>3, <3>1
  <2>4. CASE \E c \in Messages : commands' = Append(commands, c) /\ c.op = "setGlobal"
    <3>1. PICK c \in Messages : commands' = Append(commands, c) /\ c.op = "setGlobal"
      BY <2>4
    <3>2. /\ DOMAIN commands = 1..Len(commands) /\ Len(commands) \in Nat
          /\ DOMAIN commands' = 1..(Len(commands) + 1)
          /\ \A i \in DOMAIN commands : commands'[i] = commands[i]
          /\ commands'[Len(commands) + 1] = c
      BY <2>1, <3>1, AppendFacts
    <3> QED BY <2>2, <3>1, <3>2
  <2> QED BY <1>1, <2>3, <2>4
<1>3. /\ storedDevice' = storedDevice /\ storedGlobal' = storedGlobal /\ raced' = raced
      /\ asked' = asked /\ crowded' = crowded /\ requests' = requests
      /\ replies' = replies /\ userToHandler' = userToHandler
  BY <1>1 DEF redis
<1>4. OriginsKnown'
  BY <1>2, <1>3 DEF ReplyInv, OriginsKnown, Work
<1>5. WorkedOnOnce' /\ PendingBelowGlobal'
  <2>1. WorkedOnOnce'
    BY <1>2, <1>3 DEF ReplyInv, WorkedOnOnce, Work
  <2>2. PendingBelowGlobal'
    BY <1>2, <1>3 DEF ReplyInv, PendingBelowGlobal
  <2> QED BY <2>1, <2>2
<1>6. OneDeviceEach'
  <2>1. \A u \in Users, d \in Devices : UserOf(u, d)' => UserOf(u, d)
    BY <1>2, <1>3 DEF UserOf
  <2> QED BY <2>1 DEF ReplyInv, OneDeviceEach
<1>7. LoginsFollowed'
  BY <1>2, <1>3 DEF ReplyInv, LoginsFollowed, AskedFor
<1>8. RegistrationsKept'
  BY <1>2, <1>3 DEF ReplyInv, RegistrationsKept
<1>9. \A x : Clean(x)' <=> Clean(x)
  BY <1>3 DEF Clean
<1>10. QueuesMatch'
  <2> HIDE DEF Clean
  <2> QED BY <1>2, <1>3, <1>9 DEF ReplyInv, QueuesMatch, Work
<1>11. UsersLast'
  <2>1. \A s, u : Lasting(s, u)' <=> Lasting(s, u)
    BY <1>3 DEF Lasting
  <2>2. ASSUME NEW i \in DOMAIN commands' PROVE CommandLasts(i)'
    BY <1>2, <1>3, <1>9, <2>1 DEF ReplyInv, UsersLast, CommandLasts
  <2>3. ASSUME NEW i \in DOMAIN responses' PROVE ResponseLasts(i)'
    BY <1>2, <1>3, <1>9, <2>1 DEF ReplyInv, UsersLast, ResponseLasts
  <2>4. RacesKnown'
    BY <1>2, <1>3 DEF ReplyInv, UsersLast, RacesKnown
  <2> QED BY <2>2, <2>3, <2>4 DEF UsersLast
<1>12. RepliesMatch' /\ RepliesDurable'
  BY <1>3, RepliesStay DEF ReplyInv
<1> QED BY <1>4, <1>5, <1>6, <1>7, <1>8, <1>10, <1>11, <1>12 DEF ReplyInv

\* A restart loses what is pending, not what was told.
LEMMA CrashReplies ==
    ASSUME ReplyInv, IdInv', Crash
    PROVE  ReplyInv'
<1>1. /\ DOMAIN commands' = {1} /\ commands'[1].op = "getGlobal"
      /\ responses' = <<>> /\ DOMAIN responses' = {}
      /\ \A h \in Handlers : requests'[h] = <<>> /\ DOMAIN requests'[h] = {}
                             /\ Len(requests'[h]) = 0
      /\ storedDevice' = storedDevice /\ raced' = raced
      /\ asked' = asked /\ crowded' = crowded /\ replies' = replies
  BY DEF Crash, redis, FirstCommand, Command
<1>2. OriginsKnown'
  BY <1>1 DEF ReplyInv, OriginsKnown, Work
<1>3. OneDeviceEach'
  <2>1. \A u \in Users, d \in Devices : UserOf(u, d)' => UserOf(u, d)
    BY <1>1 DEF UserOf
  <2> QED BY <2>1 DEF ReplyInv, OneDeviceEach
<1>4. WorkedOnOnce' /\ PendingBelowGlobal' /\ LoginsFollowed' /\ RegistrationsKept'
  BY <1>1 DEF WorkedOnOnce, PendingBelowGlobal, LoginsFollowed, RegistrationsKept, Work
<1>5. QueuesMatch'
  BY <1>1 DEF QueuesMatch, Work
<1>6. UsersLast'
  <2>1. \A i \in DOMAIN commands' : CommandLasts(i)'
    BY <1>1 DEF CommandLasts
  <2>2. RacesKnown' /\ \A i \in DOMAIN responses' : ResponseLasts(i)'
    BY <1>1 DEF RacesKnown
  <2> QED BY <2>1, <2>2 DEF UsersLast
<1>7. RepliesMatch' /\ RepliesDurable'
  BY <1>1, RepliesStay DEF ReplyInv
<1> QED BY <1>2, <1>3, <1>4, <1>5, <1>6, <1>7 DEF ReplyInv

\* Taking a response off its queue disturbs no login and no registration.
LEMMA DeliverKeepsLogins ==
    ASSUME ReplyInv, responses # <<>>, responses' = Tail(responses),
           UNCHANGED <<commands, asked, userToHandler>>
    PROVE  LoginsFollowed' /\ RegistrationsKept'
<1>1. \A i \in DOMAIN responses' : /\ i + 1 \in DOMAIN responses
                                   /\ responses'[i] = responses[i + 1]
                                   /\ i \in Nat
  <2>1. responses \in Seq(Messages)
    BY DEF ReplyInv, IdInv, TypeInv, MessagesOK
  <2> QED BY <2>1, TailFacts
<1>2. LoginsFollowed'
  BY <1>1 DEF ReplyInv, LoginsFollowed, AskedFor
<1>3. RegistrationsKept'
  <2>1. \A i, j \in DOMAIN responses' :
          (/\ responses'[i].op = "setGame" /\ responses'[j].op = "getDevice"
           /\ responses'[j].val = responses'[i].key) => i < j
    <3> SUFFICES ASSUME NEW i \in DOMAIN responses', NEW j \in DOMAIN responses',
                        responses'[i].op = "setGame", responses'[j].op = "getDevice",
                        responses'[j].val = responses'[i].key
                 PROVE  i < j
      OBVIOUS
    <3>1. /\ i + 1 \in DOMAIN responses /\ responses'[i] = responses[i + 1] /\ i \in Nat
          /\ j + 1 \in DOMAIN responses /\ responses'[j] = responses[j + 1] /\ j \in Nat
      BY <1>1
    <3>2. i + 1 < j + 1
      BY <3>1 DEF ReplyInv, RegistrationsKept
    <3> QED BY <3>1, <3>2
  <2> QED BY <1>1, <2>1 DEF ReplyInv, RegistrationsKept
<1> QED BY <1>2, <1>3

\* The answer for a request goes to the connection its user plays on.
LEMMA UserRespondReplies ==
    ASSUME ReplyInv, IdInv', responses # <<>>, responses' = Tail(responses),
           UNCHANGED <<commands, redis, asked, crowded, raced, userToHandler>>,
           Head(responses).op \in {"setGame", "getGame"},
           NEW u, u = Head(responses).key, NEW s, s = Head(responses).origin,
           Respond(u, s, userToHandler)
    PROVE  ReplyInv'
<1>1. /\ 1 \in DOMAIN responses /\ Head(responses) = responses[1]
  <2>1. responses \in Seq(Messages)
    BY DEF ReplyInv, IdInv, TypeInv, MessagesOK
  <2> QED BY <2>1, TailFacts
<1>2. u \in Users /\ userToHandler \in [Users -> Handlers \cup {None}]
  BY <1>1 DEF ReplyInv, IdInv, TypeInv, MessagesOK, ResponseOK, ManagersOK
<1> PICK h : h = userToHandler[u]
  OBVIOUS
<1>3. OriginsKnown' /\ QueuesMatch' /\ RepliesMatch' /\ RepliesDurable'
      /\ replies \subseteq replies'
  <2>1. CASE h = None
    <3>1. UNCHANGED <<requests, replies>>
      BY <2>1 DEF Respond
    <3>2. TypeInv'
      BY DEF IdInv
    <3> QED BY <3>1, <3>2, SilenceKeepsReplies
  <2>2. CASE h # None
    <3>1. h \in Handlers
      BY <1>2, <2>2
    <3>2. SendToGateway(h, Oldest(requests[h]), u, s, requests[h])
      BY <2>2 DEF Respond
    <3>3. asked[s].handler # h => AskedFor(h, asked[s].device)
      BY <1>1, <2>2 DEF ReplyInv, RegistrationsKept, LoginsFollowed
    <3>4. Lasting(s, u) \/ (asked[s].handler = h /\ ~ Clean(h))
      <4>1. ResponseLasts(1)
        BY <1>1 DEF ReplyInv, UsersLast
      <4>2. responses[1].op = "setGame" => h = asked[s].handler
        BY <1>1 DEF ReplyInv, RegistrationsKept
      <4> QED BY <1>1, <4>1, <4>2 DEF ResponseLasts
    <3>5. TypeInv' /\ Head(responses).op \in Work
      BY DEF IdInv, Work
    <3>6. replies \subseteq replies'
      BY <3>2 DEF SendToGateway
    <3>7. u \in Users \cup {None}
      BY <1>2
    <3> QED BY <3>1, <3>2, <3>3, <3>4, <3>5, <3>6, <3>7, AnswerKeepsReplies
  <2> QED BY <2>1, <2>2
<1>4. WorkedOnOnce' /\ PendingBelowGlobal' /\ OneDeviceEach' /\ UsersLast'
  BY <1>3, DeliverKeepsWork
<1>5. LoginsFollowed' /\ RegistrationsKept'
  BY DeliverKeepsLogins
<1> QED BY <1>3, <1>4, <1>5 DEF ReplyInv

LEMMA RegisteringBackReplies ==
    ASSUME ReplyInv, IdInv', RegisteringBack
    PROVE  ReplyInv'
<1>1. /\ responses # <<>> /\ responses' = Tail(responses)
      /\ UNCHANGED <<commands, redis, asked, crowded, raced, userToHandler>>
      /\ Head(responses).op \in {"setGame", "getGame"}
      /\ Respond(Head(responses).key, Head(responses).origin, userToHandler)
  BY DEF RegisteringBack, Back, past
<1> QED BY <1>1, UserRespondReplies

LEMMA GameBackReplies ==
    ASSUME ReplyInv, IdInv', GameBack
    PROVE  ReplyInv'
<1>1. /\ responses # <<>> /\ responses' = Tail(responses)
      /\ UNCHANGED <<commands, redis, asked, crowded, raced, userToHandler>>
      /\ Head(responses).op \in {"setGame", "getGame"}
  BY DEF GameBack, Back, past
<1>2. CASE Head(responses).val = None
  <2>1. UNCHANGED <<requests, replies>> /\ TypeInv'
    BY <1>2 DEF GameBack, IdInv
  <2>2. OriginsKnown' /\ QueuesMatch' /\ RepliesMatch' /\ RepliesDurable'
    BY <1>1, <2>1, SilenceKeepsReplies
  <2>3. WorkedOnOnce' /\ PendingBelowGlobal' /\ OneDeviceEach' /\ UsersLast'
    BY <1>1, <2>1, DeliverKeepsWork
  <2>4. LoginsFollowed' /\ RegistrationsKept'
    BY <1>1, DeliverKeepsLogins
  <2> QED BY <2>2, <2>3, <2>4 DEF ReplyInv
<1>3. CASE Head(responses).val # None
  <2>1. Respond(Head(responses).key, Head(responses).origin, userToHandler)
    BY <1>3 DEF GameBack
  <2> QED BY <1>1, <2>1, UserRespondReplies
<1> QED BY <1>2, <1>3

\* A user who logs in plays on the connection of that lookup, for the device of
\* every other login of his.
LEMMA LoginKeepsLogins ==
    ASSUME ReplyInv, responses # <<>>, responses' = Tail(responses),
           NEW u \in Users, NEW s, NEW h,
           Head(responses).op = "getDevice", Head(responses).val = u,
           Head(responses).origin = s, h = asked[s].handler,
           userToHandler' = [userToHandler EXCEPT ![u] = h],
           UNCHANGED asked,
           \A i \in DOMAIN commands' :
             \/ i \in DOMAIN commands /\ commands'[i] = commands[i]
             \/ /\ commands'[i].op = "getGame" /\ commands'[i].key = u
                /\ commands'[i].origin = s,
           \A i \in DOMAIN commands : i # 1 => /\ i - 1 \in DOMAIN commands
                                               /\ commands'[i - 1] = commands[i - 1]
    PROVE  LoginsFollowed' /\ RegistrationsKept'
<1>0. userToHandler \in [Users -> Handlers \cup {None}]
  BY DEF ReplyInv, IdInv, TypeInv, ManagersOK
<1>1. /\ \A i \in DOMAIN responses' : /\ i + 1 \in DOMAIN responses
                                      /\ responses'[i] = responses[i + 1]
                                      /\ i \in Nat
      /\ 1 \in DOMAIN responses /\ Head(responses) = responses[1]
  <2>1. responses \in Seq(Messages)
    BY DEF ReplyInv, IdInv, TypeInv, MessagesOK
  <2>2. /\ \A i \in DOMAIN responses' : /\ i + 1 \in DOMAIN responses
                                        /\ responses'[i] = responses[i + 1]
        /\ 1 \in DOMAIN responses /\ Head(responses) = responses[1]
        /\ DOMAIN responses' = 1..(Len(responses) - 1) /\ Len(responses) \in Nat
    BY <2>1, TailFacts
  <2> QED BY <2>2
<1>2. /\ s \in DOMAIN asked /\ asked[s].device \in Devices
      /\ UserOf(u, asked[s].device)
  <2>1. s \in DOMAIN asked /\ asked[s].device \in Devices
    BY <1>1 DEF ReplyInv, OriginsKnown, Work
  <2> QED BY <1>1, <2>1 DEF UserOf
<1>3. \A x \in Users : userToHandler'[x] = IF x = u THEN h ELSE userToHandler[x]
  BY <1>0
<1>4. ASSUME NEW e \in Devices, UserOf(u, e)
      PROVE  AskedFor(h, e)
  <2>1. e = asked[s].device
    BY <1>2, <1>4 DEF ReplyInv, OneDeviceEach
  <2> QED BY <1>2, <2>1 DEF AskedFor
<1>6. LoginsFollowed'
  <2>1. ASSUME NEW i \in DOMAIN commands', commands'[i].op = "getGame",
               userToHandler'[commands'[i].key] # None
        PROVE  AskedFor(userToHandler'[commands'[i].key],
                        asked[commands'[i].origin].device)
    <3>1. CASE i \in DOMAIN commands /\ commands'[i] = commands[i]
      <4>1. /\ commands[i].key \in Users /\ commands[i].origin \in DOMAIN asked
            /\ asked[commands[i].origin].device \in Devices
        BY <2>1, <3>1
           DEF ReplyInv, IdInv, TypeInv, MessagesOK, CommandOK, OriginsKnown, Work
      <4>2. CASE commands[i].key = u
        <5>1. UserOf(u, asked[commands[i].origin].device)
          BY <2>1, <3>1, <4>2 DEF UserOf
        <5> QED BY <1>3, <1>4, <3>1, <4>1, <4>2, <5>1
      <4>3. CASE commands[i].key # u
        <5>1. userToHandler'[commands'[i].key] = userToHandler[commands[i].key]
          BY <1>3, <3>1, <4>1, <4>3
        <5> QED BY <2>1, <3>1, <5>1 DEF ReplyInv, LoginsFollowed
      <4> QED BY <4>2, <4>3
    <3>2. CASE commands'[i].key = u /\ commands'[i].origin = s
      BY <1>2, <1>3, <1>4, <3>2
    <3> QED BY <2>1, <3>1, <3>2
  <2>2. ASSUME NEW i \in DOMAIN responses', responses'[i].op = "getGame",
               userToHandler'[responses'[i].key] # None
        PROVE  AskedFor(userToHandler'[responses'[i].key],
                        asked[responses'[i].origin].device)
    <3>0. i + 1 \in DOMAIN responses /\ responses'[i] = responses[i + 1]
      BY <1>1
    <3> PICK r : r = responses[i + 1]
      OBVIOUS
    <3>1. /\ r.key \in Users /\ r.origin \in DOMAIN asked
          /\ asked[r.origin].device \in Devices
      BY <2>2, <3>0
         DEF ReplyInv, IdInv, TypeInv, MessagesOK, ResponseOK, OriginsKnown, Work
    <3>2. CASE r.key = u
      <4>1. UserOf(u, asked[r.origin].device)
        BY <2>2, <3>0, <3>2 DEF UserOf
      <4> QED BY <1>3, <1>4, <3>0, <3>1, <3>2, <4>1
    <3>3. CASE r.key # u
      <4>1. userToHandler'[r.key] = userToHandler[r.key]
        BY <1>3, <3>1, <3>3
      <4> QED BY <2>2, <3>0, <4>1 DEF ReplyInv, LoginsFollowed
    <3> QED BY <3>2, <3>3
  <2> QED BY <2>1, <2>2 DEF LoginsFollowed, AskedFor
<1>7. RegistrationsKept'
  <2>1. \A i \in DOMAIN commands : commands[i].op = "setGame" =>
          commands[i].key # u /\ commands[i].key \in Users
    BY <1>1 DEF ReplyInv, RegistrationsKept, IdInv, TypeInv, MessagesOK, CommandOK
  <2>2. \A i \in DOMAIN responses' : responses'[i].op = "setGame" =>
          responses'[i].key # u /\ responses'[i].key \in Users
    <3> SUFFICES ASSUME NEW i \in DOMAIN responses', responses'[i].op = "setGame"
                 PROVE  responses'[i].key # u /\ responses'[i].key \in Users
      OBVIOUS
    <3>1. i + 1 \in DOMAIN responses /\ responses'[i] = responses[i + 1] /\ i \in Nat
          /\ ~ (i + 1 < 1)
      BY <1>1
    <3>2. responses[i + 1].key \in Users
      BY <3>1 DEF ReplyInv, IdInv, TypeInv, MessagesOK, ResponseOK
    <3> QED BY <1>1, <3>1, <3>2 DEF ReplyInv, RegistrationsKept
  <2>3. \A i \in DOMAIN commands' : commands'[i].op = "setGame" =>
          i \in DOMAIN commands /\ commands'[i] = commands[i]
    OBVIOUS
  <2>4. \A i \in DOMAIN commands' : commands'[i].op = "setGame" =>
          /\ userToHandler'[commands'[i].key] = asked'[commands'[i].origin].handler
          /\ i # 1 => /\ commands'[i - 1].op = "setDevice"
                      /\ commands'[i - 1].val = commands'[i].key
    BY <1>3, <2>1, <2>3 DEF ReplyInv, RegistrationsKept
  <2>5. \A i \in DOMAIN responses' : responses'[i].op = "setGame" =>
          userToHandler'[responses'[i].key] = asked'[responses'[i].origin].handler
    BY <1>1, <1>3, <2>2 DEF ReplyInv, RegistrationsKept
  <2>6. \A i \in DOMAIN commands', j \in DOMAIN responses' :
          (commands'[i].op = "setGame" /\ responses'[j].op = "getDevice") =>
            responses'[j].val # commands'[i].key
    BY <1>1, <2>3 DEF ReplyInv, RegistrationsKept
  <2>7. \A i, j \in DOMAIN responses' :
          (/\ responses'[i].op = "setGame" /\ responses'[j].op = "getDevice"
           /\ responses'[j].val = responses'[i].key) => i < j
    <3> SUFFICES ASSUME NEW i \in DOMAIN responses', NEW j \in DOMAIN responses',
                        responses'[i].op = "setGame", responses'[j].op = "getDevice",
                        responses'[j].val = responses'[i].key
                 PROVE  i < j
      OBVIOUS
    <3>1. /\ i + 1 \in DOMAIN responses /\ responses'[i] = responses[i + 1] /\ i \in Nat
          /\ j + 1 \in DOMAIN responses /\ responses'[j] = responses[j + 1] /\ j \in Nat
      BY <1>1
    <3>2. i + 1 < j + 1
      BY <3>1 DEF ReplyInv, RegistrationsKept
    <3> QED BY <3>1, <3>2
  <2> QED BY <2>4, <2>5, <2>6, <2>7 DEF RegistrationsKept
<1> QED BY <1>6, <1>7

\* OnClientLogin with the game data at hand: the answer.
LEMMA CachedLoginReplies ==
    ASSUME ReplyInv, IdInv', responses # <<>>, responses' = Tail(responses),
           UNCHANGED <<redis, asked, crowded>>,
           NEW u \in Users, NEW s, NEW h,
           Head(responses).op = "getDevice", Head(responses).val = u,
           Head(responses).origin = s, h = asked[s].handler, h \in Handlers,
           LoginUser(h, u, s), u \in cached
    PROVE  ReplyInv'
<1>0. /\ userToHandler \in [Users -> Handlers \cup {None}] /\ commands \in Seq(Messages)
      /\ TypeInv' /\ None \notin Handlers
  BY LoginAssumption DEF ReplyInv, IdInv, TypeInv, ManagersOK, MessagesOK
<1>1. /\ userToHandler' = [userToHandler EXCEPT ![u] = h]
      /\ userToHandler'[u] = h
      /\ Respond(u, s, userToHandler')
      /\ UNCHANGED <<commands, raced>>
  BY <1>0 DEF LoginUser
<1>2. SendToGateway(h, Oldest(requests[h]), u, s, requests[h])
  BY <1>0, <1>1 DEF Respond
<1>3. replies \subseteq replies'
  BY <1>2 DEF SendToGateway
<1>4. WorkedOnOnce' /\ PendingBelowGlobal' /\ OneDeviceEach' /\ UsersLast'
      /\ 1 \in DOMAIN responses /\ Head(responses) = responses[1]
  BY <1>1, <1>3, DeliverKeepsWork
<1>5. Lasting(s, u)
  <2>1. ResponseLasts(1) /\ u # None
    BY <1>4, LoginAssumption DEF ReplyInv, UsersLast, Users, Default
  <2> QED BY <1>4, <2>1 DEF ResponseLasts
<1>6. OriginsKnown' /\ QueuesMatch' /\ RepliesMatch' /\ RepliesDurable'
  <2>1. Head(responses).op \in Work
    BY DEF Work
  <2> QED BY <1>0, <1>1, <1>2, <1>5, <2>1, AnswerKeepsReplies
<1>7. LoginsFollowed' /\ RegistrationsKept'
  <2>1. \A i \in DOMAIN commands : i # 1 => i - 1 \in DOMAIN commands
    <3>1. DOMAIN commands = 1..Len(commands) /\ Len(commands) \in Nat
      BY <1>0, LenProperties
    <3> QED BY <3>1
  <2> QED BY <1>1, <2>1, LoginKeepsLogins
<1> QED BY <1>4, <1>6, <1>7 DEF ReplyInv

\* The lookup of a device, asked for by request s of handler h, comes back.
LookedUp(s, h) ==
    /\ responses # <<>> /\ responses' = Tail(responses)
    /\ UNCHANGED <<redis, asked, crowded>>
    /\ Head(responses).op = "getDevice" /\ Head(responses).origin = s
    /\ h = asked[s].handler /\ h \in Handlers

Found(u) == Head(responses).val = u

OldestFor(h, d) == requests[h] # <<>> /\ d = Head(requests[h]).device

\* OnClientLogin without the game data: they are asked for.
LEMMA UncachedLoginReplies ==
    ASSUME ReplyInv, IdInv', NEW u \in Users, NEW s, NEW h, LookedUp(s, h),
           Found(u), LoginUser(h, u, s), u \notin cached
    PROVE  ReplyInv'
<1>p. PICK c, n : c = Command("getGame", u, 0, s) /\ n = Len(commands)
  OBVIOUS
<1>1. /\ userToHandler' = [userToHandler EXCEPT ![u] = h]
      /\ commands' = Append(commands, c)
      /\ UNCHANGED <<requests, replies, raced>>
      /\ c.op = "getGame" /\ c.key = u /\ c.origin = s
  BY <1>p DEF LoginUser, Command
<1>2. /\ n \in Nat /\ DOMAIN commands = 1..n /\ DOMAIN commands' = 1..(n + 1)
      /\ \A i \in DOMAIN commands : i \in DOMAIN commands' /\ commands'[i] = commands[i]
      /\ commands'[n + 1] = c
      /\ \A i \in DOMAIN responses' : /\ i + 1 \in DOMAIN responses
                                      /\ responses'[i] = responses[i + 1]
                                      /\ i + 1 # 1 /\ i \in Nat
      /\ 1 \in DOMAIN responses /\ Head(responses) = responses[1]
  <2>1. commands \in Seq(Messages) /\ responses \in Seq(Messages)
    BY DEF ReplyInv, IdInv, TypeInv, MessagesOK
  <2>2. Users \subseteq Nat /\ s \in Nat
    <3>1. Head(responses) \in Messages
      BY <2>1, TailFacts DEF LookedUp
    <3> QED BY <3>1, LoginAssumption DEF Users, Default, Messages, LookedUp
  <2>3. c \in Messages
    BY <1>p, <2>2 DEF Command, Messages, Ops
  <2>4. /\ n \in Nat /\ DOMAIN commands = 1..n /\ DOMAIN commands' = 1..(n + 1)
        /\ \A i \in DOMAIN commands : commands'[i] = commands[i]
        /\ commands'[n + 1] = c
    BY <1>p, <1>1, <2>1, <2>3, AppendFacts
  <2>5. /\ \A i \in DOMAIN responses' : /\ i + 1 \in DOMAIN responses
                                        /\ responses'[i] = responses[i + 1]
        /\ 1 \in DOMAIN responses /\ Head(responses) = responses[1]
        /\ DOMAIN responses' = 1..(Len(responses) - 1) /\ Len(responses) \in Nat
    BY <2>1, TailFacts DEF LookedUp
  <2> QED BY <2>4, <2>5
<1>3. \A i \in DOMAIN commands' :
        \/ i \in DOMAIN commands /\ commands'[i] = commands[i]
        \/ i = n + 1 /\ commands'[i] = c
  BY <1>2
<1>4. /\ storedDevice' = storedDevice /\ storedGlobal' = storedGlobal /\ raced' = raced
      /\ asked' = asked /\ crowded' = crowded /\ requests' = requests
      /\ replies' = replies
  BY <1>1 DEF redis, LookedUp
<1>5. \A i \in DOMAIN commands : i # 1 => /\ i - 1 \in DOMAIN commands
                                          /\ commands'[i - 1] = commands[i - 1]
  BY <1>2
<1>6. /\ s \in DOMAIN asked /\ asked[s].device \in Devices
      /\ h = asked[s].handler /\ h \in Handlers
      /\ Lasting(s, u) /\ u # None
      /\ storedGlobal # None /\ u < storedGlobal
      /\ UserOf(u, asked[s].device)
      /\ Clean(h) => requests[h] # <<>> /\ Head(requests[h]).seq = s
  <2>1. u # None /\ responses[1].op = "getDevice" /\ responses[1].val = u
        /\ responses[1].origin = s /\ 1 \in DOMAIN responses
    BY <1>2, LoginAssumption DEF Users, Default, LookedUp, Found
  <2>2. ResponseLasts(1)
    BY <2>1 DEF ReplyInv, UsersLast
  <2>3. s \in DOMAIN asked /\ asked[s].device \in Devices
    BY <2>1 DEF ReplyInv, OriginsKnown, Work
  <2>4. Lasting(s, u)
    BY <2>1, <2>2 DEF ResponseLasts
  <2>5. storedGlobal # None /\ u < storedGlobal
    BY <2>1 DEF ReplyInv, PendingBelowGlobal
  <2>6. UserOf(u, asked[s].device)
    BY <2>1, <2>3 DEF UserOf
  <2>7. Clean(h) => requests[h] # <<>> /\ Head(requests[h]).seq = s
    BY <2>1 DEF ReplyInv, QueuesMatch, Work, LookedUp
  <2> QED BY <2>1, <2>3, <2>4, <2>5, <2>6, <2>7 DEF LookedUp
<1>7. OriginsKnown'
  <2>1. ASSUME NEW i \in DOMAIN commands'
        PROVE  /\ commands'[i].op \in Work =>
                    /\ commands'[i].origin \in DOMAIN asked
                    /\ asked[commands'[i].origin].device \in Devices
               /\ commands'[i].op = "getDevice" =>
                    /\ commands'[i].key = asked[commands'[i].origin].handler
                    /\ commands'[i].val = asked[commands'[i].origin].device
    <3>1. CASE i \in DOMAIN commands /\ commands'[i] = commands[i]
      BY <3>1 DEF ReplyInv, OriginsKnown
    <3>2. CASE commands'[i] = c
      BY <1>1, <1>6, <3>2
    <3> QED BY <1>3, <3>1, <3>2
  <2>2. ASSUME NEW i \in DOMAIN responses'
        PROVE  /\ responses'[i].op \in Work =>
                    /\ responses'[i].origin \in DOMAIN asked
                    /\ asked[responses'[i].origin].device \in Devices
               /\ responses'[i].op = "getDevice" =>
                    responses'[i].key = asked[responses'[i].origin].handler
    <3>1. i + 1 \in DOMAIN responses /\ responses'[i] = responses[i + 1]
      BY <1>2
    <3> QED BY <3>1 DEF ReplyInv, OriginsKnown
  <2> QED BY <1>4, <2>1, <2>2, OriginsKnownNext DEF ReplyInv
<1>8. WorkedOnOnce'
  <2>1. \A i \in DOMAIN commands : commands[i].op \in Work => commands[i].origin # s
    BY <1>2 DEF ReplyInv, WorkedOnOnce, Work, LookedUp
  <2>2. \A i \in DOMAIN responses : (responses[i].op \in Work /\ i # 1) =>
          responses[i].origin # s
    BY <1>2 DEF ReplyInv, WorkedOnOnce, Work, LookedUp
  <2>3. ASSUME NEW i \in DOMAIN commands', NEW j \in DOMAIN commands', i # j,
               commands'[i].op \in Work, commands'[j].op \in Work
        PROVE  commands'[i].origin # commands'[j].origin
    BY <1>1, <1>3, <2>1, <2>3 DEF ReplyInv, WorkedOnOnce
  <2>4. ASSUME NEW i \in DOMAIN responses', NEW j \in DOMAIN responses', i # j,
               responses'[i].op \in Work, responses'[j].op \in Work
        PROVE  responses'[i].origin # responses'[j].origin
    <3>1. /\ i + 1 \in DOMAIN responses /\ responses'[i] = responses[i + 1]
          /\ j + 1 \in DOMAIN responses /\ responses'[j] = responses[j + 1]
      BY <1>2
    <3>2. i + 1 # j + 1
      BY <1>2, <2>4
    <3> QED BY <2>4, <3>1, <3>2 DEF ReplyInv, WorkedOnOnce
  <2>5. ASSUME NEW i \in DOMAIN commands', NEW j \in DOMAIN responses',
               commands'[i].op \in Work, responses'[j].op \in Work
        PROVE  commands'[i].origin # responses'[j].origin
    <3>1. j + 1 \in DOMAIN responses /\ responses'[j] = responses[j + 1] /\ j + 1 # 1
      BY <1>2
    <3> QED BY <1>1, <1>3, <2>2, <2>5, <3>1 DEF ReplyInv, WorkedOnOnce
  <2> QED BY <2>3, <2>4, <2>5 DEF WorkedOnOnce
<1>9. PendingBelowGlobal'
  BY <1>1, <1>2, <1>3, <1>4, <1>6 DEF ReplyInv, PendingBelowGlobal
<1>10. OneDeviceEach'
  <2>1. \A x \in Users, d \in Devices : UserOf(x, d)' => UserOf(x, d)
    <3> SUFFICES ASSUME NEW x \in Users, NEW d \in Devices, UserOf(x, d)'
                 PROVE  UserOf(x, d)
      OBVIOUS
    <3>1. CASE storedDevice'[d] = x
      BY <1>4, <3>1 DEF UserOf
    <3>2. CASE \E i \in DOMAIN commands' :
                 /\ commands'[i].op = "setDevice"
                 /\ commands'[i].key = d /\ commands'[i].val = x
      BY <1>1, <1>3, <3>2 DEF UserOf
    <3>3. CASE \E i \in DOMAIN commands' :
                 /\ commands'[i].op = "getGame"
                 /\ commands'[i].key = x /\ asked'[commands'[i].origin].device = d
      <4> PICK i \in DOMAIN commands' :
             /\ commands'[i].op = "getGame"
             /\ commands'[i].key = x /\ asked'[commands'[i].origin].device = d
        BY <3>3
      <4>1. CASE i \in DOMAIN commands /\ commands'[i] = commands[i]
        BY <1>4, <4>1 DEF UserOf
      <4>2. CASE commands'[i] = c
        BY <1>1, <1>4, <1>6, <4>2
      <4> QED BY <1>3, <4>1, <4>2
    <3>4. CASE \/ \E i \in DOMAIN responses' :
                    /\ responses'[i].op = "getGame"
                    /\ responses'[i].key = x /\ asked'[responses'[i].origin].device = d
               \/ \E i \in DOMAIN responses' :
                    /\ responses'[i].op = "getDevice"
                    /\ responses'[i].val = x /\ asked'[responses'[i].origin].device = d
      <4>1. PICK i \in DOMAIN responses' :
              /\ \/ responses'[i].op = "getGame" /\ responses'[i].key = x
                 \/ responses'[i].op = "getDevice" /\ responses'[i].val = x
              /\ asked'[responses'[i].origin].device = d
        BY <3>4
      <4>2. i + 1 \in DOMAIN responses /\ responses'[i] = responses[i + 1]
        BY <1>2
      <4> QED BY <1>4, <4>1, <4>2 DEF UserOf
    <3> QED BY <3>1, <3>2, <3>3, <3>4 DEF UserOf
  <2> QED BY <2>1 DEF ReplyInv, OneDeviceEach
<1>11. LoginsFollowed' /\ RegistrationsKept'
  <2>1. \A i \in DOMAIN commands' :
          \/ i \in DOMAIN commands /\ commands'[i] = commands[i]
          \/ /\ commands'[i].op = "getGame" /\ commands'[i].key = u
             /\ commands'[i].origin = s
    BY <1>1, <1>3
  <2>2. userToHandler' = [userToHandler EXCEPT ![u] = h] /\ UNCHANGED asked
    BY <1>1, <1>4
  <2>3. /\ responses # <<>> /\ responses' = Tail(responses)
        /\ Head(responses).op = "getDevice" /\ Head(responses).val = u
        /\ Head(responses).origin = s /\ h = asked[s].handler
    BY DEF LookedUp, Found
  <2> QED BY <1>5, <2>1, <2>2, <2>3, LoginKeepsLogins, Zenon
<1>12. \A x : Clean(x)' <=> Clean(x)
  BY <1>4 DEF Clean
<1>13. QueuesMatch'
  <2>1. ASSUME NEW x, NEW i \in DOMAIN commands', commands'[i].op \in Work,
               x = asked'[commands'[i].origin].handler, Clean(x)'
        PROVE  requests'[x] # <<>> /\ Head(requests'[x]).seq = commands'[i].origin
    <3>1. Clean(x)
      BY <1>12, <2>1
    <3>2. CASE i \in DOMAIN commands /\ commands'[i] = commands[i]
      BY <1>4, <2>1, <3>1, <3>2 DEF ReplyInv, QueuesMatch
    <3>3. CASE commands'[i] = c
      BY <1>1, <1>4, <1>6, <2>1, <3>1, <3>3
    <3> QED BY <1>3, <3>2, <3>3
  <2>2. ASSUME NEW x, NEW i \in DOMAIN responses', responses'[i].op \in Work,
               x = asked'[responses'[i].origin].handler, Clean(x)'
        PROVE  requests'[x] # <<>> /\ Head(requests'[x]).seq = responses'[i].origin
    <3>1. Clean(x)
      BY <1>12, <2>2
    <3>2. i + 1 \in DOMAIN responses /\ responses'[i] = responses[i + 1]
      BY <1>2
    <3> QED BY <1>4, <2>2, <3>1, <3>2 DEF ReplyInv, QueuesMatch
  <2>3. ASSUME NEW x \in Handlers \ crowded'
        PROVE  /\ Len(requests'[x]) <= 1
               /\ requests'[x] # <<>> =>
                    \A q \in replies' : q.handler = x => q.seq < Head(requests'[x]).seq
    BY <1>4 DEF ReplyInv, QueuesMatch
  <2> QED BY <2>1, <2>2, <2>3, QueuesMatchNext
<1>14. UsersLast'
  <2>1. \A o, x : Lasting(o, x)' <=> Lasting(o, x)
    BY <1>4 DEF Lasting
  <2>2. ASSUME NEW i \in DOMAIN commands' PROVE CommandLasts(i)'
    <3>1. CASE i \in DOMAIN commands /\ commands'[i] = commands[i]
      BY <1>4, <1>5, <1>12, <2>1, <3>1 DEF ReplyInv, UsersLast, CommandLasts
    <3>2. CASE commands'[i] = c
      BY <1>1, <1>6, <2>1, <3>2 DEF CommandLasts
    <3> QED BY <1>3, <3>1, <3>2
  <2>3. ASSUME NEW i \in DOMAIN responses' PROVE ResponseLasts(i)'
    BY <1>2, <1>4, <1>12, <2>1 DEF ReplyInv, UsersLast, ResponseLasts
  <2>4. RacesKnown'
    BY <1>1, <1>3, <1>4 DEF ReplyInv, UsersLast, RacesKnown
  <2> QED BY <2>2, <2>3, <2>4 DEF UsersLast
<1>15. RepliesMatch' /\ RepliesDurable'
  BY <1>4, RepliesStay DEF ReplyInv
<1> QED BY <1>7, <1>8, <1>9, <1>10, <1>11, <1>13, <1>14, <1>15 DEF ReplyInv
-----------------------------------------------------------------------------
\* The user that is about to be registered appears nowhere yet.
LEMMA FreshUser ==
    ASSUME ReplyInv, globalId \in Nat
    PROVE  /\ \A i \in DOMAIN commands : commands[i].op \in {"setDevice", "setGame"} =>
                commands[i].val # globalId
           /\ \A i \in DOMAIN commands : commands[i].op \in {"setGame", "getGame"} =>
                commands[i].key # globalId
           /\ \A i \in DOMAIN responses : responses[i].op \in {"setGame", "getGame"} =>
                responses[i].key # globalId
           /\ \A i \in DOMAIN responses : responses[i].op = "getDevice" =>
                responses[i].val # globalId
           /\ \A d \in Devices : storedDevice[d] # globalId
<1>1. /\ storedGlobal \in Nat \cup {None} /\ globalId # None /\ None \notin Nat
      /\ storedGlobal # None => storedGlobal <= globalId
      /\ \A i \in DOMAIN commands : commands[i].op = "setGlobal" =>
           commands[i].val \in Nat /\ commands[i].val <= globalId
      /\ Users \subseteq Nat
  <2>1. storedGlobal \in Nat \cup {None} /\ globalId # None /\ None \notin Nat
        /\ Users \subseteq Nat
    BY LoginAssumption DEF ReplyInv, IdInv, TypeInv, StoredOK, Users, Default
  <2>2. /\ storedGlobal # None => storedGlobal <= globalId
        /\ \A i \in DOMAIN commands : commands[i].op = "setGlobal" =>
             commands[i].val <= globalId
    BY <2>1 DEF ReplyInv, IdInv, CountersGrow
  <2>3. \A i \in DOMAIN commands : commands[i].op = "setGlobal" => commands[i].val \in Nat
    BY DEF ReplyInv, IdInv, TypeInv, MessagesOK, CommandOK
  <2> QED BY <2>1, <2>2, <2>3
<1>2. \A i \in DOMAIN commands : commands[i].op \in {"setDevice", "setGame"} =>
        commands[i].val # globalId
  <2> SUFFICES ASSUME NEW i \in DOMAIN commands,
                      commands[i].op \in {"setDevice", "setGame"},
                      commands[i].val = globalId
               PROVE  FALSE
    OBVIOUS
  <2>1. CASE storedGlobal # None /\ commands[i].val < storedGlobal
    BY <1>1, <2>1
  <2>2. CASE \E j \in DOMAIN commands : /\ commands[j].op = "setGlobal"
                                         /\ commands[i].val < commands[j].val
    BY <1>1, <2>2
  <2> QED BY <2>1, <2>2 DEF ReplyInv, IdInv, PendingCovered
<1>3. \A i \in DOMAIN commands : commands[i].op \in {"setGame", "getGame"} =>
        commands[i].key # globalId
  <2>1. \A i \in DOMAIN commands : commands[i].op = "setGame" =>
          commands[i].key = commands[i].val
    BY DEF ReplyInv, IdInv, TypeInv, MessagesOK, CommandOK
  <2>2. \A i \in DOMAIN commands : commands[i].op = "getGame" =>
          commands[i].key # globalId
    BY <1>1 DEF ReplyInv, PendingBelowGlobal
  <2> QED BY <1>2, <2>1, <2>2
<1>4. /\ \A i \in DOMAIN responses : responses[i].op \in {"setGame", "getGame"} =>
           responses[i].key # globalId
      /\ \A i \in DOMAIN responses : responses[i].op = "getDevice" =>
           responses[i].val # globalId
  BY <1>1 DEF ReplyInv, PendingBelowGlobal
<1>5. \A d \in Devices : storedDevice[d] # globalId
  <2> SUFFICES ASSUME NEW d \in Devices, storedDevice[d] = globalId PROVE FALSE
    OBVIOUS
  <2>1. storedGlobal # None /\ globalId < storedGlobal
    BY <1>1 DEF ReplyInv, IdInv, IdsBelowGlobal
  <2> QED BY <1>1, <2>1
<1> QED BY <1>2, <1>3, <1>4, <1>5

\* RegisterProcess: the user is new, and the device is the one of the request.
LEMMA RegisterReplies ==
    ASSUME ReplyInv, IdInv', NEW s, NEW h, NEW d, LookedUp(s, h),
           OldestFor(h, d), d \in Devices, Register(h, d, s)
    PROVE  ReplyInv'
<1>p. PICK u, n, a, b, c : /\ u = globalId /\ n = Len(commands)
                           /\ a = Command("setGlobal", 0, u + 1, 0)
                           /\ b = Command("setDevice", d, u, 0)
                           /\ c = Command("setGame", u, u, s)
  OBVIOUS
<1>0. /\ userToHandler' = [userToHandler EXCEPT ![u] = h]
      /\ commands' = commands \o <<a, b, c>>
      /\ UNCHANGED <<requests, replies>>
  BY <1>p DEF Register, Registration
<1>1. /\ a.op = "setGlobal"
      /\ b.op = "setDevice" /\ b.key = d /\ b.val = u
      /\ c.op = "setGame" /\ c.key = u /\ c.val = u /\ c.origin = s
      /\ u \in Users /\ u \in Nat /\ globalId \in Nat
  <2>1. u \in Users
    BY <1>p DEF Register
  <2> QED BY <1>p, <2>1, LoginAssumption DEF Command, Users, Default
<1>2. /\ n \in Nat /\ DOMAIN commands = 1..n /\ DOMAIN commands' = 1..(n + 3)
      /\ \A i \in DOMAIN commands : i \in DOMAIN commands' /\ commands'[i] = commands[i]
      /\ commands'[n + 1] = a /\ commands'[n + 2] = b /\ commands'[n + 3] = c
      /\ \A i \in DOMAIN responses' : /\ i + 1 \in DOMAIN responses
                                      /\ responses'[i] = responses[i + 1]
                                      /\ i + 1 # 1 /\ i \in Nat
      /\ 1 \in DOMAIN responses /\ Head(responses) = responses[1]
  <2>1. commands \in Seq(Messages) /\ responses \in Seq(Messages)
    BY DEF ReplyInv, IdInv, TypeInv, MessagesOK
  <2>2. Users \subseteq Nat /\ s \in Nat
    <3>1. Head(responses) \in Messages
      BY <2>1, TailFacts DEF LookedUp
    <3> QED BY <3>1, LoginAssumption DEF Users, Default, Messages, LookedUp
  <2>3. a \in Messages /\ b \in Messages /\ c \in Messages
    BY <1>p, <1>1, <2>2 DEF Command, Messages, Ops
  <2>4. /\ n \in Nat /\ DOMAIN commands = 1..n /\ DOMAIN commands' = 1..(n + 3)
        /\ \A i \in DOMAIN commands : commands'[i] = commands[i]
        /\ commands'[n + 1] = a /\ commands'[n + 2] = b /\ commands'[n + 3] = c
    BY <1>p, <1>0, <2>1, <2>3, RegistrationFacts
  <2>5. /\ \A i \in DOMAIN responses' : /\ i + 1 \in DOMAIN responses
                                        /\ responses'[i] = responses[i + 1]
        /\ 1 \in DOMAIN responses /\ Head(responses) = responses[1]
        /\ DOMAIN responses' = 1..(Len(responses) - 1) /\ Len(responses) \in Nat
    BY <2>1, TailFacts DEF LookedUp
  <2> QED BY <2>4, <2>5
<1>3. \A i \in DOMAIN commands' :
        \/ i \in DOMAIN commands /\ commands'[i] = commands[i]
        \/ i = n + 1 /\ commands'[i] = a
        \/ i = n + 2 /\ commands'[i] = b
        \/ i = n + 3 /\ commands'[i] = c
  <2> SUFFICES ASSUME NEW i \in DOMAIN commands', i \notin DOMAIN commands
               PROVE  \/ i = n + 1 /\ commands'[i] = a
                      \/ i = n + 2 /\ commands'[i] = b
                      \/ i = n + 3 /\ commands'[i] = c
    BY <1>2
  <2>1. n \in Nat /\ i \in 1..(n + 3) /\ i \notin 1..n
    BY <1>2
  <2>2. i = n + 1 \/ i = n + 2 \/ i = n + 3
    BY <2>1
  <2> QED BY <1>2, <2>2
<1>4. /\ storedDevice' = storedDevice /\ storedGlobal' = storedGlobal
      /\ asked' = asked /\ crowded' = crowded /\ requests' = requests
      /\ replies' = replies /\ raced \subseteq raced'
  BY <1>0 DEF redis, Register, LookedUp
<1>5. /\ \A i \in DOMAIN commands : i # 1 => /\ i - 1 \in DOMAIN commands
                                             /\ commands'[i - 1] = commands[i - 1]
      /\ n + 2 \in DOMAIN commands' /\ n + 3 # 1
      /\ \A i : i = n + 3 => i - 1 = n + 2
      /\ n + 2 \notin DOMAIN commands
  BY <1>2
<1>6. /\ s \in DOMAIN asked /\ asked[s].device \in Devices /\ asked[s].handler = h
      /\ Clean(h) => /\ Head(requests[h]).seq = s
                     /\ asked[s].device = d
  <2>1. responses[1].op = "getDevice" /\ responses[1].origin = s
        /\ 1 \in DOMAIN responses
    BY <1>2 DEF LookedUp
  <2>2. s \in DOMAIN asked /\ asked[s].device \in Devices
    BY <2>1 DEF ReplyInv, OriginsKnown, Work, LookedUp
  <2>3. Clean(h) => Head(requests[h]).seq = s
    BY <2>1 DEF ReplyInv, QueuesMatch, Work, LookedUp
  <2>4. asked[Head(requests[h]).seq].device = d
    <3>1. requests[h] \in Seq(Request)
      BY DEF ReplyInv, IdInv, TypeInv, ManagersOK, LookedUp
    <3>2. 1 \in DOMAIN requests[h] /\ Head(requests[h]) = requests[h][1]
      BY <3>1, TailFacts DEF OldestFor
    <3>3. h \in Handlers /\ d = requests[h][1].device
      BY <3>2 DEF LookedUp, OldestFor
    <3>4. asked[requests[h][1].seq].device = requests[h][1].device
      BY <3>2, <3>3 DEF ReplyInv, OriginsKnown
    <3> QED BY <3>2, <3>3, <3>4
  <2> QED BY <2>2, <2>3, <2>4 DEF LookedUp
<1>7. OriginsKnown'
  <2>1. \A i \in DOMAIN commands' :
          /\ commands'[i].op \in Work =>
               /\ commands'[i].origin \in DOMAIN asked
               /\ asked[commands'[i].origin].device \in Devices
          /\ commands'[i].op = "getDevice" =>
               /\ commands'[i].key = asked[commands'[i].origin].handler
               /\ commands'[i].val = asked[commands'[i].origin].device
    <3> SUFFICES ASSUME NEW i \in DOMAIN commands'
                 PROVE  /\ commands'[i].op \in Work =>
                             /\ commands'[i].origin \in DOMAIN asked
                             /\ asked[commands'[i].origin].device \in Devices
                        /\ commands'[i].op = "getDevice" =>
                             /\ commands'[i].key = asked[commands'[i].origin].handler
                             /\ commands'[i].val = asked[commands'[i].origin].device
      OBVIOUS
    <3>1. CASE i \in DOMAIN commands /\ commands'[i] = commands[i]
      BY <3>1 DEF ReplyInv, OriginsKnown
    <3>2. CASE commands'[i] = a \/ commands'[i] = b \/ commands'[i] = c
      BY <1>1, <1>6, <3>2 DEF Work
    <3> QED BY <1>3, <3>1, <3>2
  <2>2. \A i \in DOMAIN responses' :
          /\ responses'[i].op \in Work =>
               /\ responses'[i].origin \in DOMAIN asked
               /\ asked[responses'[i].origin].device \in Devices
          /\ responses'[i].op = "getDevice" =>
               responses'[i].key = asked[responses'[i].origin].handler
    BY <1>2 DEF ReplyInv, OriginsKnown
  <2> QED BY <1>4, <2>1, <2>2 DEF ReplyInv, OriginsKnown
<1>8. WorkedOnOnce'
  <2>1. \A i \in DOMAIN commands : commands[i].op \in Work => commands[i].origin # s
    BY <1>2 DEF ReplyInv, WorkedOnOnce, Work, LookedUp
  <2>2. \A i \in DOMAIN responses : (responses[i].op \in Work /\ i # 1) =>
          responses[i].origin # s
    BY <1>2 DEF ReplyInv, WorkedOnOnce, Work, LookedUp
  <2>3. \A i \in DOMAIN commands' : commands'[i].op \in Work =>
          \/ i \in DOMAIN commands /\ commands'[i] = commands[i]
          \/ i = n + 3 /\ commands'[i] = c
    BY <1>1, <1>3 DEF Work
  <2>4. \A i, j \in DOMAIN commands' :
          (commands'[i].op \in Work /\ commands'[j].op \in Work /\ i # j) =>
            commands'[i].origin # commands'[j].origin
    BY <1>1, <2>1, <2>3 DEF ReplyInv, WorkedOnOnce
  <2>5. \A i, j \in DOMAIN responses' :
          (responses'[i].op \in Work /\ responses'[j].op \in Work /\ i # j) =>
            responses'[i].origin # responses'[j].origin
    <3> SUFFICES ASSUME NEW i \in DOMAIN responses', NEW j \in DOMAIN responses',
                        responses'[i].op \in Work, responses'[j].op \in Work, i # j
                 PROVE  responses'[i].origin # responses'[j].origin
      OBVIOUS
    <3>1. /\ i + 1 \in DOMAIN responses /\ responses'[i] = responses[i + 1]
          /\ j + 1 \in DOMAIN responses /\ responses'[j] = responses[j + 1]
          /\ i + 1 # j + 1
      BY <1>2
    <3> QED BY <3>1 DEF ReplyInv, WorkedOnOnce
  <2>6. \A i \in DOMAIN commands', j \in DOMAIN responses' :
          (commands'[i].op \in Work /\ responses'[j].op \in Work) =>
            commands'[i].origin # responses'[j].origin
    <3> SUFFICES ASSUME NEW i \in DOMAIN commands', NEW j \in DOMAIN responses',
                        commands'[i].op \in Work, responses'[j].op \in Work
                 PROVE  commands'[i].origin # responses'[j].origin
      OBVIOUS
    <3>1. /\ j + 1 \in DOMAIN responses /\ responses'[j] = responses[j + 1]
          /\ j + 1 # 1
      BY <1>2
    <3> QED BY <1>1, <2>2, <2>3, <3>1 DEF ReplyInv, WorkedOnOnce
  <2> QED BY <2>4, <2>5, <2>6 DEF WorkedOnOnce
<1>9. PendingBelowGlobal'
  <2>1. \A i \in DOMAIN commands' : commands'[i].op = "getGame" =>
          i \in DOMAIN commands /\ commands'[i] = commands[i]
    BY <1>1, <1>3
  <2> QED BY <1>2, <1>4, <2>1 DEF ReplyInv, PendingBelowGlobal
<1>10. /\ \A i \in DOMAIN commands : commands[i].op = "setDevice" => commands[i].val # u
       /\ \A i \in DOMAIN commands : commands[i].op \in {"setGame", "getGame"} =>
            commands[i].key # u
       /\ \A i \in DOMAIN responses : responses[i].op \in {"setGame", "getGame"} =>
            responses[i].key # u
       /\ \A i \in DOMAIN responses : responses[i].op = "getDevice" =>
            responses[i].val # u
       /\ \A e \in Devices : storedDevice[e] # u
  BY <1>p, <1>1, FreshUser
<1>11. OneDeviceEach'
  <2>1. \A x \in Users, e \in Devices : UserOf(x, e)' =>
          UserOf(x, e) \/ (x = u /\ e = d)
    <3> SUFFICES ASSUME NEW x \in Users, NEW e \in Devices, UserOf(x, e)',
                        ~ (x = u /\ e = d)
                 PROVE  UserOf(x, e)
      OBVIOUS
    <3>1. CASE storedDevice'[e] = x
      BY <1>4, <3>1 DEF UserOf
    <3>2. CASE \E i \in DOMAIN commands' :
                 /\ commands'[i].op = "setDevice"
                 /\ commands'[i].key = e /\ commands'[i].val = x
      <4>1. PICK i \in DOMAIN commands' :
              /\ commands'[i].op = "setDevice"
              /\ commands'[i].key = e /\ commands'[i].val = x
        BY <3>2
      <4>2. i \in DOMAIN commands /\ commands'[i] = commands[i]
        BY <1>1, <1>3, <4>1
      <4> QED BY <4>1, <4>2 DEF UserOf
    <3>3. CASE \E i \in DOMAIN commands' :
                 /\ commands'[i].op = "getGame"
                 /\ commands'[i].key = x /\ asked'[commands'[i].origin].device = e
      <4>1. PICK i \in DOMAIN commands' :
              /\ commands'[i].op = "getGame"
              /\ commands'[i].key = x /\ asked'[commands'[i].origin].device = e
        BY <3>3
      <4>2. i \in DOMAIN commands /\ commands'[i] = commands[i]
        BY <1>1, <1>3, <4>1
      <4> QED BY <1>4, <4>1, <4>2 DEF UserOf
    <3>4. CASE \/ \E i \in DOMAIN responses' :
                    /\ responses'[i].op = "getGame"
                    /\ responses'[i].key = x /\ asked'[responses'[i].origin].device = e
               \/ \E i \in DOMAIN responses' :
                    /\ responses'[i].op = "getDevice"
                    /\ responses'[i].val = x /\ asked'[responses'[i].origin].device = e
      <4>1. PICK i \in DOMAIN responses' :
              /\ \/ responses'[i].op = "getGame" /\ responses'[i].key = x
                 \/ responses'[i].op = "getDevice" /\ responses'[i].val = x
              /\ asked'[responses'[i].origin].device = e
        BY <3>4
      <4>2. i + 1 \in DOMAIN responses /\ responses'[i] = responses[i + 1]
        BY <1>2
      <4> QED BY <1>4, <4>1, <4>2 DEF UserOf
    <3> QED BY <3>1, <3>2, <3>3, <3>4 DEF UserOf
  <2>2. \A e \in Devices : ~ UserOf(u, e)
    BY <1>10 DEF UserOf
  <2> QED BY <2>1, <2>2 DEF ReplyInv, OneDeviceEach
<1>12. /\ userToHandler'[u] = h
       /\ \A x \in Users : x # u => userToHandler'[x] = userToHandler[x]
       /\ \A i \in DOMAIN commands : commands[i].op \in {"setGame", "getGame"} =>
            commands[i].key \in Users
       /\ \A i \in DOMAIN responses : responses[i].op \in {"setGame", "getGame"} =>
            responses[i].key \in Users
  <2>1. userToHandler \in [Users -> Handlers \cup {None}]
    BY DEF ReplyInv, IdInv, TypeInv, ManagersOK
  <2>2. /\ \A i \in DOMAIN commands : commands[i].op \in {"setGame", "getGame"} =>
             commands[i].key \in Users
        /\ \A i \in DOMAIN responses : responses[i].op \in {"setGame", "getGame"} =>
             responses[i].key \in Users
    BY DEF ReplyInv, IdInv, TypeInv, MessagesOK, CommandOK, ResponseOK
  <2> QED BY <1>0, <1>1, <2>1, <2>2
<1>13. LoginsFollowed'
  <2>1. ASSUME NEW i \in DOMAIN commands', commands'[i].op = "getGame",
               userToHandler'[commands'[i].key] # None
        PROVE  AskedFor(userToHandler'[commands'[i].key],
                        asked[commands'[i].origin].device)
    <3>1. i \in DOMAIN commands /\ commands'[i] = commands[i]
      BY <1>1, <1>3, <2>1
    <3>2. userToHandler'[commands[i].key] = userToHandler[commands[i].key]
      BY <1>10, <1>12, <2>1, <3>1
    <3> QED BY <2>1, <3>1, <3>2 DEF ReplyInv, LoginsFollowed
  <2>2. ASSUME NEW i \in DOMAIN responses', responses'[i].op = "getGame",
               userToHandler'[responses'[i].key] # None
        PROVE  AskedFor(userToHandler'[responses'[i].key],
                        asked[responses'[i].origin].device)
    <3>1. i + 1 \in DOMAIN responses /\ responses'[i] = responses[i + 1]
      BY <1>2
    <3>2. userToHandler'[responses'[i].key] = userToHandler[responses'[i].key]
      BY <1>10, <1>12, <2>2, <3>1
    <3> QED BY <2>2, <3>1, <3>2 DEF ReplyInv, LoginsFollowed
  <2> QED BY <1>4, <2>1, <2>2 DEF LoginsFollowed, AskedFor
<1>14. RegistrationsKept'
  <2>1. \A i \in DOMAIN commands' : commands'[i].op = "setGame" =>
          \/ i \in DOMAIN commands /\ commands'[i] = commands[i]
          \/ i = n + 3 /\ commands'[i] = c
    BY <1>1, <1>3
  <2>2. ASSUME NEW i \in DOMAIN commands', commands'[i].op = "setGame"
        PROVE  /\ userToHandler'[commands'[i].key] = asked'[commands'[i].origin].handler
               /\ i # 1 => /\ commands'[i - 1].op = "setDevice"
                           /\ commands'[i - 1].val = commands'[i].key
    <3>1. CASE i \in DOMAIN commands /\ commands'[i] = commands[i]
      <4>1. userToHandler'[commands[i].key] = userToHandler[commands[i].key]
        BY <1>10, <1>12, <2>2, <3>1
      <4> QED BY <1>4, <1>5, <2>2, <3>1, <4>1 DEF ReplyInv, RegistrationsKept
    <3>2. CASE i = n + 3 /\ commands'[i] = c
      <4>1. i - 1 = n + 2
        BY <1>5, <3>2
      <4> QED BY <1>1, <1>2, <1>4, <1>6, <1>12, <3>2, <4>1
    <3> QED BY <2>1, <2>2, <3>1, <3>2
  <2>3. \A i \in DOMAIN responses' : responses'[i].op = "setGame" =>
          userToHandler'[responses'[i].key] = asked'[responses'[i].origin].handler
    BY <1>2, <1>4, <1>10, <1>12 DEF ReplyInv, RegistrationsKept
  <2>4. \A i \in DOMAIN commands', j \in DOMAIN responses' :
          (commands'[i].op = "setGame" /\ responses'[j].op = "getDevice") =>
            responses'[j].val # commands'[i].key
    <3> SUFFICES ASSUME NEW i \in DOMAIN commands', NEW j \in DOMAIN responses',
                        commands'[i].op = "setGame", responses'[j].op = "getDevice"
                 PROVE  responses'[j].val # commands'[i].key
      OBVIOUS
    <3>1. /\ j + 1 \in DOMAIN responses /\ responses'[j] = responses[j + 1]
      BY <1>2
    <3>2. responses[j + 1].val # u
      BY <1>10, <3>1
    <3> QED BY <1>1, <2>1, <3>1, <3>2 DEF ReplyInv, RegistrationsKept
  <2>5. \A i, j \in DOMAIN responses' :
          (/\ responses'[i].op = "setGame" /\ responses'[j].op = "getDevice"
           /\ responses'[j].val = responses'[i].key) => i < j
    <3> SUFFICES ASSUME NEW i \in DOMAIN responses', NEW j \in DOMAIN responses',
                        responses'[i].op = "setGame", responses'[j].op = "getDevice",
                        responses'[j].val = responses'[i].key
                 PROVE  i < j
      OBVIOUS
    <3>1. /\ i + 1 \in DOMAIN responses /\ responses'[i] = responses[i + 1] /\ i \in Nat
          /\ j + 1 \in DOMAIN responses /\ responses'[j] = responses[j + 1] /\ j \in Nat
      BY <1>2
    <3>2. i + 1 < j + 1
      BY <3>1 DEF ReplyInv, RegistrationsKept
    <3> QED BY <3>1, <3>2
  <2> QED BY <2>2, <2>3, <2>4, <2>5 DEF RegistrationsKept
<1>15. \A x : Clean(x)' <=> Clean(x)
  BY <1>4 DEF Clean
<1>16. QueuesMatch'
  <2>1. ASSUME NEW x, NEW i \in DOMAIN commands', commands'[i].op \in Work,
               x = asked'[commands'[i].origin].handler, Clean(x)'
        PROVE  requests'[x] # <<>> /\ Head(requests'[x]).seq = commands'[i].origin
    <3>1. Clean(x)
      BY <1>15, <2>1
    <3>2. CASE i \in DOMAIN commands /\ commands'[i] = commands[i]
      BY <1>4, <2>1, <3>1, <3>2 DEF ReplyInv, QueuesMatch
    <3>3. CASE commands'[i] = c
      <4>1. x = h
        BY <1>1, <1>4, <1>6, <2>1, <3>3
      <4>2. requests[h] # <<>>
        BY DEF OldestFor
      <4> QED BY <1>1, <1>4, <1>6, <2>1, <3>1, <3>3, <4>1, <4>2
    <3> QED BY <1>1, <1>3, <2>1, <3>2, <3>3 DEF Work
  <2>2. ASSUME NEW x, NEW i \in DOMAIN responses', responses'[i].op \in Work,
               x = asked'[responses'[i].origin].handler, Clean(x)'
        PROVE  requests'[x] # <<>> /\ Head(requests'[x]).seq = responses'[i].origin
    <3>1. Clean(x)
      BY <1>15, <2>2
    <3>2. i + 1 \in DOMAIN responses /\ responses'[i] = responses[i + 1]
      BY <1>2
    <3> QED BY <1>4, <2>2, <3>1, <3>2 DEF ReplyInv, QueuesMatch
  <2>3. ASSUME NEW x \in Handlers \ crowded'
        PROVE  /\ Len(requests'[x]) <= 1
               /\ requests'[x] # <<>> =>
                    \A q \in replies' : q.handler = x => q.seq < Head(requests'[x]).seq
    BY <1>4 DEF ReplyInv, QueuesMatch
  <2> QED BY <2>1, <2>2, <2>3, QueuesMatchNext
<1>17. UsersLast'
  <2>1. \A o, x : Lasting(o, x) => Lasting(o, x)'
    BY <1>4 DEF Lasting
  <2>2. ASSUME NEW i \in DOMAIN commands' PROVE CommandLasts(i)'
    <3>1. CASE i \in DOMAIN commands /\ commands'[i] = commands[i]
      BY <1>4, <1>5, <1>15, <2>1, <3>1 DEF ReplyInv, UsersLast, CommandLasts
    <3>2. CASE commands'[i] = a \/ commands'[i] = b
      BY <1>1, <3>2 DEF CommandLasts
    <3>3. CASE i = n + 3 /\ commands'[i] = c
      <4>1. i # 1 /\ commands'[i - 1] = b
        BY <1>2, <1>5, <3>3
      <4> QED BY <1>1, <1>4, <1>6, <1>15, <3>3, <4>1 DEF CommandLasts
    <3> QED BY <1>3, <3>1, <3>2, <3>3
  <2>3. ASSUME NEW i \in DOMAIN responses' PROVE ResponseLasts(i)'
    BY <1>2, <1>4, <1>15, <2>1 DEF ReplyInv, UsersLast, ResponseLasts
  <2>4. RacesKnown'
    <3>1. d \notin raced' =>
            /\ storedDevice[d] = None
            /\ \A i \in DOMAIN commands :
                 ~ (commands[i].op = "setDevice" /\ commands[i].key = d)
      BY DEF Register
    <3>2. \A i \in DOMAIN commands' : commands'[i].op = "setDevice" =>
            \/ i \in DOMAIN commands /\ commands'[i] = commands[i]
            \/ i = n + 2 /\ commands'[i] = b
      BY <1>1, <1>3
    <3> SUFFICES ASSUME NEW e \in Devices \ raced'
                 PROVE  /\ \A i \in DOMAIN commands' :
                             (commands'[i].op = "setDevice" /\ commands'[i].key = e)
                               => storedDevice[e] = None
                        /\ \A i, j \in DOMAIN commands' :
                             (/\ commands'[i].op = "setDevice" /\ commands'[i].key = e
                              /\ commands'[j].op = "setDevice" /\ commands'[j].key = e)
                               => i = j
      <4>1. storedDevice' = storedDevice
        BY <1>4
      <4> QED BY <4>1, Zenon DEF RacesKnown
    <3>3. CASE e = d
      BY <1>1, <3>1, <3>2, <3>3
    <3>4. CASE e # d
      <4>1. \A i \in DOMAIN commands' :
              (commands'[i].op = "setDevice" /\ commands'[i].key = e) =>
                i \in DOMAIN commands /\ commands'[i] = commands[i]
        BY <1>1, <3>2, <3>4
      <4>2. e \in Devices \ raced
        BY <1>4
      <4> QED BY <4>1, <4>2 DEF ReplyInv, UsersLast, RacesKnown
    <3> QED BY <3>3, <3>4
  <2> QED BY <2>2, <2>3, <2>4 DEF UsersLast
<1>18. RepliesMatch' /\ RepliesDurable'
  BY <1>4, RepliesStay DEF ReplyInv
<1> QED BY <1>7, <1>8, <1>9, <1>11, <1>13, <1>14, <1>16, <1>17, <1>18 DEF ReplyInv

LEMMA DeviceBackReplies ==
    ASSUME ReplyInv, IdInv', DeviceBack
    PROVE  ReplyInv'
<1> PICK r : r = Head(responses)
  OBVIOUS
<1> PICK h : h = r.key
  OBVIOUS
<1> PICK d : d = Head(requests[h]).device
  OBVIOUS
<1>1. /\ responses # <<>> /\ responses' = Tail(responses) /\ TypeInv'
      /\ UNCHANGED redis /\ UNCHANGED asked /\ UNCHANGED crowded
      /\ h \in Handlers /\ r.val \in Users \cup {None} /\ r.op = "getDevice"
      /\ None \notin Users
  <2>1. Back("getDevice") /\ TypeInv /\ TypeInv'
    BY DEF DeviceBack, ReplyInv, IdInv
  <2>2. h \in Handlers /\ r.val \in Users \cup {None}
    BY <2>1, BackTypes DEF ResponseOK
  <2> QED BY <2>1, <2>2, LoginAssumption DEF Back, past, Users, Default
<1>2. h = asked[r.origin].handler
  <2>1. responses \in Seq(Messages)
    BY DEF ReplyInv, IdInv, TypeInv, MessagesOK
  <2>2. 1 \in DOMAIN responses /\ r = responses[1]
    BY <1>1, <2>1, TailFacts
  <2> QED BY <1>1, <2>2 DEF ReplyInv, OriginsKnown
<1>3. CASE requests[h] = <<>>
  <2>1. UNCHANGED <<commands, raced, requests, replies, userToHandler>>
    BY <1>3 DEF DeviceBack, lua
  <2>2. OriginsKnown' /\ QueuesMatch' /\ RepliesMatch' /\ RepliesDurable'
    BY <1>1, <2>1, SilenceKeepsReplies
  <2>3. WorkedOnOnce' /\ PendingBelowGlobal' /\ OneDeviceEach' /\ UsersLast'
    BY <1>1, <2>1, DeliverKeepsWork
  <2>4. LoginsFollowed' /\ RegistrationsKept'
    BY <1>1, <2>1, DeliverKeepsLogins
  <2> QED BY <2>2, <2>3, <2>4 DEF ReplyInv
<1>4. CASE requests[h] # <<>> /\ r.val # None
  <2>1. LoginUser(h, r.val, r.origin) /\ r.val \in Users
    BY <1>1, <1>4 DEF DeviceBack
  <2>2. CASE r.val \in cached
    BY <1>1, <1>2, <2>1, <2>2, CachedLoginReplies
  <2>3. CASE r.val \notin cached
    <3>1. LookedUp(r.origin, h) /\ Found(r.val)
      BY <1>1, <1>2 DEF LookedUp, Found
    <3> QED BY <1>1, <2>1, <2>3, <3>1, UncachedLoginReplies
  <2> QED BY <2>2, <2>3
<1>5. CASE requests[h] # <<>> /\ r.val = None /\ d # None
  <2>1. Register(h, d, r.origin)
    BY <1>5 DEF DeviceBack
  <2>2. d \in Devices
    <3>1. requests[h] \in Seq(Request)
      BY <1>1 DEF ReplyInv, IdInv, TypeInv, ManagersOK
    <3>2. Head(requests[h]) \in Request
      BY <1>5, <3>1, TailFacts
    <3> QED BY <1>5, <3>2 DEF Request
  <2>3. LookedUp(r.origin, h) /\ OldestFor(h, d)
    BY <1>1, <1>2, <1>5 DEF LookedUp, OldestFor
  <2> QED BY <2>1, <2>2, <2>3, RegisterReplies
<1>6. CASE requests[h] # <<>> /\ r.val = None /\ d = None
  <2>1. /\ SendToGateway(h, Oldest(requests[h]), None, r.origin, requests[h])
        /\ UNCHANGED <<userToHandler, commands, raced>>
    BY <1>6 DEF DeviceBack
  <2>2. Head(responses).op \in Work /\ replies \subseteq replies'
    BY <1>1, <2>1 DEF Work, SendToGateway
  <2>3. OriginsKnown' /\ QueuesMatch' /\ RepliesMatch' /\ RepliesDurable'
    BY <1>1, <1>2, <2>1, <2>2, AnswerKeepsReplies
  <2>4. WorkedOnOnce' /\ PendingBelowGlobal' /\ OneDeviceEach' /\ UsersLast'
    BY <1>1, <2>1, <2>2, DeliverKeepsWork
  <2>5. LoginsFollowed' /\ RegistrationsKept'
    BY <1>1, <2>1, DeliverKeepsLogins
  <2> QED BY <2>3, <2>4, <2>5 DEF ReplyInv
<1> QED BY <1>3, <1>4, <1>5, <1>6

LEMMA RepliesInductive == ReplyInv /\ [Next]_vars => ReplyInv'
<1> SUFFICES ASSUME ReplyInv, [Next]_vars PROVE ReplyInv'
  OBVIOUS
<1>0. IdInv'
  BY IdsInductive DEF ReplyInv
<1>1. ASSUME NEW h \in Handlers,
             \/ \E d \in Devices : LoginDirect(h, d)
             \/ LoginBadParameters(h) \/ LoginParametersRaise(h) \/ OtherEvent(h)
      PROVE  ReplyInv'
  BY <1>0, <1>1, RequestReplies
<1>2. CASE RedisExecutes
  BY <1>0, <1>2, RedisReplies
<1>3. CASE GlobalBack
  BY <1>0, <1>3, GlobalBackReplies
<1>4. CASE DeviceBack
  BY <1>0, <1>4, DeviceBackReplies
<1>5. CASE RegisteringBack
  BY <1>0, <1>5, RegisteringBackReplies
<1>6. CASE GameBack
  BY <1>0, <1>6, GameBackReplies
<1>7. CASE Crash
  BY <1>0, <1>7, CrashReplies
<1>8. CASE UNCHANGED vars
  <2>1. /\ UNCHANGED <<userToHandler, requests, commands, responses>>
        /\ UNCHANGED <<storedGlobal, storedDevice, asked, replies, crowded, raced>>
    BY <1>8 DEF vars, lua, redis, past
  <2>2. OriginsKnown' /\ WorkedOnOnce' /\ PendingBelowGlobal' /\ LoginsFollowed'
    <3>1. OriginsKnown'
      BY <2>1 DEF ReplyInv, OriginsKnown
    <3>2. WorkedOnOnce' /\ PendingBelowGlobal'
      BY <2>1 DEF ReplyInv, WorkedOnOnce, PendingBelowGlobal
    <3>3. LoginsFollowed'
      BY <2>1 DEF ReplyInv, LoginsFollowed, AskedFor
    <3> QED BY <3>1, <3>2, <3>3
  <2>3. OneDeviceEach' /\ RegistrationsKept'
    <3>1. OneDeviceEach'
      BY <2>1 DEF ReplyInv, OneDeviceEach, UserOf
    <3>2. RegistrationsKept'
      BY <2>1 DEF ReplyInv, RegistrationsKept
    <3> QED BY <3>1, <3>2
  <2>4. QueuesMatch' /\ UsersLast'
    <3>1. \A x : Clean(x)' <=> Clean(x)
      BY <2>1 DEF Clean
    <3>2. QueuesMatch'
      BY <2>1, <3>1 DEF ReplyInv, QueuesMatch
    <3>3. RacesKnown'
      BY <2>1 DEF ReplyInv, UsersLast, RacesKnown
    <3>4. /\ \A i \in DOMAIN commands : CommandLasts(i)'
          /\ \A i \in DOMAIN responses : ResponseLasts(i)'
      BY <2>1, <3>1 DEF ReplyInv, UsersLast, CommandLasts, ResponseLasts, Lasting
    <3> QED BY <2>1, <3>2, <3>3, <3>4 DEF UsersLast
  <2>5. RepliesMatch' /\ RepliesDurable'
    BY <2>1 DEF ReplyInv, RepliesMatch, RepliesDurable, Confused
  <2> QED BY <1>0, <2>2, <2>3, <2>4, <2>5 DEF ReplyInv
<1> QED BY <1>1, <1>2, <1>3, <1>4, <1>5, <1>6, <1>7, <1>8 DEF Next

\* The answer for a request goes to the connection that sent it under its sequence
\* id, or to another one of the same device, unless answers were mixed up on that
\* connection before: m_tbRequestSquence is only right one request at a time.
THEOREM RepliesReachTheAsker == Spec => []RepliesMatch
<1>1. ReplyInv => RepliesMatch
  BY DEF ReplyInv
<1> QED BY <1>1, InitReplies, RepliesInductive, PTL DEF Spec

\* A user that a client was told is stored for its device, whatever the server's
\* crashes lose: REGISTERING is answered for the last key of a registration only.
THEOREM UsersToldAreDurable == Spec => []RepliesDurable
<1>1. ReplyInv => RepliesDurable
  BY DEF ReplyInv
<1> QED BY <1>1, InitReplies, RepliesInductive, PTL DEF Spec
=============================================================================
