--------------------------- MODULE DBProxyProofs ---------------------------
(***************************************************************************)
(* What the database client guarantees for any keys, requests, lost        *)
(* connections and crashes.                                                *)
(***************************************************************************)
EXTENDS DBProxy, FiniteSetTheorems, TLAPS

-----------------------------------------------------------------------------
(* The handlers of the redis thread, and queues. *)

IsWrite(r) == r.op \in Writes \cup Deletions
Answered == {"set", "get", "gets", "hset", "hget"}
Named    == Answered \ {"hget"}

LEMMA OnRequestOf ==
    ASSUME NEW op \in Ops
    PROVE  /\ OnRequest[op].copies <=> op \in Writes \cup Deletions
           /\ OnRequest[op].answers <=> op \in Answered
           /\ OnRequest[op].names <=> op \in Named
           /\ OnRequest[op].frees <=> op \in Answered \ {"gets"}
           /\ op \in Writes \cup Deletions \/ op \in {"get", "gets", "hget", "expire"}
  BY DBAssumption
     DEF Writes, Deletions, Answered, Named, OnRequest, OnRequestSet, OnRequestGet,
         OnRequestGets, OnRequestHSet, OnRequestHGet, OnRequestDel, OnRequestHDel,
         OnRequestExpire

LEMMA Pushed ==
    ASSUME NEW T, NEW q \in Seq(T), NEW x \in T
    PROVE  /\ Append(q, x) \in Seq(T)
           /\ DOMAIN Append(q, x) = 1..(Len(q) + 1)
           /\ Len(q) \in Nat /\ Len(Append(q, x)) = Len(q) + 1 /\ DOMAIN q = 1..Len(q)
           /\ \A j \in 1..Len(q) : Append(q, x)[j] = q[j]
           /\ Append(q, x)[Len(q) + 1] = x
           /\ Elements(Append(q, x)) = Elements(q) \cup {x}
<1> PICK n \in Nat : n = Len(q)
  OBVIOUS
<1> PICK r : r = Append(q, x)
  OBVIOUS
<1>1. /\ r \in Seq(T) /\ DOMAIN r = 1..(n + 1) /\ Len(r) = n + 1
      /\ DOMAIN q = 1..n
      /\ \A j \in 1..n : r[j] = q[j]
      /\ r[n + 1] = x
  OBVIOUS
<1>2. Elements(r) = Elements(q) \cup {x}
  <2>1. 1..(n + 1) = (1..n) \cup {n + 1}
    OBVIOUS
  <2> QED BY <1>1, <2>1 DEF Elements
<1> QED BY <1>1, <1>2

LEMMA Popped ==
    ASSUME NEW T, NEW q \in Seq(T), q # <<>>
    PROVE  /\ Tail(q) \in Seq(T) /\ Head(q) \in T
           /\ Len(q) \in Nat \ {0} /\ Len(Tail(q)) = Len(q) - 1
           /\ DOMAIN q = 1..Len(q) /\ DOMAIN Tail(q) = 1..(Len(q) - 1)
           /\ Head(q) = q[1]
           /\ \A j \in 1..(Len(q) - 1) : Tail(q)[j] = q[j + 1]
           /\ Elements(q) = Elements(Tail(q)) \cup {Head(q)}
<1> PICK n \in Nat : n = Len(q)
  OBVIOUS
<1> PICK r : r = Tail(q)
  OBVIOUS
<1>1. /\ r \in Seq(T) /\ Head(q) \in T /\ n # 0 /\ Len(r) = n - 1
      /\ DOMAIN q = 1..n /\ DOMAIN r = 1..(n - 1)
      /\ Head(q) = q[1]
      /\ \A j \in 1..(n - 1) : r[j] = q[j + 1]
  OBVIOUS
<1>2. Elements(q) = Elements(r) \cup {Head(q)}
  <2>1. \A j \in 1..n : j = 1 \/ (j - 1 \in 1..(n - 1) /\ r[j - 1] = q[j])
    <3> SUFFICES ASSUME NEW j \in 1..n, j # 1
                 PROVE  j - 1 \in 1..(n - 1) /\ r[j - 1] = q[j]
      OBVIOUS
    <3>1. j - 1 \in 1..(n - 1) /\ (j - 1) + 1 = j
      OBVIOUS
    <3> QED BY <1>1, <3>1
  <2>2. \A j \in 1..(n - 1) : j + 1 \in 1..n
    OBVIOUS
  <2>3. 1 \in 1..n
    BY <1>1
  <2>4. Elements(q) \subseteq Elements(r) \cup {Head(q)}
    <3> SUFFICES ASSUME NEW j \in 1..n PROVE q[j] \in Elements(r) \cup {Head(q)}
      BY <1>1 DEF Elements
    <3>1. CASE j # 1
      <4>1. j - 1 \in DOMAIN r /\ q[j] = r[j - 1]
        BY <1>1, <2>1, <3>1
      <4> QED BY <4>1 DEF Elements
    <3> QED BY <1>1, <3>1
  <2>5. Elements(r) \cup {Head(q)} \subseteq Elements(q)
    BY <1>1, <2>2, <2>3 DEF Elements
  <2> QED BY <2>4, <2>5
<1> QED BY <1>1, <1>2

LEMMA ElementsIn ==
    ASSUME NEW T, NEW q \in Seq(T) PROVE Elements(q) \subseteq T
  BY DEF Elements

LEMMA NoElements == Elements(<<>>) = {}
  BY DEF Elements

\* s comes after r: the two answers of an HGET are mysql's and redis's.
Follows(r, s) ==
    \/ r.id < s.id
    \/ /\ r.id = s.id
       /\ r.op = "hget" /\ s.op = "hget" /\ r.from = "mysql" /\ s.from = "response"

InOrder(q) == \A j, l \in DOMAIN q : j < l => Follows(q[j], q[l])

LEMMA InOrderPushed ==
    ASSUME NEW T, NEW q \in Seq(T), NEW x \in T, InOrder(q),
           \A y \in Elements(q) : Follows(y, x)
    PROVE  InOrder(Append(q, x))
<1> PICK n \in Nat : n = Len(q)
  OBVIOUS
<1> PICK r : r = Append(q, x)
  OBVIOUS
<1>1. /\ DOMAIN r = 1..(n + 1) /\ DOMAIN q = 1..n
      /\ \A j \in 1..n : r[j] = q[j]
      /\ r[n + 1] = x
  BY Pushed
<1>2. ASSUME NEW j \in 1..(n + 1), NEW l \in 1..(n + 1), j < l
      PROVE  Follows(r[j], r[l])
  <2>1. j \in 1..n /\ (l \in 1..n \/ l = n + 1)
    BY <1>2
  <2>2. CASE l \in 1..n
    BY <1>1, <1>2, <2>1, <2>2 DEF InOrder
  <2>3. CASE l = n + 1
    <3>1. q[j] \in Elements(q)
      BY <1>1, <2>1 DEF Elements
    <3> QED BY <1>1, <2>1, <2>3, <3>1
  <2> QED BY <2>1, <2>2, <2>3
<1> QED BY <1>1, <1>2 DEF InOrder

LEMMA InOrderPopped ==
    ASSUME NEW T, NEW q \in Seq(T), q # <<>>, InOrder(q)
    PROVE  /\ InOrder(Tail(q))
           /\ \A y \in Elements(Tail(q)) : Follows(Head(q), y)
<1> PICK n \in Nat : n = Len(q)
  OBVIOUS
<1> PICK r : r = Tail(q)
  OBVIOUS
<1>1. /\ DOMAIN q = 1..n /\ DOMAIN r = 1..(n - 1) /\ Head(q) = q[1] /\ 1 \in 1..n
      /\ \A j \in 1..(n - 1) : r[j] = q[j + 1]
  BY Popped
<1>2. \A j \in 1..(n - 1) : j + 1 \in 1..n /\ 1 < j + 1
  OBVIOUS
<1>3. \A j, l \in 1..(n - 1) : j < l => j + 1 < l + 1
  OBVIOUS
<1>4. InOrder(r)
  BY <1>1, <1>2, <1>3 DEF InOrder
<1>5. \A j \in 1..(n - 1) : Follows(q[1], r[j])
  BY <1>1, <1>2 DEF InOrder
<1> QED BY <1>1, <1>4, <1>5 DEF Elements

-----------------------------------------------------------------------------
(* Types. *)

GoodRequest == {r \in Request : /\ r.op \in Writes => r.val > 0
                                /\ r.op \in Deletions => r.val < 0}
GoodCopy == {r \in GoodRequest : IsWrite(r)}

QueueTypes ==
    /\ requestQueue \in Seq(GoodRequest)
    /\ respondQueue \in Seq(Respond)
    /\ copyQueue \in Seq(GoodCopy)
    /\ redisAt \in {"pop", "command", "copy", "query", "respond", "release"}
    /\ redisWork \in GoodRequest \cup {None}
    /\ redisAt = "pop" <=> redisWork = None
    /\ redisAt = "copy" => IsWrite(redisWork)
    /\ redisAt = "query" => redisWork.op = "hget"
    /\ redisAt = "respond" => redisWork.op \in Answered
    /\ mysqlWork \in GoodCopy \cup {None}
    /\ handling \in Respond \cup {None}

StoreTypes ==
    /\ redis \in [Keys -> Cell]
    /\ mysql \in [Keys -> Cell]
    /\ last \in [Keys -> Cell]
    /\ expiring \subseteq Keys
    /\ expired \subseteq Keys \ expiring
    /\ \A k \in expiring \cup expired : redis[k] > 0
    /\ redisReply \in Cell \cup {Error}
    /\ refused \subseteq 1..MaxWrites
    /\ missed \subseteq 1..MaxWrites

CountTypes ==
    /\ pushed \in 0..MaxRequests
    /\ awaited \subseteq Id
    /\ writes \in 0..MaxWrites
    /\ losses \in 0..MaxLosses
    /\ crashes \in 0..MaxCrashes

Types == QueueTypes /\ StoreTypes /\ CountTypes

LEMMA CellFacts ==
    ASSUME NEW v \in Cell
    PROVE  /\ -v \in Cell /\ Contents(v) \in Cell /\ 0 \in Cell
           /\ Number(v) \in 0..MaxWrites
           /\ v # 0 => Number(v) \in 1..MaxWrites
           /\ v \in Int
  BY DBAssumption DEF Cell, Contents, Number

LEMMA RequestFields ==
    ASSUME NEW r \in GoodRequest
    PROVE  /\ r # None /\ r \in Request
           /\ r.op \in Ops /\ r.key \in Keys /\ r.val \in Cell /\ r.id \in Id
           /\ IsWrite(r) => r.val # 0 /\ Number(r.val) \in 1..MaxWrites
<1>1. r # None /\ r \in Request
  BY NoneAssumption DEF GoodRequest
<1>2. r.op \in Ops /\ r.key \in Keys /\ r.val \in Cell /\ r.id \in Id
  BY <1>1 DEF Request
<1>3. IsWrite(r) => r.val # 0
  BY <1>2, CellFacts DEF GoodRequest, IsWrite
<1> QED BY <1>1, <1>2, <1>3, CellFacts

LEMMA RespondFields ==
    ASSUME NEW r \in Respond
    PROVE  /\ r # None /\ r.op \in Ops /\ r.from \in {"response", "mysql"}
           /\ r.val \in Cell \cup {Error} /\ r.want \in Cell /\ r.id \in Id
<1>1. r # None
  BY NoneAssumption
<1> QED BY <1>1 DEF Respond

LEMMA PushTypes ==
    ASSUME Types, NEW op \in Ops, NEW k \in Keys, PushRedisRequest(op, k)
    PROVE  /\ Types'
           /\ \E r \in GoodRequest :
                /\ r.op = op /\ r.key = k /\ r.id = pushed + 1
                /\ op \in Writes \cup Deletions =>
                     r.val \in {writes + 1, -(writes + 1)} /\ writes' = writes + 1
                /\ op \notin Writes \cup Deletions =>
                     r.val = last[k] /\ writes' = writes /\ last' = last
                /\ last' = [last EXCEPT ![k] = r.val]
                /\ requestQueue' = Append(requestQueue, r)
                /\ refs' = CreatedAndPushed("request", r.id)
                /\ awaited' = IF OnRequest[op].names THEN awaited \cup {r.id} ELSE awaited
                /\ pushed' = pushed + 1
                /\ UNCHANGED <<respondQueue, copyQueue, redisVars, mysqlWork, stores,
                               handling, faults>>
<1> PICK v : v = CASE op \in Writes    -> writes + 1
                   [] op \in Deletions -> -(writes + 1)
                   [] OTHER            -> last[k]
  OBVIOUS
<1> PICK r : r = [op |-> op, key |-> k, val |-> v, id |-> pushed + 1]
  OBVIOUS
<1>1. /\ QueueTypes /\ StoreTypes /\ CountTypes
      /\ r.op = op /\ r.key = k /\ r.val = v /\ r.id = pushed + 1
      /\ pushed < MaxRequests
      /\ op \in Writes \cup Deletions => writes < MaxWrites
      /\ requestQueue' = Append(requestQueue, r)
      /\ refs' = CreatedAndPushed("request", r.id)
      /\ pushed' = pushed + 1
      /\ awaited' = IF OnRequest[op].names THEN awaited \cup {r.id} ELSE awaited
      /\ last' = [last EXCEPT ![k] = v]
      /\ writes' = IF op \in Writes \cup Deletions THEN writes + 1 ELSE writes
      /\ UNCHANGED <<respondQueue, copyQueue, redisVars, mysqlWork, stores,
                     handling, faults>>
  BY DEF Types, PushRedisRequest, Enqueue
<1>2. /\ op \in Writes => v = writes + 1
      /\ op \in Deletions => v = -(writes + 1)
      /\ op \notin Writes \cup Deletions => v = last[k]
  <2>1. Writes \cap Deletions = {}
    BY DEF Writes, Deletions
  <2> QED BY <2>1
<1>3. writes \in Nat /\ pushed \in Nat /\ writes' \in 0..MaxWrites
      /\ pushed' \in 0..MaxRequests /\ r.id \in Id
  BY <1>1, DBAssumption DEF CountTypes, Id
<1>4. v \in Cell /\ (op \in Writes => v > 0) /\ (op \in Deletions => v < 0)
  <2>1. CASE op \in Writes \cup Deletions
    BY <1>1, <1>2, <1>3, <2>1, DBAssumption DEF Cell, Writes, Deletions
  <2>2. CASE op \notin Writes \cup Deletions
    BY <1>1, <1>2, <2>2 DEF StoreTypes
  <2> QED BY <2>1, <2>2
<1>5. r \in GoodRequest
  BY <1>1, <1>3, <1>4 DEF GoodRequest, Request
<1>6. requestQueue' \in Seq(GoodRequest)
  BY <1>1, <1>5, Pushed DEF QueueTypes
<1>7. last' \in [Keys -> Cell] /\ awaited' \subseteq Id
  BY <1>1, <1>3, <1>4 DEF StoreTypes, CountTypes
<1>8. op \notin Writes \cup Deletions => last' = last
  BY <1>1, <1>2 DEF StoreTypes
<1>9. QueueTypes'
  BY <1>1, <1>6 DEF QueueTypes, redisVars
<1>10. StoreTypes' /\ CountTypes'
  BY <1>1, <1>3, <1>7 DEF StoreTypes, CountTypes, stores, faults, redisVars
<1> QED BY <1>1, <1>2, <1>5, <1>8, <1>9, <1>10 DEF Types

LEMMA RedisPopTypes ==
    ASSUME Types, RedisPopRequest
    PROVE  /\ Types' /\ requestQueue \in Seq(GoodRequest) /\ requestQueue # <<>>
           /\ redisWork = None /\ redisWork' = Head(requestQueue)
           /\ redisWork' \in GoodRequest /\ redisWork' # None
           /\ requestQueue' = Tail(requestQueue) /\ redisAt' = "command"
<1>1. /\ QueueTypes /\ StoreTypes /\ CountTypes
      /\ redisAt = "pop" /\ requestQueue # <<>> /\ redisWork' = Head(requestQueue)
      /\ requestQueue' = Tail(requestQueue) /\ redisAt' = "command"
      /\ UNCHANGED <<respondQueue, copyQueue, redisReply, mysqlWork, stores,
                     refs, main, faults>>
  BY DEF Types, RedisPopRequest
<1>2. /\ requestQueue \in Seq(GoodRequest)
      /\ requestQueue' \in Seq(GoodRequest) /\ redisWork' \in GoodRequest
  BY <1>1, Popped DEF QueueTypes
<1>3. redisWork' # None
  BY <1>2, RequestFields
<1>4. QueueTypes'
  BY <1>1, <1>2, <1>3 DEF QueueTypes, main
<1>5. StoreTypes' /\ CountTypes'
  BY <1>1 DEF StoreTypes, CountTypes, main, stores, faults
<1> QED BY <1>1, <1>2, <1>3, <1>4, <1>5 DEF Types, QueueTypes

LEMMA ExecutedTypes ==
    ASSUME StoreTypes, NEW r \in GoodRequest, redis' = Executed(r),
           expiring' \in Expiring(r), expired' = Expired(r)
    PROVE  /\ redis' \in [Keys -> Cell]
           /\ expiring' \subseteq Keys /\ expired' \subseteq Keys \ expiring'
           /\ \A k \in expiring' \cup expired' : redis'[k] > 0
<1>0. r.key \in Keys /\ r.val \in Cell
  BY RequestFields
<1>1. redis' \in [Keys -> Cell]
  BY <1>0 DEF Executed, StoreTypes
<1>2. CASE r.op \in Writes
  <2>1. /\ expiring' \subseteq expiring /\ expired' = expired \ {r.key}
        /\ redis' = [redis EXCEPT ![r.key] = r.val]
    BY <1>2 DEF Expiring, Expired, Executed, Writes, Deletions
  <2>2. r.val > 0
    BY <1>2 DEF GoodRequest
  <2> QED BY <1>0, <1>1, <2>1, <2>2 DEF StoreTypes
<1>3. CASE r.op \in Deletions
  <2>1. /\ expiring' = expiring \ {r.key} /\ expired' = expired \ {r.key}
        /\ redis' = [redis EXCEPT ![r.key] = r.val]
    BY <1>3 DEF Expiring, Expired, Executed, Writes, Deletions
  <2> QED BY <1>0, <1>1, <2>1 DEF StoreTypes
<1>4. CASE r.op \notin Writes \cup Deletions
  <2>1. /\ expired' = expired /\ redis' = redis
        /\ \/ expiring' = expiring
           \/ expiring' = expiring \cup {r.key} /\ InRedis(r.key) > 0
    BY <1>4 DEF Expiring, Expired, Executed, Writes, Deletions
  <2>2. InRedis(r.key) > 0 => r.key \notin expired /\ redis[r.key] > 0
    <3>1. redis[r.key] \in Int /\ (r.key \in expired => redis[r.key] > 0)
      BY <1>0, CellFacts DEF StoreTypes
    <3> QED BY <3>1 DEF InRedis
  <2> QED BY <1>0, <1>1, <2>1, <2>2 DEF StoreTypes
<1> QED BY <1>2, <1>3, <1>4

\* The command of the request r, in either of its outcomes.
LEMMA CommandTypes ==
    ASSUME Types, RedisCommand
    PROVE  /\ Types'
           /\ redisAt = "command" /\ redisWork' = redisWork
           /\ redisWork \in GoodRequest
           /\ \/ /\ redis' = Executed(redisWork) /\ refused' = refused
                 /\ redisReply' = InRedis(redisWork.key)
              \/ /\ redis' = redis /\ redisReply' = Error
                 /\ refused' = IF IsWrite(redisWork)
                               THEN refused \cup {Number(redisWork.val)} ELSE refused
           /\ redisAt' # "pop" /\ redisAt' # "command"
           /\ IsWrite(redisWork) <=> redisAt' = "copy"
           /\ redisAt' = "query" => redisWork.op = "hget"
           /\ redisAt' = "respond" => redisWork.op \in Answered
           /\ redisAt' = "release" => redisWork.op \notin Answered
           /\ UNCHANGED <<queues, mysqlWork, mysql, refs, main, missed>>
<1> PICK r : r = redisWork
  OBVIOUS
<1>0. /\ QueueTypes /\ StoreTypes /\ CountTypes /\ redisAt = "command"
      /\ \/ /\ redis' = Executed(r) /\ refused' = refused
            /\ redisReply' = InRedis(r.key)
            /\ expiring' \in Expiring(r) /\ expired' = Expired(r)
         \/ /\ redisReply' = Error
            /\ refused' = IF r.op \in Writes \cup Deletions
                          THEN refused \cup {Number(r.val)} ELSE refused
            /\ UNCHANGED <<redis, expiring, expired>>
      /\ UNCHANGED <<queues, redisWork, mysqlWork, mysql, refs, main,
                     losses, crashes, missed>>
  BY DEF Types, RedisCommand
<1>1. r \in GoodRequest
  BY <1>0 DEF QueueTypes
<1>2. r.op \in Ops /\ r.key \in Keys /\ (IsWrite(r) => Number(r.val) \in 1..MaxWrites)
  BY <1>1, RequestFields
<1>3. PICK reply : reply = redisReply'
  OBVIOUS
<1>4. redisAt' = AfterCommand(r, reply)
  BY <1>3 DEF RedisCommand
<1>5. /\ redisAt' \in {"copy", "query", "respond", "release"}
      /\ IsWrite(r) <=> redisAt' = "copy"
      /\ redisAt' = "query" => r.op = "hget"
      /\ redisAt' = "respond" => r.op \in Answered
      /\ redisAt' = "release" => r.op \notin Answered
  BY <1>2, <1>4, OnRequestOf DEF AfterCommand, AfterCopy, IsWrite
<1>6. redisReply' \in Cell \cup {Error}
  <2>1. redis[r.key] \in Cell
    BY <1>0, <1>2 DEF StoreTypes
  <2>2. InRedis(r.key) \in Cell
    BY <2>1, CellFacts DEF InRedis
  <2> QED BY <1>0, <2>2
<1>7. refused' \subseteq 1..MaxWrites
  BY <1>0, <1>2 DEF StoreTypes, IsWrite
<1>8. StoreTypes'
  <2>1. /\ redis' \in [Keys -> Cell]
        /\ expiring' \subseteq Keys /\ expired' \subseteq Keys \ expiring'
        /\ \A k \in expiring' \cup expired' : redis'[k] > 0
    <3>1. CASE UNCHANGED <<redis, expiring, expired>>
      BY <1>0, <3>1 DEF StoreTypes
    <3> QED BY <1>0, <1>1, <3>1, ExecutedTypes
  <2> QED BY <1>0, <1>6, <1>7, <2>1 DEF StoreTypes, main
<1>9. QueueTypes'
  <2>1. r # None
    BY <1>1, RequestFields
  <2> QED BY <1>0, <1>5, <2>1 DEF QueueTypes, queues, main
<1>10. CountTypes'
  BY <1>0 DEF CountTypes, main
<1> QED BY <1>0, <1>1, <1>5, <1>8, <1>9, <1>10 DEF Types, IsWrite

LEMMA LoseTypes ==
    ASSUME Types, RedisLoseConnection
    PROVE  /\ Types' /\ redisAt = "command" /\ redisWork \in GoodRequest
           /\ redis' = Executed(redisWork) \/ redis' = redis
           /\ UNCHANGED <<queues, redisVars, mysqlWork, mysql, refs, main,
                          crashes, refused, missed>>
<1>0. /\ QueueTypes /\ StoreTypes /\ CountTypes /\ redisAt = "command"
      /\ losses < MaxLosses /\ losses' = losses + 1
      /\ \/ /\ redis' = Executed(redisWork)
            /\ expiring' \in Expiring(redisWork) /\ expired' = Expired(redisWork)
         \/ UNCHANGED <<redis, expiring, expired>>
      /\ UNCHANGED <<queues, redisVars, mysqlWork, mysql, refs, main,
                     crashes, refused, missed>>
  BY DEF Types, RedisLoseConnection
<1>1. redisWork \in GoodRequest
  BY <1>0 DEF QueueTypes
<1>2. StoreTypes'
  <2>1. /\ redis' \in [Keys -> Cell]
        /\ expiring' \subseteq Keys /\ expired' \subseteq Keys \ expiring'
        /\ \A k \in expiring' \cup expired' : redis'[k] > 0
    <3>1. CASE UNCHANGED <<redis, expiring, expired>>
      BY <1>0, <3>1 DEF StoreTypes
    <3> QED BY <1>0, <1>1, <3>1, ExecutedTypes
  <2> QED BY <1>0, <2>1 DEF StoreTypes, main, redisVars
<1>3. QueueTypes'
  BY <1>0 DEF QueueTypes, queues, main, redisVars
<1>4. CountTypes'
  BY <1>0, DBAssumption DEF CountTypes, main
<1> QED BY <1>0, <1>1, <1>2, <1>3, <1>4 DEF Types

LEMMA ExpiresTypes ==
    ASSUME Types, NEW k \in Keys, RedisExpires(k)
    PROVE  /\ Types'
           /\ UNCHANGED <<queues, redisVars, mysqlWork, redis, mysql, refs, main, faults>>
<1>0. /\ QueueTypes /\ StoreTypes /\ CountTypes /\ k \in expiring
      /\ expiring' = expiring \ {k} /\ expired' = expired \cup {k}
      /\ UNCHANGED <<queues, redisVars, mysqlWork, redis, mysql, refs, main, faults>>
  BY DEF Types, RedisExpires
<1>1. StoreTypes'
  BY <1>0 DEF StoreTypes, redisVars, main, faults
<1>2. QueueTypes'
  BY <1>0 DEF QueueTypes, queues, main, redisVars
<1>3. CountTypes'
  BY <1>0 DEF CountTypes, main, faults
<1> QED BY <1>0, <1>1, <1>2, <1>3 DEF Types

LEMMA PushMysqlTypes ==
    ASSUME Types, PushMysqlRequest
    PROVE  /\ Types' /\ redisAt = "copy" /\ redisWork \in GoodCopy
           /\ copyQueue \in Seq(GoodCopy)
           /\ copyQueue' = Append(copyQueue, redisWork)
           /\ refs' = CreatedAndPushed("copy", redisWork.id)
           /\ redisAt' = IF redisWork.op \in Answered THEN "respond" ELSE "release"
<1>0. /\ QueueTypes /\ StoreTypes /\ CountTypes /\ redisAt = "copy"
      /\ copyQueue' = Append(copyQueue, redisWork)
      /\ refs' = CreatedAndPushed("copy", redisWork.id)
      /\ redisAt' = AfterCopy(redisWork)
      /\ UNCHANGED <<requestQueue, respondQueue, redisWork, redisReply, mysqlWork,
                     stores, main, faults>>
  BY DEF Types, PushMysqlRequest, Enqueue
<1>1. redisWork \in GoodCopy /\ copyQueue \in Seq(GoodCopy)
  BY <1>0 DEF QueueTypes, GoodCopy
<1>2. redisWork \in GoodRequest /\ redisWork # None /\ redisWork.op \in Ops
  BY <1>1, RequestFields DEF GoodCopy
<1>3. redisAt' = IF redisWork.op \in Answered THEN "respond" ELSE "release"
  BY <1>0, <1>2, OnRequestOf DEF AfterCopy
<1>4. copyQueue' \in Seq(GoodCopy)
  BY <1>0, <1>1, Pushed
<1>5. QueueTypes'
  BY <1>0, <1>2, <1>3, <1>4 DEF QueueTypes, main
<1>6. StoreTypes' /\ CountTypes'
  BY <1>0 DEF StoreTypes, CountTypes, main, stores, faults
<1> QED BY <1>0, <1>1, <1>3, <1>5, <1>6 DEF Types

LEMMA PushRespondTypes ==
    ASSUME Types, PushRespond
    PROVE  /\ Types' /\ redisAt = "respond" /\ redisAt' = "release"
           /\ redisWork \in GoodRequest /\ redisWork.op \in Answered
           /\ respondQueue \in Seq(Respond)
           /\ \E r \in Respond :
                /\ r.op = redisWork.op /\ r.from = "response" /\ r.val = redisReply
                /\ r.want = redisWork.val /\ r.id = redisWork.id
                /\ respondQueue' = Append(respondQueue, r)
           /\ refs' = CreatedAndPushed("response", redisWork.id)
<1> PICK r : r = GenRespond("response", redisReply)
  OBVIOUS
<1>0. /\ QueueTypes /\ StoreTypes /\ CountTypes /\ redisAt = "respond"
      /\ respondQueue' = Append(respondQueue, r) /\ redisAt' = "release"
      /\ refs' = CreatedAndPushed("response", redisWork.id)
      /\ UNCHANGED <<requestQueue, copyQueue, redisWork, redisReply, mysqlWork,
                     stores, main, faults>>
  BY DEF Types, PushRespond, Enqueue
<1>1. /\ redisWork \in GoodRequest /\ redisWork.op \in Answered
      /\ respondQueue \in Seq(Respond)
  BY <1>0 DEF QueueTypes
<1>2. /\ r.op = redisWork.op /\ r.from = "response" /\ r.val = redisReply
      /\ r.want = redisWork.val /\ r.id = redisWork.id
  BY DEF GenRespond
<1>3. r \in Respond
  <2>1. redisReply \in Cell \cup {Error}
    BY <1>0 DEF StoreTypes
  <2> QED BY <1>1, <2>1, RequestFields DEF GenRespond, Respond
<1>4. respondQueue' \in Seq(Respond)
  BY <1>0, <1>1, <1>3, Pushed
<1>5. QueueTypes'
  BY <1>0, <1>1, <1>4, RequestFields DEF QueueTypes, main
<1>6. StoreTypes' /\ CountTypes'
  BY <1>0 DEF StoreTypes, CountTypes, main, stores, faults
<1> QED BY <1>0, <1>1, <1>2, <1>3, <1>5, <1>6 DEF Types

LEMMA ReleaseTypes ==
    ASSUME Types, RedisRelease
    PROVE  /\ Types' /\ redisAt = "release" /\ redisAt' = "pop"
           /\ redisWork \in GoodRequest /\ redisWork' = None
           /\ refs' = Released(Dropped(redisWork))
           /\ UNCHANGED <<queues, mysqlWork, stores, main, faults>>
<1>0. /\ QueueTypes /\ StoreTypes /\ CountTypes /\ redisAt = "release"
      /\ redisWork' = None /\ redisAt' = "pop" /\ redisReply' = 0
      /\ refs' = Released(Dropped(redisWork))
      /\ UNCHANGED <<queues, mysqlWork, stores, main, faults>>
  BY DEF Types, RedisRelease
<1>1. QueueTypes'
  BY <1>0 DEF QueueTypes, queues, main
<1>2. 0 \in Cell
  BY DBAssumption DEF Cell
<1>3. StoreTypes' /\ CountTypes'
  BY <1>0, <1>2 DEF StoreTypes, CountTypes, main, stores, faults
<1> QED BY <1>0, <1>1, <1>3 DEF Types, QueueTypes

LEMMA QueryTypes ==
    ASSUME Types, RequestMySQLQuery
    PROVE  /\ Types' /\ redisAt = "query" /\ redisAt' = "respond"
           /\ redisWork \in GoodRequest /\ redisWork.op = "hget"
           /\ respondQueue \in Seq(Respond)
           /\ \E r \in Respond :
                /\ r.op = "hget" /\ r.from = "mysql"
                /\ r.val \in {Contents(mysql[redisWork.key]), 0, Error}
                /\ r.want = redisWork.val /\ r.id = redisWork.id
                /\ respondQueue' = Append(respondQueue, r)
           /\ refs' = CreatedAndPushed("mysql", redisWork.id)
<1>0. /\ QueueTypes /\ StoreTypes /\ CountTypes /\ redisAt = "query"
      /\ redisAt' = "respond"
      /\ refs' = CreatedAndPushed("mysql", redisWork.id)
      /\ UNCHANGED <<requestQueue, copyQueue, redisWork, redisReply, mysqlWork,
                     stores, main, faults>>
  BY DEF Types, RequestMySQLQuery
<1>1. /\ redisWork \in GoodRequest /\ redisWork.op = "hget"
      /\ respondQueue \in Seq(Respond)
  BY <1>0 DEF QueueTypes
<1>2. PICK r \in GenGetNetRespond(redisWork.key) : respondQueue' = Append(respondQueue, r)
  BY DEF RequestMySQLQuery, Enqueue
<1>3. PICK v \in {Contents(mysql[redisWork.key]), 0, Error} : r = GenRespond("mysql", v)
  BY <1>2 DEF GenGetNetRespond, RedisHashTableGetTest, RedisHashTableGet
<1>4. /\ r.op = "hget" /\ r.from = "mysql" /\ r.val = v
      /\ r.want = redisWork.val /\ r.id = redisWork.id
  BY <1>1, <1>3 DEF GenRespond
<1>5. r \in Respond
  <2>1. mysql[redisWork.key] \in Cell
    BY <1>0, <1>1, RequestFields DEF StoreTypes
  <2>2. v \in Cell \cup {Error}
    BY <1>3, <2>1, CellFacts
  <2> QED BY <1>1, <1>3, <2>2, RequestFields DEF GenRespond, Respond
<1>6. respondQueue' \in Seq(Respond)
  BY <1>1, <1>2, <1>5, Pushed
<1>7. QueueTypes'
  BY <1>0, <1>1, <1>6, RequestFields DEF QueueTypes, main, Answered
<1>8. StoreTypes' /\ CountTypes'
  BY <1>0 DEF StoreTypes, CountTypes, main, stores, faults
<1> QED BY <1>0, <1>1, <1>2, <1>3, <1>4, <1>5, <1>7, <1>8 DEF Types

LEMMA MysqlPopTypes ==
    ASSUME Types, MysqlPopRequest
    PROVE  /\ Types' /\ mysqlWork = None
           /\ copyQueue \in Seq(GoodCopy) /\ copyQueue # <<>>
           /\ mysqlWork' = Head(copyQueue) /\ mysqlWork' \in GoodCopy
           /\ copyQueue' = Tail(copyQueue)
           /\ UNCHANGED <<requestQueue, respondQueue, redisVars, stores, refs, main,
                          faults>>
<1>0. /\ QueueTypes /\ StoreTypes /\ CountTypes /\ mysqlWork = None
      /\ copyQueue # <<>> /\ mysqlWork' = Head(copyQueue) /\ copyQueue' = Tail(copyQueue)
      /\ UNCHANGED <<requestQueue, respondQueue, redisVars, stores, refs, main,
                     faults>>
  BY DEF Types, MysqlPopRequest
<1>1. /\ copyQueue \in Seq(GoodCopy)
      /\ copyQueue' \in Seq(GoodCopy) /\ mysqlWork' \in GoodCopy
  BY <1>0, Popped DEF QueueTypes
<1>2. QueueTypes'
  BY <1>0, <1>1 DEF QueueTypes, redisVars, main
<1>3. StoreTypes' /\ CountTypes'
  BY <1>0 DEF StoreTypes, CountTypes, redisVars, main, stores, faults
<1> QED BY <1>0, <1>1, <1>2, <1>3 DEF Types

LEMMA MysqlQueryTypes ==
    ASSUME Types, MysqlQuery
    PROVE  /\ Types' /\ mysqlWork \in GoodCopy /\ mysqlWork' = None
           /\ \E c \in {mysql[mysqlWork.key], mysqlWork.val} :
                /\ mysql' = [mysql EXCEPT ![mysqlWork.key] = c]
                /\ missed' = IF c = mysqlWork.val THEN missed
                             ELSE missed \cup {Number(mysqlWork.val)}
           /\ refs' = Released({<<"copy", mysqlWork.id>>})
           /\ UNCHANGED <<queues, redisVars, redis, expiring, expired, main, losses,
                          crashes, refused>>
<1>0. /\ QueueTypes /\ StoreTypes /\ CountTypes /\ mysqlWork # None
      /\ mysqlWork' = None
      /\ refs' = Released({<<"copy", mysqlWork.id>>})
      /\ UNCHANGED <<queues, redisVars, redis, expiring, expired, main, losses,
                     crashes, refused>>
  BY DEF Types, MysqlQuery
<1>1. PICK c \in MysqlOnRequest(mysqlWork) :
        /\ mysql' = [mysql EXCEPT ![mysqlWork.key] = c]
        /\ missed' = IF c = mysqlWork.val THEN missed
                     ELSE missed \cup {Number(mysqlWork.val)}
  BY DEF MysqlQuery
<1>2. c \in {mysql[mysqlWork.key], mysqlWork.val}
  BY <1>1 DEF MysqlOnRequest, RedisHashTableSet, RedisHashTableDelTest,
              RedisHashTableDel, DoQuery, TableIsExist
<1>3. mysqlWork \in GoodCopy
  BY <1>0 DEF QueueTypes
<1>4. /\ mysqlWork.key \in Keys /\ mysqlWork.val \in Cell
      /\ Number(mysqlWork.val) \in 1..MaxWrites
  BY <1>3, RequestFields DEF GoodCopy
<1>5. mysql' \in [Keys -> Cell] /\ missed' \subseteq 1..MaxWrites
  BY <1>0, <1>1, <1>2, <1>4 DEF StoreTypes
<1>6. QueueTypes'
  BY <1>0 DEF QueueTypes, queues, redisVars, main
<1>7. StoreTypes' /\ CountTypes'
  BY <1>0, <1>5 DEF StoreTypes, CountTypes, redisVars, main
<1> QED BY <1>0, <1>1, <1>2, <1>3, <1>6, <1>7 DEF Types

LEMMA PopRespondTypes ==
    ASSUME Types, PopRespond
    PROVE  /\ Types' /\ handling = None
           /\ respondQueue \in Seq(Respond) /\ respondQueue # <<>>
           /\ handling' = Head(respondQueue) /\ handling' \in Respond
           /\ respondQueue' = Tail(respondQueue)
           /\ UNCHANGED <<requestQueue, copyQueue, redisVars, mysqlWork, stores,
                          refs, pushed, awaited, writes, last, faults>>
<1>0. /\ QueueTypes /\ StoreTypes /\ CountTypes /\ handling = None
      /\ respondQueue # <<>> /\ handling' = Head(respondQueue)
      /\ respondQueue' = Tail(respondQueue)
      /\ UNCHANGED <<requestQueue, copyQueue, redisVars, mysqlWork, stores,
                     refs, pushed, awaited, writes, last, faults>>
  BY DEF Types, PopRespond
<1>1. /\ respondQueue \in Seq(Respond)
      /\ respondQueue' \in Seq(Respond) /\ handling' \in Respond
  BY <1>0, Popped DEF QueueTypes
<1>2. QueueTypes'
  BY <1>0, <1>1 DEF QueueTypes, redisVars
<1>3. StoreTypes' /\ CountTypes'
  BY <1>0 DEF StoreTypes, CountTypes, redisVars, stores, faults
<1> QED BY <1>0, <1>1, <1>2, <1>3 DEF Types

LEMMA ResponsedTypes ==
    ASSUME Types, Responsed
    PROVE  /\ Types' /\ handling \in Respond /\ handling' = None
           /\ awaited' = awaited \ {handling.id}
           /\ refs' = Released({<<handling.from, handling.id>>})
           /\ UNCHANGED <<queues, redisVars, mysqlWork, stores, pushed, writes, last,
                          faults>>
<1>0. /\ QueueTypes /\ StoreTypes /\ CountTypes /\ handling # None
      /\ awaited' = awaited \ {handling.id}
      /\ refs' = Released({<<handling.from, handling.id>>})
      /\ handling' = None
      /\ UNCHANGED <<queues, redisVars, mysqlWork, stores, pushed, writes, last,
                     faults>>
  BY DEF Types, Responsed
<1>1. QueueTypes' /\ handling \in Respond
  BY <1>0 DEF QueueTypes, redisVars, queues
<1>2. StoreTypes' /\ CountTypes'
  BY <1>0 DEF StoreTypes, CountTypes, redisVars, stores, faults
<1> QED BY <1>0, <1>1, <1>2 DEF Types

\* The writes and deletions that a crash loses.
Copies == {w \in Unfinished : IsWrite(w)}

LEMMA CopiesAre ==
    ASSUME QueueTypes
    PROVE  /\ Copies = Elements(copyQueue)
                       \cup {w \in {mysqlWork} : w # None}
                       \cup {w \in {redisWork} : redisAt \in {"command", "copy"}
                                                 /\ IsWrite(w)}
           /\ Copies \subseteq GoodCopy
<1>1. \A w \in Elements(copyQueue) : w \in GoodCopy
  BY ElementsIn DEF QueueTypes
<1>2. mysqlWork # None => mysqlWork \in GoodCopy
  BY DEF QueueTypes
<1>3. redisAt \in {"command", "copy"} => redisWork \in GoodRequest
  BY DEF QueueTypes
<1>4. \A w \in GoodCopy : IsWrite(w) /\ w \in GoodRequest
  BY DEF GoodCopy
<1>5. Unfinished = Elements(copyQueue)
                     \cup {w \in {mysqlWork} : w # None}
                     \cup {w \in {redisWork} : redisAt \in {"command", "copy"}}
  BY DEF Unfinished, Elements
<1> QED BY <1>1, <1>2, <1>3, <1>4, <1>5 DEF Copies, GoodCopy

LEMMA RestartsTypes ==
    ASSUME Types, Restarts, crashes' \in 0..MaxCrashes
    PROVE  /\ Types'
           /\ missed' = missed \cup {Number(r.val) : r \in Copies}
           /\ requestQueue' = <<>> /\ respondQueue' = <<>> /\ copyQueue' = <<>>
           /\ redisAt' = "pop" /\ redisWork' = None
           /\ mysqlWork' = None /\ handling' = None
           /\ refs' = [b \in Buffers |-> 0]
           /\ pushed' = 0 /\ awaited' = {}
           /\ last' = redis
           /\ UNCHANGED <<stores, writes, losses, refused>>
<1>0. /\ QueueTypes /\ StoreTypes /\ CountTypes
      /\ missed' = missed \cup {Number(r.val) : r \in Copies}
      /\ requestQueue' = <<>> /\ respondQueue' = <<>> /\ copyQueue' = <<>>
      /\ redisAt' = "pop" /\ redisWork' = None /\ redisReply' = 0
      /\ mysqlWork' = None /\ handling' = None
      /\ refs' = [b \in Buffers |-> 0]
      /\ pushed' = 0 /\ awaited' = {}
      /\ last' = redis
      /\ UNCHANGED <<stores, writes, losses, refused>>
  BY DEF Types, Restarts, Copies, IsWrite
<1>1. QueueTypes'
  BY <1>0 DEF QueueTypes
<1>2. missed' \subseteq 1..MaxWrites
  <2>1. \A r \in Copies : Number(r.val) \in 1..MaxWrites
    BY <1>0, CopiesAre, RequestFields DEF GoodCopy
  <2> QED BY <1>0, <2>1 DEF StoreTypes
<1>3. StoreTypes'
  <2>1. 0 \in Cell
    BY DBAssumption DEF Cell
  <2> QED BY <1>0, <1>2, <2>1 DEF StoreTypes, stores
<1>4. CountTypes'
  BY <1>0, DBAssumption DEF CountTypes
<1> QED BY <1>0, <1>1, <1>3, <1>4 DEF Types

\* A crash, or the response to GETS that lacks a value.
Dies == Restarts /\ crashes' \in 0..MaxCrashes

LEMMA DiesIs == Types /\ (Crash \/ RespondedMissing) => Dies
  BY DBAssumption DEF Crash, RespondedMissing, Dies, Types, CountTypes

\* Every kind of step.
LEMMA Steps ==
    ASSUME Types, Next
    PROVE  \/ \E op \in Ops, k \in Keys : PushRedisRequest(op, k)
           \/ RedisPopRequest \/ RedisCommand \/ RedisLoseConnection
           \/ PushMysqlRequest \/ RequestMySQLQuery \/ PushRespond \/ RedisRelease
           \/ MysqlPopRequest \/ MysqlQuery
           \/ PopRespond \/ Responsed
           \/ \E k \in Keys : RedisExpires(k)
           \/ Dies
  BY DiesIs DEF Next, RedisThread, MysqlThread, Activate

LEMMA InitTypes == Init => Types
<1> SUFFICES ASSUME Init PROVE Types
  OBVIOUS
<1>1. 0 \in Cell
  BY DBAssumption DEF Cell
<1>2. QueueTypes
  BY DEF Init, RedisInit, MysqlInit, QueueTypes
<1>3. StoreTypes
  BY <1>1 DEF Init, RedisInit, StoreTypes
<1>4. CountTypes
  BY DBAssumption DEF Init, CountTypes
<1> QED BY <1>2, <1>3, <1>4 DEF Types

LEMMA StutterTypes == Types /\ UNCHANGED vars => Types'
  BY DEF Types, QueueTypes, StoreTypes, CountTypes, vars, queues, redisVars, stores,
         main, faults

LEMMA StepTypes == Types /\ [Next]_vars => Types'
<1> SUFFICES ASSUME Types, Next PROVE Types'
  BY StutterTypes
<1> QED BY Steps, PushTypes, RedisPopTypes, CommandTypes, LoseTypes, PushMysqlTypes,
           QueryTypes, PushRespondTypes, ReleaseTypes, MysqlPopTypes, MysqlQueryTypes,
           PopRespondTypes, ResponsedTypes, ExpiresTypes, RestartsTypes DEF Dies

-----------------------------------------------------------------------------
(* Order: requests are taken in the order they were pushed, and neither the *)
(* copies nor the responses overtake each other.                            *)

\* The number of requests the redis thread has taken, and of the last one.
Taken == pushed - Len(requestQueue)

RequestIds ==
    /\ Len(requestQueue) <= pushed
    /\ \A j \in DOMAIN requestQueue : requestQueue[j].id = Taken + j
    /\ redisWork # None => redisWork.id = Taken

Copied == Elements(copyQueue) \cup {w \in {mysqlWork} : w # None}

CopyOrder ==
    /\ \A r \in Copied : /\ r.id <= Taken
                         /\ redisAt \in {"command", "copy"} => r.id < Taken
    /\ InOrder(copyQueue)
    /\ mysqlWork # None => \A r \in Elements(copyQueue) : Follows(mysqlWork, r)

Answers == Elements(respondQueue) \cup {r \in {handling} : r # None}

AnswerOrder ==
    /\ \A r \in Answers :
         /\ r.id <= Taken
         /\ redisAt \in {"command", "copy", "query"} => r.id < Taken
         /\ (redisAt = "respond" /\ r.id = Taken) =>
              r.op = "hget" /\ r.from = "mysql" /\ redisWork.op = "hget"
    /\ InOrder(respondQueue)
    /\ handling # None => \A r \in Elements(respondQueue) : Follows(handling, r)

Order == RequestIds /\ CopyOrder /\ AnswerOrder

LEMMA TakenNat == ASSUME Types, RequestIds PROVE Taken \in Nat /\ pushed \in Nat
<1>1. requestQueue \in Seq(GoodRequest) /\ pushed \in Nat
  BY DBAssumption DEF Types, QueueTypes, CountTypes
<1>2. Len(requestQueue) \in Nat
  BY <1>1
<1> QED BY <1>1, <1>2 DEF RequestIds, Taken

LEMMA AnswersAre ==
    ASSUME Types PROVE Answers \subseteq Respond /\ Copied \subseteq GoodCopy
<1>1. /\ respondQueue \in Seq(Respond) /\ copyQueue \in Seq(GoodCopy)
      /\ handling \in Respond \cup {None} /\ mysqlWork \in GoodCopy \cup {None}
  BY DEF Types, QueueTypes
<1> QED BY <1>1, ElementsIn DEF Answers, Copied

\* Steps of the redis thread at its request leave the ids alone.
LEMMA IdsKept ==
    ASSUME UNCHANGED <<requestQueue, pushed>>,
           redisWork' \in {redisWork, None}, RequestIds
    PROVE  RequestIds' /\ Taken' = Taken
  BY DEF RequestIds, Taken

LEMMA CopiesKept ==
    ASSUME CopyOrder, UNCHANGED <<copyQueue, mysqlWork>>, Taken' = Taken,
           redisAt' \in {"command", "copy"} => redisAt \in {"command", "copy"}
    PROVE  CopyOrder'
  BY DEF CopyOrder, Copied

LEMMA AnswersKept ==
    ASSUME AnswerOrder, UNCHANGED <<respondQueue, handling>>, Taken' = Taken,
           \/ redisAt' \in {"pop", "release"}
           \/ /\ redisAt \in {"command", "copy", "query"}
              /\ Taken \in Nat /\ \A r \in Answers : r.id \in Nat
           \/ redisAt' = redisAt /\ redisWork' = redisWork
    PROVE  AnswerOrder'
<1>1. Answers' = Answers
  BY DEF Answers
<1>2. CASE redisAt' = redisAt /\ redisWork' = redisWork
  BY <1>1, <1>2 DEF AnswerOrder
<1>3. CASE redisAt' \in {"pop", "release"}
  BY <1>1, <1>3 DEF AnswerOrder
<1>4. CASE /\ redisAt \in {"command", "copy", "query"}
           /\ Taken \in Nat /\ \A r \in Answers : r.id \in Nat
  <2>1. \A r \in Answers : r.id < Taken /\ r.id # Taken
    BY <1>4 DEF AnswerOrder
  <2> QED BY <1>1, <2>1 DEF AnswerOrder
<1> QED BY <1>2, <1>3, <1>4

LEMMA PushOrder ==
    ASSUME Types, Order, NEW op \in Ops, NEW k \in Keys, PushRedisRequest(op, k)
    PROVE  Order'
<1>1. PICK r \in GoodRequest :
        /\ r.id = pushed + 1 /\ requestQueue' = Append(requestQueue, r)
        /\ pushed' = pushed + 1
        /\ UNCHANGED <<respondQueue, copyQueue, redisVars, mysqlWork, handling>>
  BY PushTypes
<1>2. PICK n \in Nat : n = Len(requestQueue)
  BY DEF Types, QueueTypes
<1>3. /\ DOMAIN requestQueue = 1..n /\ DOMAIN requestQueue' = 1..(n + 1)
      /\ Len(requestQueue') = n + 1
      /\ \A j \in 1..n : requestQueue'[j] = requestQueue[j]
      /\ requestQueue'[n + 1] = r
  BY <1>1, <1>2, Pushed DEF Types, QueueTypes
<1>4. pushed \in Nat /\ n <= pushed /\ Taken = pushed - n
  BY <1>2, TakenNat DEF Order, RequestIds, Taken
<1>5. Taken' = Taken
  BY <1>1, <1>3, <1>4 DEF Taken
<1>6. RequestIds'
  <2>1. \A j \in 1..(n + 1) : requestQueue'[j].id = Taken + j
    <3>1. \A j \in 1..n : requestQueue'[j].id = Taken + j
      BY <1>3 DEF Order, RequestIds
    <3>2. requestQueue'[n + 1].id = Taken + (n + 1)
      BY <1>1, <1>3, <1>4
    <3> QED BY <3>1, <3>2
  <2>2. n + 1 <= pushed'
    BY <1>1, <1>4
  <2>3. redisWork' = redisWork
    BY <1>1 DEF redisVars
  <2> QED BY <1>3, <1>5, <2>1, <2>2, <2>3 DEF Order, RequestIds
<1>7. CopyOrder' /\ AnswerOrder'
  BY <1>1, <1>5, CopiesKept, AnswersKept DEF Order, redisVars
<1> QED BY <1>6, <1>7 DEF Order

LEMMA RedisPopOrder ==
    ASSUME Types, Order, RedisPopRequest
    PROVE  Order' /\ Taken' = Taken + 1
<1>0. /\ requestQueue \in Seq(GoodRequest) /\ requestQueue # <<>>
      /\ redisWork' = Head(requestQueue) /\ redisWork' # None
      /\ requestQueue' = Tail(requestQueue) /\ redisAt' = "command"
      /\ UNCHANGED <<respondQueue, copyQueue, mysqlWork, handling, pushed>>
  BY RedisPopTypes DEF RedisPopRequest, main
<1>2. PICK n \in Nat : n = Len(requestQueue)
  BY <1>0
<1>3. /\ DOMAIN requestQueue = 1..n /\ DOMAIN requestQueue' = 1..(n - 1)
      /\ Len(requestQueue') = n - 1 /\ n # 0
      /\ \A j \in 1..(n - 1) : requestQueue'[j] = requestQueue[j + 1]
      /\ redisWork' = requestQueue[1]
  BY <1>0, <1>2, Popped
<1>4. pushed \in Nat /\ n <= pushed /\ Taken = pushed - n
  BY <1>2, TakenNat DEF Order, RequestIds, Taken
<1>5. Taken' = Taken + 1
  BY <1>0, <1>3, <1>4 DEF Taken
<1>a. \A j \in 1..n : requestQueue[j].id = Taken + j
  BY <1>3 DEF Order, RequestIds
<1>6. RequestIds'
  <2>1. \A j \in 1..(n - 1) : requestQueue'[j].id = Taken' + j
    <3> SUFFICES ASSUME NEW j \in 1..(n - 1)
                 PROVE  requestQueue'[j].id = Taken' + j
      OBVIOUS
    <3>1. j + 1 \in 1..n /\ requestQueue'[j] = requestQueue[j + 1]
      BY <1>3
    <3>2. requestQueue[j + 1].id = Taken + (j + 1)
      BY <1>a, <3>1
    <3> QED BY <1>4, <1>5, <3>1, <3>2
  <2>2. redisWork'.id = Taken'
    BY <1>3, <1>5, <1>a
  <2> QED BY <1>0, <1>3, <1>4, <2>1, <2>2 DEF RequestIds
<1>7. Taken \in Nat
  BY TakenNat DEF Order
<1>8. \A r \in Copied : r.id \in Nat
  BY AnswersAre, RequestFields DEF GoodCopy, Id
<1>9. \A r \in Answers : r.id \in Nat
  BY AnswersAre, RespondFields DEF Id
<1>10. CopyOrder'
  <2>1. \A r \in Copied : r.id < Taken'
    BY <1>5, <1>7, <1>8 DEF Order, CopyOrder
  <2>2. Copied' = Copied
    BY <1>0 DEF Copied
  <2> QED BY <1>0, <1>5, <1>7, <1>8, <2>1, <2>2 DEF Order, CopyOrder
<1>11. AnswerOrder'
  <2>1. \A r \in Answers : r.id < Taken' /\ r.id <= Taken'
    BY <1>5, <1>7, <1>9 DEF Order, AnswerOrder
  <2>2. Answers' = Answers
    BY <1>0 DEF Answers
  <2> QED BY <1>0, <2>1, <2>2 DEF Order, AnswerOrder
<1> QED BY <1>5, <1>6, <1>10, <1>11 DEF Order

LEMMA CommandOrder ==
    ASSUME Types, Order, RedisCommand PROVE Order'
<1>0. /\ redisAt = "command" /\ redisWork' = redisWork /\ redisAt' # "command"
      /\ UNCHANGED <<respondQueue, requestQueue, copyQueue, mysqlWork, handling, pushed>>
  BY CommandTypes DEF queues, main
<1>1. Taken \in Nat /\ \A r \in Answers : r.id \in Nat
  BY TakenNat, AnswersAre, RespondFields DEF Id, Order
<1> QED BY <1>0, <1>1, IdsKept, CopiesKept, AnswersKept DEF Order

LEMMA PushMysqlOrder ==
    ASSUME Types, Order, PushMysqlRequest PROVE Order'
<1>0. /\ redisAt = "copy" /\ redisWork' = redisWork /\ redisWork \in GoodCopy
      /\ redisAt' \in {"respond", "release"}
      /\ copyQueue \in Seq(GoodCopy) /\ copyQueue' = Append(copyQueue, redisWork)
      /\ UNCHANGED <<respondQueue, requestQueue, mysqlWork, handling, pushed>>
  BY PushMysqlTypes DEF PushMysqlRequest, main
<1>1. /\ Taken \in Nat /\ \A r \in Answers : r.id \in Nat
      /\ \A r \in Copied : r.id \in Nat
      /\ redisWork # None /\ redisWork.id = Taken
  BY <1>0, TakenNat, AnswersAre, RespondFields, RequestFields
     DEF Id, Order, GoodCopy, RequestIds
<1>2. RequestIds' /\ AnswerOrder' /\ Taken' = Taken
  BY <1>0, <1>1, IdsKept, AnswersKept DEF Order
<1>3. CopyOrder'
  <2>1. \A r \in Copied : r.id < Taken
    BY <1>0 DEF Order, CopyOrder
  <2>2. Elements(copyQueue') = Elements(copyQueue) \cup {redisWork}
    BY <1>0, Pushed
  <2>3. \A r \in Copied : Follows(r, redisWork)
    BY <1>1, <2>1 DEF Follows
  <2>4. InOrder(copyQueue')
    BY <1>0, <2>3, InOrderPushed DEF Order, CopyOrder, Copied
  <2>5. Copied' = Copied \cup {redisWork}
    BY <1>0, <2>2 DEF Copied
  <2>6. mysqlWork' # None => \A r \in Elements(copyQueue') : Follows(mysqlWork', r)
    BY <1>0, <2>2, <2>3 DEF Order, CopyOrder, Copied
  <2>7. \A r \in Copied' : r.id <= Taken
    BY <1>1, <2>1, <2>5
  <2> QED BY <1>0, <1>2, <2>4, <2>6, <2>7 DEF CopyOrder
<1> QED BY <1>2, <1>3 DEF Order

\* A response is pushed.
LEMMA AnswerPushed ==
    ASSUME Types, Order, NEW r \in Respond, r.id = Taken,
           respondQueue' = Append(respondQueue, r),
           UNCHANGED <<handling, pushed, requestQueue>>,
           \A y \in Answers : Follows(y, r)
    PROVE  /\ InOrder(respondQueue')
           /\ handling' # None => \A y \in Elements(respondQueue') : Follows(handling', y)
           /\ Answers' = Answers \cup {r}
<1>1. respondQueue \in Seq(Respond)
  BY DEF Types, QueueTypes
<1>2. Elements(respondQueue') = Elements(respondQueue) \cup {r}
  BY <1>1, Pushed
<1>3. InOrder(respondQueue')
  BY <1>1, InOrderPushed DEF Order, AnswerOrder, Answers
<1> QED BY <1>2, <1>3 DEF Order, AnswerOrder, Answers

LEMMA PushRespondOrder ==
    ASSUME Types, Order, PushRespond PROVE Order'
<1>0. /\ redisAt = "respond" /\ redisAt' = "release" /\ redisWork' = redisWork
      /\ redisWork \in GoodRequest
      /\ UNCHANGED <<requestQueue, copyQueue, mysqlWork, handling, pushed>>
  BY PushRespondTypes DEF PushRespond, main
<1>1. PICK r \in Respond : /\ r.op = redisWork.op /\ r.from = "response"
                           /\ r.id = redisWork.id
                           /\ respondQueue' = Append(respondQueue, r)
  BY PushRespondTypes
<1>2. /\ Taken \in Nat /\ \A y \in Answers : y.id \in Nat
      /\ redisWork # None /\ r.id = Taken
  BY <1>0, <1>1, TakenNat, AnswersAre, RespondFields, RequestFields
     DEF Id, Order, RequestIds
<1>3. \A y \in Answers : Follows(y, r)
  BY <1>0, <1>1, <1>2 DEF Order, AnswerOrder, Follows
<1>4. RequestIds' /\ CopyOrder' /\ Taken' = Taken
  BY <1>0, IdsKept, CopiesKept DEF Order
<1>5. /\ InOrder(respondQueue')
      /\ handling' # None => \A y \in Elements(respondQueue') : Follows(handling', y)
      /\ Answers' = Answers \cup {r}
  BY <1>0, <1>1, <1>2, <1>3, AnswerPushed
<1>6. \A y \in Answers' : y.id <= Taken
  BY <1>2, <1>5 DEF Order, AnswerOrder
<1> QED BY <1>0, <1>4, <1>5, <1>6 DEF Order, AnswerOrder

LEMMA QueryOrder ==
    ASSUME Types, Order, RequestMySQLQuery PROVE Order'
<1>0. /\ redisAt = "query" /\ redisAt' = "respond" /\ redisWork' = redisWork
      /\ redisWork \in GoodRequest /\ redisWork.op = "hget"
      /\ UNCHANGED <<requestQueue, copyQueue, mysqlWork, handling, pushed>>
  BY QueryTypes DEF RequestMySQLQuery, main
<1>1. PICK r \in Respond : /\ r.op = "hget" /\ r.from = "mysql"
                           /\ r.id = redisWork.id
                           /\ respondQueue' = Append(respondQueue, r)
  BY QueryTypes
<1>2. /\ Taken \in Nat /\ \A y \in Answers : y.id \in Nat
      /\ redisWork # None /\ r.id = Taken
  BY <1>0, <1>1, TakenNat, AnswersAre, RespondFields, RequestFields
     DEF Id, Order, RequestIds
<1>3. \A y \in Answers : Follows(y, r) /\ y.id < Taken
  BY <1>0, <1>1, <1>2 DEF Order, AnswerOrder, Follows
<1>4. RequestIds' /\ CopyOrder' /\ Taken' = Taken
  BY <1>0, IdsKept, CopiesKept DEF Order
<1>5. /\ InOrder(respondQueue')
      /\ handling' # None => \A y \in Elements(respondQueue') : Follows(handling', y)
      /\ Answers' = Answers \cup {r}
  BY <1>0, <1>1, <1>2, <1>3, AnswerPushed
<1>6. \A y \in Answers' : y.id <= Taken /\ (y.id = Taken => y = r)
  BY <1>2, <1>3, <1>5
<1> QED BY <1>0, <1>1, <1>4, <1>5, <1>6 DEF Order, AnswerOrder

LEMMA MysqlPopOrder ==
    ASSUME Types, Order, MysqlPopRequest PROVE Order' /\ Copied' = Copied
<1>0. /\ mysqlWork = None /\ copyQueue \in Seq(GoodCopy) /\ copyQueue # <<>>
      /\ mysqlWork' = Head(copyQueue) /\ copyQueue' = Tail(copyQueue)
      /\ mysqlWork' \in GoodCopy
      /\ UNCHANGED <<requestQueue, respondQueue, redisVars, handling, pushed>>
  BY MysqlPopTypes DEF main
<1>1. RequestIds' /\ AnswerOrder' /\ Taken' = Taken
  BY <1>0, IdsKept, AnswersKept DEF Order, redisVars
<1>2. /\ InOrder(copyQueue')
      /\ \A r \in Elements(copyQueue') : Follows(mysqlWork', r)
      /\ Elements(copyQueue) = Elements(copyQueue') \cup {mysqlWork'}
  BY <1>0, InOrderPopped, Popped DEF Order, CopyOrder
<1>3. Copied' = Copied
  <2>1. mysqlWork' # None
    BY <1>0, RequestFields DEF GoodCopy
  <2> QED BY <1>0, <1>2, <2>1 DEF Copied
<1>4. CopyOrder'
  BY <1>0, <1>1, <1>2, <1>3 DEF Order, CopyOrder, redisVars
<1> QED BY <1>1, <1>3, <1>4 DEF Order

LEMMA MysqlQueryOrder ==
    ASSUME Types, Order, MysqlQuery
    PROVE  Order' /\ Copied = Copied' \cup {mysqlWork}
           /\ \A r \in Copied' : Follows(mysqlWork, r)
<1>0. /\ mysqlWork \in GoodCopy /\ mysqlWork' = None
      /\ UNCHANGED <<queues, redisVars, main>>
  BY MysqlQueryTypes
<1>1. RequestIds' /\ AnswerOrder' /\ Taken' = Taken
  BY <1>0, IdsKept, AnswersKept DEF Order, redisVars, queues, main
<1>2. mysqlWork # None
  BY <1>0, RequestFields DEF GoodCopy
<1>3. Copied = Copied' \cup {mysqlWork} /\ Copied' = Elements(copyQueue)
  BY <1>0, <1>2 DEF Copied, queues
<1>4. CopyOrder'
  BY <1>0, <1>1, <1>3 DEF Order, CopyOrder, queues, redisVars
<1> QED BY <1>1, <1>2, <1>3, <1>4 DEF Order, CopyOrder

LEMMA PopRespondOrder ==
    ASSUME Types, Order, PopRespond PROVE Order' /\ Answers' = Answers
<1>0. /\ handling = None /\ respondQueue \in Seq(Respond) /\ respondQueue # <<>>
      /\ handling' = Head(respondQueue) /\ respondQueue' = Tail(respondQueue)
      /\ handling' \in Respond
      /\ UNCHANGED <<requestQueue, copyQueue, redisVars, mysqlWork, pushed>>
  BY PopRespondTypes
<1>1. RequestIds' /\ CopyOrder' /\ Taken' = Taken
  BY <1>0, IdsKept, CopiesKept DEF Order, redisVars
<1>2. /\ InOrder(respondQueue')
      /\ \A r \in Elements(respondQueue') : Follows(handling', r)
      /\ Elements(respondQueue) = Elements(respondQueue') \cup {handling'}
  BY <1>0, InOrderPopped, Popped DEF Order, AnswerOrder
<1>3. Answers' = Answers
  <2>1. handling' # None
    BY <1>0, RespondFields
  <2> QED BY <1>0, <1>2, <2>1 DEF Answers
<1>4. AnswerOrder'
  BY <1>0, <1>1, <1>2, <1>3 DEF Order, AnswerOrder, redisVars
<1> QED BY <1>1, <1>3, <1>4 DEF Order

LEMMA ResponsedOrder ==
    ASSUME Types, Order, Responsed
    PROVE  Order' /\ Answers = Answers' \cup {handling}
           /\ \A r \in Answers' : Follows(handling, r)
<1>0. /\ handling \in Respond /\ handling' = None
      /\ UNCHANGED <<queues, redisVars, mysqlWork, pushed>>
  BY ResponsedTypes
<1>1. RequestIds' /\ CopyOrder' /\ Taken' = Taken
  BY <1>0, IdsKept, CopiesKept DEF Order, redisVars, queues
<1>2. handling # None
  BY <1>0, RespondFields
<1>3. Answers = Answers' \cup {handling} /\ Answers' = Elements(respondQueue)
  BY <1>0, <1>2 DEF Answers, queues
<1>4. AnswerOrder'
  BY <1>0, <1>1, <1>3 DEF Order, AnswerOrder, queues, redisVars
<1> QED BY <1>1, <1>2, <1>3, <1>4 DEF Order, AnswerOrder

\* After a crash, as at first, there is nothing to be in order.
LEMMA EmptyOrder ==
    /\ requestQueue = <<>> /\ respondQueue = <<>> /\ copyQueue = <<>>
    /\ redisWork = None /\ mysqlWork = None /\ handling = None /\ pushed = 0
    => Order /\ Answers = {} /\ Copied = {}
<1> SUFFICES ASSUME requestQueue = <<>>, respondQueue = <<>>, copyQueue = <<>>,
                    redisWork = None, mysqlWork = None, handling = None, pushed = 0
             PROVE  Order /\ Answers = {} /\ Copied = {}
  OBVIOUS
<1>1. Answers = {} /\ Copied = {}
  BY NoElements DEF Answers, Copied
<1>2. RequestIds
  BY DEF RequestIds, Taken
<1>3. CopyOrder /\ AnswerOrder
  BY <1>1 DEF CopyOrder, AnswerOrder, InOrder
<1> QED BY <1>1, <1>2, <1>3 DEF Order

LEMMA DiesOrder ==
    ASSUME Types, Dies PROVE Order' /\ Answers' = {} /\ Copied' = {}
<1>1. /\ requestQueue' = <<>> /\ respondQueue' = <<>> /\ copyQueue' = <<>>
      /\ redisWork' = None /\ mysqlWork' = None /\ handling' = None /\ pushed' = 0
  BY RestartsTypes DEF Dies
<1>2. (/\ requestQueue = <<>> /\ respondQueue = <<>> /\ copyQueue = <<>>
       /\ redisWork = None /\ mysqlWork = None /\ handling = None /\ pushed = 0
       => Order /\ Answers = {} /\ Copied = {})'
  BY EmptyOrder, PTL
<1> QED BY <1>1, <1>2

LEMMA OrderStays ==
    ASSUME Order, UNCHANGED <<queues, redisAt, redisWork, mysqlWork, handling, pushed>>
    PROVE  Order'
  BY DEF Order, RequestIds, CopyOrder, AnswerOrder, Taken, Copied, Answers, queues

LEMMA StepOrder == Types /\ Order /\ [Next]_vars => Order'
<1> SUFFICES ASSUME Types, Order, [Next]_vars PROVE Order'
  OBVIOUS
<1>1. CASE UNCHANGED vars
  BY <1>1, OrderStays DEF vars, redisVars, main
<1>2. CASE Next
  <2>1. CASE RedisLoseConnection \/ \E k \in Keys : RedisExpires(k)
    BY <2>1, OrderStays DEF RedisLoseConnection, RedisExpires, redisVars, main
  <2>2. CASE RedisRelease
    <3>1. /\ redisAt' = "pop" /\ redisWork' = None
          /\ UNCHANGED <<queues, mysqlWork, handling, pushed>>
      BY <2>2, ReleaseTypes DEF main
    <3> QED BY <3>1, IdsKept, CopiesKept, AnswersKept DEF Order, queues
  <2> QED BY <1>2, <2>1, <2>2, Steps, PushOrder, RedisPopOrder, CommandOrder,
             PushMysqlOrder, QueryOrder, PushRespondOrder, MysqlPopOrder,
             MysqlQueryOrder, PopRespondOrder, ResponsedOrder, DiesOrder
<1> QED BY <1>1, <1>2


-----------------------------------------------------------------------------
(* References: whoever still uses a buffer has its reference. *)

Requests == Elements(requestQueue) \cup {r \in {redisWork} : r # None}

\* The redis thread is about to release the response of its request.
Releasing == redisAt = "release" /\ OnRequest[redisWork.op].frees

RefsInv ==
    /\ refs \in [Buffers -> 0..2]
    /\ \A r \in Requests : refs[<<"request", r.id>>] = 2
    /\ \A r \in Copied : refs[<<"copy", r.id>>] = 2
    /\ \A r \in Answers : refs[<<r.from, r.id>>] >= 1
    /\ Releasing => refs[<<"response", redisWork.id>>] >= 1
    /\ Releasing => \A r \in Answers : r.from = "response" /\ r.id = redisWork.id =>
                                         refs[<<"response", r.id>>] = 2

LEMMA BufferFacts ==
    ASSUME NEW i \in Id
    PROVE  /\ <<"request", i>> \in Buffers /\ <<"copy", i>> \in Buffers
           /\ <<"response", i>> \in Buffers /\ <<"mysql", i>> \in Buffers
  BY DEF Buffers

LEMMA RequestsAre == ASSUME Types PROVE Requests \subseteq GoodRequest
<1>1. requestQueue \in Seq(GoodRequest) /\ redisWork \in GoodRequest \cup {None}
  BY DEF Types, QueueTypes
<1> QED BY <1>1, ElementsIn DEF Requests

LEMMA CreatedRefs ==
    ASSUME refs \in [Buffers -> 0..2], NEW kind \in {"request", "copy", "response", "mysql"},
           NEW i \in Id, refs' = CreatedAndPushed(kind, i)
    PROVE  /\ refs' \in [Buffers -> 0..2]
           /\ refs'[<<kind, i>>] = 2
           /\ \A b \in Buffers : refs'[b] = refs[b] \/ refs'[b] = 2
           /\ \A b \in Buffers : refs[b] >= 1 => refs'[b] >= 1
           /\ \A b \in Buffers : refs[b] = 2 => refs'[b] = 2
<1>1. <<kind, i>> \in Buffers
  BY DEF Buffers
<1>2. refs' = [refs EXCEPT ![<<kind, i>>] = 2]
  BY DEF CreatedAndPushed
<1> QED BY <1>1, <1>2

LEMMA ReleasedRefs ==
    ASSUME refs \in [Buffers -> 0..2], NEW bs \in SUBSET Buffers,
           \A b \in bs : refs[b] >= 1, refs' = Released(bs)
    PROVE  /\ refs' \in [Buffers -> 0..2]
           /\ \A b \in Buffers \ bs : refs'[b] = refs[b]
           /\ \A b \in bs : refs'[b] = refs[b] - 1
  BY DEF Released

\* A step that creates a buffer leaves the references of the others.
LEMMA RefsGrow ==
    ASSUME Types, RefsInv, refs' \in [Buffers -> 0..2],
           \A b \in Buffers : refs[b] >= 1 => refs'[b] >= 1,
           \A b \in Buffers : refs[b] = 2 => refs'[b] = 2,
           \A r \in Requests' : r \in Requests \/ refs'[<<"request", r.id>>] = 2,
           \A r \in Copied' : r \in Copied \/ refs'[<<"copy", r.id>>] = 2,
           \A r \in Answers' : r \in Answers \/ refs'[<<r.from, r.id>>] = 2,
           Releasing' =>
             \/ refs'[<<"response", redisWork'.id>>] = 2
             \/ Releasing /\ redisWork' = redisWork
    PROVE  RefsInv'
<1>1. \A r \in Requests : r.id \in Id
  BY RequestsAre, RequestFields
<1>2. \A r \in Copied : r.id \in Id
  BY AnswersAre, RequestFields DEF GoodCopy
<1>3. \A r \in Answers : r.id \in Id /\ r.from \in {"response", "mysql"}
  BY AnswersAre, RespondFields
<1>4. \A r \in Requests' : refs'[<<"request", r.id>>] = 2
  BY <1>1, BufferFacts DEF RefsInv
<1>5. \A r \in Copied' : refs'[<<"copy", r.id>>] = 2
  BY <1>2, BufferFacts DEF RefsInv
<1>6. \A r \in Answers' : refs'[<<r.from, r.id>>] >= 1
  <2>1. \A r \in Answers : <<r.from, r.id>> \in Buffers
    BY <1>3, BufferFacts
  <2>2. \A r \in Answers : refs[<<r.from, r.id>>] >= 1
    BY DEF RefsInv
  <2>3. \A r \in Answers : refs'[<<r.from, r.id>>] >= 1
    BY <2>1, <2>2
  <2>4. ASSUME NEW r \in Answers' PROVE refs'[<<r.from, r.id>>] >= 1
    <3>1. CASE r \in Answers
      BY <2>3, <3>1
    <3>2. CASE refs'[<<r.from, r.id>>] = 2
      BY <3>2
    <3> QED BY <2>4, <3>1, <3>2
  <2> QED BY <2>4
<1>7. ASSUME Releasing'
      PROVE  /\ refs'[<<"response", redisWork'.id>>] >= 1
             /\ \A r \in Answers' : r.from = "response" /\ r.id = redisWork'.id =>
                                      refs'[<<"response", r.id>>] = 2
  <2>1. CASE refs'[<<"response", redisWork'.id>>] = 2
    BY <2>1
  <2>2. CASE Releasing /\ redisWork' = redisWork
    <3>1. redisWork.id \in Id
      <4>1. redisWork \in GoodRequest
        BY <2>2 DEF Releasing, Types, QueueTypes
      <4> QED BY <4>1, RequestFields
    <3> QED BY <1>3, <2>2, <3>1, BufferFacts DEF RefsInv
  <2> QED BY <1>7, <2>1, <2>2
<1> QED BY <1>4, <1>5, <1>6, <1>7 DEF RefsInv

LEMMA PushRefs ==
    ASSUME Types, RefsInv, NEW op \in Ops, NEW k \in Keys, PushRedisRequest(op, k)
    PROVE  RefsInv'
<1>1. PICK r \in GoodRequest :
        /\ requestQueue' = Append(requestQueue, r)
        /\ refs' = CreatedAndPushed("request", r.id)
        /\ UNCHANGED <<respondQueue, copyQueue, redisVars, mysqlWork, handling>>
  BY PushTypes
<1>2. r.id \in Id
  BY RequestFields
<1>3. Requests' = Requests \cup {r}
  <2>1. Elements(requestQueue') = Elements(requestQueue) \cup {r}
    BY <1>1, Pushed DEF Types, QueueTypes
  <2> QED BY <1>1, <2>1 DEF Requests, redisVars
<1>4. Copied' = Copied /\ Answers' = Answers
  BY <1>1 DEF Copied, Answers
<1>5. (Releasing' <=> Releasing) /\ redisWork' = redisWork
  BY <1>1 DEF Releasing, redisVars
<1>6. refs \in [Buffers -> 0..2]
  BY DEF RefsInv
<1>7. /\ refs' \in [Buffers -> 0..2] /\ refs'[<<"request", r.id>>] = 2
      /\ \A b \in Buffers : refs[b] >= 1 => refs'[b] >= 1
      /\ \A b \in Buffers : refs[b] = 2 => refs'[b] = 2
  BY <1>1, <1>2, <1>6, CreatedRefs
<1> QED BY <1>3, <1>4, <1>5, <1>7, RefsGrow

LEMMA PushMysqlRefs ==
    ASSUME Types, RefsInv, PushMysqlRequest PROVE RefsInv'
<1>1. /\ redisAt = "copy" /\ redisWork \in GoodCopy /\ copyQueue \in Seq(GoodCopy)
      /\ copyQueue' = Append(copyQueue, redisWork)
      /\ refs' = CreatedAndPushed("copy", redisWork.id)
      /\ redisAt' = IF redisWork.op \in Answered THEN "respond" ELSE "release"
      /\ UNCHANGED <<requestQueue, respondQueue, redisWork, mysqlWork, handling>>
  BY PushMysqlTypes DEF PushMysqlRequest, main
<1>2. redisWork.id \in Id /\ redisWork.op \in Ops
  BY <1>1, RequestFields DEF GoodCopy
<1>3. Requests' = Requests /\ Answers' = Answers
  BY <1>1 DEF Requests, Answers
<1>4. Copied' = Copied \cup {redisWork}
  BY <1>1, Pushed DEF Copied
<1>5. ~Releasing'
  BY <1>1, <1>2, OnRequestOf DEF Releasing
<1>6. refs \in [Buffers -> 0..2]
  BY DEF RefsInv
<1>7. /\ refs' \in [Buffers -> 0..2] /\ refs'[<<"copy", redisWork.id>>] = 2
      /\ \A b \in Buffers : refs[b] >= 1 => refs'[b] >= 1
      /\ \A b \in Buffers : refs[b] = 2 => refs'[b] = 2
  BY <1>1, <1>2, <1>6, CreatedRefs
<1> QED BY <1>3, <1>4, <1>5, <1>7, RefsGrow

LEMMA RespondRefs ==
    ASSUME Types, RefsInv, PushRespond \/ RequestMySQLQuery PROVE RefsInv'
<1>1. PICK r \in Respond :
        /\ r.id = redisWork.id /\ respondQueue' = Append(respondQueue, r)
        /\ refs' = CreatedAndPushed(r.from, r.id)
        /\ redisAt' = "release" => r.from = "response"
  BY PushRespondTypes, QueryTypes
<1>2. /\ respondQueue \in Seq(Respond)
      /\ UNCHANGED <<requestQueue, copyQueue, redisWork, mysqlWork, handling>>
  BY PushRespondTypes, QueryTypes DEF PushRespond, RequestMySQLQuery, main
<1>3. r.id \in Id /\ r.from \in {"request", "copy", "response", "mysql"}
  BY RespondFields
<1>4. Requests' = Requests /\ Copied' = Copied
  BY <1>2 DEF Requests, Copied
<1>5. Answers' = Answers \cup {r}
  BY <1>1, <1>2, Pushed DEF Answers
<1>6. refs \in [Buffers -> 0..2]
  BY DEF RefsInv
<1>7. /\ refs' \in [Buffers -> 0..2] /\ refs'[<<r.from, r.id>>] = 2
      /\ \A b \in Buffers : refs[b] >= 1 => refs'[b] >= 1
      /\ \A b \in Buffers : refs[b] = 2 => refs'[b] = 2
  BY <1>1, <1>3, <1>6, CreatedRefs
<1>8. Releasing' => refs'[<<"response", redisWork'.id>>] = 2
  BY <1>1, <1>2, <1>7 DEF Releasing
<1> QED BY <1>4, <1>5, <1>7, <1>8, RefsGrow

\* The steps that move buffers, or leave them.
LEMMA RefsMoved ==
    ASSUME Types, RefsInv, UNCHANGED refs, Requests' \subseteq Requests,
           Copied' \subseteq Copied, Answers' \subseteq Answers,
           Releasing' => Releasing /\ redisWork' = redisWork
    PROVE  RefsInv'
  BY RefsGrow DEF RefsInv

LEMMA ReleaseRefs ==
    ASSUME Types, Order, RefsInv, RedisRelease PROVE RefsInv'
<1>1. /\ redisAt = "release" /\ redisAt' = "pop" /\ redisWork \in GoodRequest
      /\ redisWork' = None
      /\ refs' = Released(Dropped(redisWork))
      /\ UNCHANGED <<requestQueue, respondQueue, copyQueue, mysqlWork, handling>>
  BY ReleaseTypes DEF queues, main
<1>2. PICK i \in Id : i = redisWork.id
  BY <1>1, RequestFields
<1>3. redisWork # None /\ redisWork \in Requests
  BY <1>1, RequestFields DEF Requests
<1>4. refs[<<"request", i>>] = 2 /\ (Releasing => refs[<<"response", i>>] >= 1)
  BY <1>2, <1>3 DEF RefsInv
<1> PICK q \in Buffers, p \in Buffers : q = <<"request", i>> /\ p = <<"response", i>>
  BY BufferFacts
<1>p. q # p
  OBVIOUS
<1>5. /\ Dropped(redisWork) \subseteq Buffers
      /\ Dropped(redisWork) \subseteq {<<"request", i>>, <<"response", i>>}
      /\ <<"response", i>> \in Dropped(redisWork) <=> Releasing
      /\ \A b \in Dropped(redisWork) : refs[b] >= 1
  <2>1. Releasing <=> OnRequest[redisWork.op].frees
    BY <1>1 DEF Releasing
  <2>2. CASE Releasing
    <3>1. Dropped(redisWork) = {q, p}
      BY <1>2, <2>1, <2>2 DEF Dropped
    <3>2. refs[q] >= 1 /\ refs[p] >= 1
      BY <1>4, <2>2
    <3> QED BY <1>p, <2>2, <3>1, <3>2
  <2>3. CASE ~Releasing
    <3>1. Dropped(redisWork) = {q}
      BY <1>2, <2>1, <2>3 DEF Dropped
    <3>2. refs[q] >= 1
      BY <1>4
    <3> QED BY <1>p, <2>3, <3>1, <3>2
  <2> QED BY <2>2, <2>3
<1>6. /\ refs' \in [Buffers -> 0..2]
      /\ \A b \in Buffers \ Dropped(redisWork) : refs'[b] = refs[b]
      /\ \A b \in Dropped(redisWork) : refs'[b] = refs[b] - 1
  BY <1>1, <1>5, ReleasedRefs DEF RefsInv
<1>7. Copied' = Copied /\ Answers' = Answers /\ Requests' = Elements(requestQueue)
  BY <1>1 DEF Copied, Answers, Requests
<1>8. \A r \in Elements(requestQueue) : r \in Requests /\ r.id \in Id /\ r.id # i
  <2>1. Taken \in Nat /\ i = Taken
    BY <1>2, <1>3, TakenNat DEF Order, RequestIds
  <2>2. \A j \in DOMAIN requestQueue : requestQueue[j].id # i
    <3>1. \A j \in DOMAIN requestQueue : j \in Nat \ {0}
      BY DEF Types, QueueTypes
    <3> QED BY <2>1, <3>1 DEF Order, RequestIds
  <2> QED BY <2>2, RequestsAre, RequestFields DEF Elements, Requests
<1>9. \A r \in Elements(requestQueue) : refs'[<<"request", r.id>>] = 2
  <2> SUFFICES ASSUME NEW r \in Elements(requestQueue)
               PROVE  refs'[<<"request", r.id>>] = 2
    OBVIOUS
  <2>1. refs[<<"request", r.id>>] = 2
    BY <1>8 DEF RefsInv
  <2>2. <<"request", r.id>> \in Buffers \ Dropped(redisWork)
    BY <1>5, <1>8, BufferFacts
  <2> QED BY <1>6, <2>1, <2>2
<1>10. \A r \in Copied : refs'[<<"copy", r.id>>] = 2
  <2> SUFFICES ASSUME NEW r \in Copied PROVE refs'[<<"copy", r.id>>] = 2
    OBVIOUS
  <2>1. r.id \in Id
    BY AnswersAre, RequestFields DEF GoodCopy
  <2>2. <<"copy", r.id>> \in Buffers \ Dropped(redisWork)
    BY <1>5, <2>1, BufferFacts
  <2> QED BY <1>6, <2>2 DEF RefsInv
<1>11. \A r \in Answers : refs'[<<r.from, r.id>>] >= 1
  <2> SUFFICES ASSUME NEW r \in Answers PROVE refs'[<<r.from, r.id>>] >= 1
    OBVIOUS
  <2>1. r.id \in Id /\ r.from \in {"response", "mysql"}
    BY AnswersAre, RespondFields
  <2>2. PICK b \in Buffers : b = <<r.from, r.id>>
    BY <2>1, BufferFacts
  <2>3. CASE b \in Dropped(redisWork)
    <3>1. r.from = "response" /\ r.id = i /\ Releasing
      BY <1>5, <2>1, <2>2, <2>3
    <3>2. refs[b] = 2
      BY <1>2, <2>2, <3>1 DEF RefsInv
    <3> QED BY <1>6, <2>2, <2>3, <3>2
  <2>4. CASE b \notin Dropped(redisWork)
    BY <1>6, <2>2, <2>4 DEF RefsInv
  <2> QED BY <2>3, <2>4
<1>12. ~Releasing'
  BY <1>1 DEF Releasing
<1> QED BY <1>6, <1>7, <1>9, <1>10, <1>11, <1>12 DEF RefsInv

LEMMA ReleasedOne ==
    ASSUME refs \in [Buffers -> 0..2], NEW p \in Buffers, refs[p] >= 1,
           refs' = Released({p})
    PROVE  /\ refs' \in [Buffers -> 0..2]
           /\ \A b \in Buffers \ {p} : refs'[b] = refs[b]
           /\ refs'[p] = refs[p] - 1
<1>1. {p} \in SUBSET Buffers /\ \A b \in {p} : refs[b] >= 1
  OBVIOUS
<1> QED BY <1>1, ReleasedRefs

LEMMA MysqlQueryRefs ==
    ASSUME Types, Order, RefsInv, MysqlQuery PROVE RefsInv'
<1>1. /\ mysqlWork \in GoodCopy
      /\ refs' = Released({<<"copy", mysqlWork.id>>})
      /\ UNCHANGED <<requestQueue, respondQueue, redisAt, redisWork, handling>>
  BY MysqlQueryTypes DEF queues, redisVars, main
<1>2. PICK i \in Id : i = mysqlWork.id
  BY <1>1, RequestFields DEF GoodCopy
<1>3. Copied = Copied' \cup {mysqlWork} /\ \A r \in Copied' : Follows(mysqlWork, r)
  BY MysqlQueryOrder
<1> PICK p \in Buffers : p = <<"copy", i>>
  BY BufferFacts
<1>4. refs[p] = 2
  BY <1>2, <1>3 DEF RefsInv
<1>5. /\ refs' \in [Buffers -> 0..2]
      /\ \A b \in Buffers \ {p} : refs'[b] = refs[b]
  <2>1. refs \in [Buffers -> 0..2] /\ refs[p] >= 1
    BY <1>4 DEF RefsInv
  <2>2. refs' = Released({p})
    BY <1>1, <1>2
  <2> QED BY <2>1, <2>2, ReleasedOne
<1>6. /\ Requests' = Requests /\ Answers' = Answers
      /\ (Releasing' <=> Releasing) /\ redisWork' = redisWork
  BY <1>1 DEF Requests, Answers, Releasing
<1>7. \A r \in Requests : refs'[<<"request", r.id>>] = 2
  <2> SUFFICES ASSUME NEW r \in Requests PROVE refs'[<<"request", r.id>>] = 2
    OBVIOUS
  <2>1. r.id \in Id /\ refs[<<"request", r.id>>] = 2
    BY RequestsAre, RequestFields DEF RefsInv
  <2>2. <<"request", r.id>> \in Buffers /\ <<"request", r.id>> # p
    BY <2>1, BufferFacts
  <2> QED BY <1>5, <2>1, <2>2
<1>8. \A r \in Copied' : refs'[<<"copy", r.id>>] = 2
  <2> SUFFICES ASSUME NEW r \in Copied' PROVE refs'[<<"copy", r.id>>] = 2
    OBVIOUS
  <2>1. r \in GoodCopy /\ mysqlWork.op # "hget"
    BY <1>1, <1>3, AnswersAre DEF GoodCopy, IsWrite, Writes, Deletions
  <2>2. r.id \in Id /\ r.id # i /\ refs[<<"copy", r.id>>] = 2
    BY <1>2, <1>3, <2>1, RequestFields DEF Follows, GoodCopy, RefsInv, Id
  <2>3. <<"copy", r.id>> \in Buffers /\ <<"copy", r.id>> # p
    BY <2>2, BufferFacts
  <2> QED BY <1>5, <2>2, <2>3
<1>9. \A r \in Answers : refs'[<<r.from, r.id>>] = refs[<<r.from, r.id>>]
  <2> SUFFICES ASSUME NEW r \in Answers
               PROVE  refs'[<<r.from, r.id>>] = refs[<<r.from, r.id>>]
    OBVIOUS
  <2>1. r.id \in Id /\ r.from \in {"response", "mysql"}
    BY AnswersAre, RespondFields
  <2>2. <<r.from, r.id>> \in Buffers /\ <<r.from, r.id>> # p
    BY <2>1, BufferFacts
  <2> QED BY <1>5, <2>2
<1>10. Releasing => refs'[<<"response", redisWork.id>>] = refs[<<"response", redisWork.id>>]
  <2> SUFFICES ASSUME Releasing
               PROVE  refs'[<<"response", redisWork.id>>] = refs[<<"response", redisWork.id>>]
    OBVIOUS
  <2>1. redisWork \in GoodRequest
    BY DEF Releasing, Types, QueueTypes
  <2>2. redisWork.id \in Id
    BY <2>1, RequestFields
  <2>3. <<"response", redisWork.id>> \in Buffers /\ <<"response", redisWork.id>> # p
    BY <2>2, BufferFacts
  <2> QED BY <1>5, <2>3
<1>11. \A r \in Answers : refs'[<<r.from, r.id>>] >= 1
  BY <1>9 DEF RefsInv
<1>12. Releasing => \A r \in Answers : r.from = "response" /\ r.id = redisWork.id =>
                                         refs'[<<"response", r.id>>] = 2
  BY <1>9 DEF RefsInv
<1>13. Releasing => refs'[<<"response", redisWork.id>>] >= 1
  BY <1>10 DEF RefsInv
<1> QED BY <1>5, <1>6, <1>7, <1>8, <1>11, <1>12, <1>13 DEF RefsInv

LEMMA ResponsedRefs ==
    ASSUME Types, Order, RefsInv, Responsed PROVE RefsInv'
<1>1. /\ handling \in Respond
      /\ refs' = Released({<<handling.from, handling.id>>})
      /\ UNCHANGED <<requestQueue, respondQueue, copyQueue, mysqlWork, redisAt, redisWork>>
  BY ResponsedTypes DEF queues, redisVars
<1>2. handling.id \in Id /\ handling.from \in {"response", "mysql"}
  BY <1>1, RespondFields
<1>3. Answers = Answers' \cup {handling} /\ \A r \in Answers' : Follows(handling, r)
  BY ResponsedOrder
<1> PICK p \in Buffers : p = <<handling.from, handling.id>>
  BY <1>2, BufferFacts
<1>4. refs[p] >= 1
  BY <1>3 DEF RefsInv
<1>5. /\ refs' \in [Buffers -> 0..2]
      /\ \A b \in Buffers \ {p} : refs'[b] = refs[b]
      /\ refs'[p] = refs[p] - 1
  BY <1>1, <1>4, ReleasedOne DEF RefsInv
<1>6. /\ Requests' = Requests /\ Copied' = Copied
      /\ (Releasing' <=> Releasing) /\ redisWork' = redisWork
  BY <1>1 DEF Requests, Copied, Releasing
<1>7. \A r \in Requests : refs'[<<"request", r.id>>] = 2
  <2> SUFFICES ASSUME NEW r \in Requests PROVE refs'[<<"request", r.id>>] = 2
    OBVIOUS
  <2>1. r.id \in Id /\ refs[<<"request", r.id>>] = 2
    BY RequestsAre, RequestFields DEF RefsInv
  <2>2. <<"request", r.id>> \in Buffers /\ <<"request", r.id>> # p
    BY <1>2, <2>1, BufferFacts
  <2> QED BY <1>5, <2>1, <2>2
<1>8. \A r \in Copied : refs'[<<"copy", r.id>>] = 2
  <2> SUFFICES ASSUME NEW r \in Copied PROVE refs'[<<"copy", r.id>>] = 2
    OBVIOUS
  <2>1. r.id \in Id /\ refs[<<"copy", r.id>>] = 2
    BY AnswersAre, RequestFields DEF RefsInv, GoodCopy
  <2>2. <<"copy", r.id>> \in Buffers /\ <<"copy", r.id>> # p
    BY <1>2, <2>1, BufferFacts
  <2> QED BY <1>5, <2>1, <2>2
<1>9. \A r \in Answers' : refs'[<<r.from, r.id>>] = refs[<<r.from, r.id>>]
  <2> SUFFICES ASSUME NEW r \in Answers'
               PROVE  refs'[<<r.from, r.id>>] = refs[<<r.from, r.id>>]
    OBVIOUS
  <2>1. r.id \in Id /\ r.from \in {"response", "mysql"}
    BY <1>3, AnswersAre, RespondFields
  <2>2. r.id # handling.id \/ r.from # handling.from
    BY <1>2, <1>3, <2>1 DEF Follows, Id
  <2>3. <<r.from, r.id>> \in Buffers /\ <<r.from, r.id>> # p
    BY <2>1, <2>2, BufferFacts
  <2> QED BY <1>5, <2>3
<1>10. \A r \in Answers' : refs'[<<r.from, r.id>>] >= 1
  BY <1>3, <1>9 DEF RefsInv
<1>11. Releasing => \A r \in Answers' : r.from = "response" /\ r.id = redisWork.id =>
                                          refs'[<<"response", r.id>>] = 2
  BY <1>3, <1>9 DEF RefsInv
<1>12. Releasing => refs'[<<"response", redisWork.id>>] >= 1
  <2> SUFFICES ASSUME Releasing PROVE refs'[<<"response", redisWork.id>>] >= 1
    OBVIOUS
  <2>1. redisWork \in GoodRequest
    BY DEF Releasing, Types, QueueTypes
  <2> PICK q \in Buffers : q = <<"response", redisWork.id>>
    BY <2>1, RequestFields, BufferFacts
  <2>2. refs[q] >= 1
    BY DEF RefsInv
  <2>3. CASE q = p
    <3>1. handling.from = "response" /\ handling.id = redisWork.id
      BY <2>3
    <3>2. refs[p] = 2
      BY <1>3, <3>1 DEF RefsInv
    <3> QED BY <1>5, <2>3, <3>2
  <2>4. CASE q # p
    BY <1>5, <2>2, <2>4
  <2> QED BY <2>3, <2>4
<1> QED BY <1>5, <1>6, <1>7, <1>8, <1>10, <1>11, <1>12 DEF RefsInv

LEMMA StartRefs ==
    Requests = {} /\ Copied = {} /\ Answers = {} /\ redisAt = "pop"
      /\ refs = [b \in Buffers |-> 0] => RefsInv
  BY DEF RefsInv, Releasing

LEMMA NoRequests == requestQueue = <<>> /\ redisWork = None => Requests = {}
  BY NoElements DEF Requests

LEMMA DiesRefs == ASSUME Types, Dies PROVE RefsInv'
<1>1. /\ requestQueue' = <<>> /\ redisWork' = None /\ redisAt' = "pop"
      /\ refs' = [b \in Buffers |-> 0]
  BY RestartsTypes DEF Dies
<1>2. (requestQueue = <<>> /\ redisWork = None => Requests = {})'
  BY NoRequests, PTL
<1>3. (Requests = {} /\ Copied = {} /\ Answers = {} /\ redisAt = "pop"
        /\ refs = [b \in Buffers |-> 0] => RefsInv)'
  BY StartRefs, PTL
<1> QED BY <1>1, <1>2, <1>3, DiesOrder

LEMMA StepRefs == Types /\ Order /\ RefsInv /\ [Next]_vars => RefsInv'
<1> SUFFICES ASSUME Types, Order, RefsInv, [Next]_vars PROVE RefsInv'
  OBVIOUS
<1>1. CASE \/ UNCHANGED vars
           \/ RedisLoseConnection \/ \E k \in Keys : RedisExpires(k)
  <2>1. UNCHANGED <<queues, redisAt, redisWork, mysqlWork, handling, refs>>
    BY <1>1 DEF vars, RedisLoseConnection, RedisExpires, redisVars, main
  <2> QED BY <2>1, RefsMoved DEF Requests, Copied, Answers, queues, Releasing
<1>2. CASE RedisPopRequest
  <2>1. /\ requestQueue \in Seq(GoodRequest) /\ requestQueue # <<>>
        /\ redisWork' = Head(requestQueue) /\ requestQueue' = Tail(requestQueue)
        /\ redisAt' = "command" /\ UNCHANGED <<respondQueue, copyQueue, mysqlWork, handling, refs>>
    BY <1>2, RedisPopTypes DEF RedisPopRequest, main
  <2>2. Requests' \subseteq Requests
    BY <2>1, Popped DEF Requests
  <2> QED BY <2>1, <2>2, RefsMoved DEF Copied, Answers, Releasing
<1>3. CASE RedisCommand
  <2>1. /\ redisWork' = redisWork /\ UNCHANGED <<queues, mysqlWork, handling, refs>>
        /\ redisWork \in GoodRequest
        /\ redisAt' = "release" => redisWork.op \notin Answered
    BY <1>3, CommandTypes DEF main
  <2>2. ~Releasing'
    BY <2>1, RequestFields, OnRequestOf DEF Releasing
  <2> QED BY <2>1, <2>2, RefsMoved DEF Requests, Copied, Answers, queues
<1>4. CASE MysqlPopRequest
  <2>1. UNCHANGED <<requestQueue, respondQueue, redisAt, redisWork, handling, refs>>
    BY <1>4 DEF MysqlPopRequest, redisVars, main
  <2>2. Copied' = Copied
    BY <1>4, MysqlPopOrder
  <2> QED BY <2>1, <2>2, RefsMoved DEF Requests, Answers, Releasing
<1>5. CASE PopRespond
  <2>1. UNCHANGED <<requestQueue, copyQueue, redisAt, redisWork, mysqlWork, refs>>
    BY <1>5 DEF PopRespond, redisVars
  <2>2. Answers' = Answers
    BY <1>5, PopRespondOrder
  <2> QED BY <2>1, <2>2, RefsMoved DEF Requests, Copied, Releasing
<1> QED BY <1>1, <1>2, <1>3, <1>4, <1>5, Steps, PushRefs, PushMysqlRefs, RespondRefs,
           ReleaseRefs, MysqlQueryRefs, ResponsedRefs, DiesRefs

LEMMA InitAll == Init => Order /\ RefsInv
<1> SUFFICES ASSUME Init PROVE Order /\ RefsInv
  OBVIOUS
<1>1. /\ requestQueue = <<>> /\ respondQueue = <<>> /\ copyQueue = <<>>
      /\ redisWork = None /\ mysqlWork = None /\ handling = None /\ pushed = 0
      /\ redisAt = "pop" /\ refs = [b \in Buffers |-> 0]
  BY DEF Init, RedisInit, MysqlInit
<1> QED BY <1>1, EmptyOrder, NoRequests, StartRefs

\* The number of things in a set of at most one.
LEMMA AtMostOne ==
    ASSUME NEW S, \A x, y \in S : x = y
    PROVE  /\ Cardinality(S) \in {0, 1}
           /\ S = {} => Cardinality(S) = 0
<1>1. CASE S = {}
  BY <1>1, FS_EmptySet
<1>2. CASE S # {}
  <2>1. PICK x \in S : S = {x}
    BY <1>2
  <2> QED BY <1>2, <2>1, FS_Singleton
<1> QED BY <1>1, <1>2

LEMMA HoldersCounted ==
    ASSUME Types, Order, RefsInv PROVE NoUseAfterFree
<1> SUFFICES ASSUME NEW b \in Buffers PROVE refs[b] >= Holders(b)
  BY DEF NoUseAfterFree
<1>1. PICK kind \in {"request", "copy", "response", "mysql"}, i \in Id : b = <<kind, i>>
  BY DEF Buffers
<1>2. b[1] = kind /\ b[2] = i
  BY <1>1
<1>t. /\ requestQueue \in Seq(GoodRequest) /\ copyQueue \in Seq(GoodCopy)
      /\ respondQueue \in Seq(Respond)
      /\ redisWork \in GoodRequest \cup {None}
      /\ mysqlWork \in GoodCopy \cup {None} /\ handling \in Respond \cup {None}
  BY DEF Types, QueueTypes
<1>r. refs[b] \in 0..2
  BY DEF RefsInv
<1>3. CASE kind = "request"
  <2> PICK S : S = {j \in DOMAIN requestQueue : requestQueue[j].id = i}
    OBVIOUS
  <2>1. \A x, y \in S : x = y
    <3>1. \A j \in DOMAIN requestQueue : j \in Nat /\ requestQueue[j].id = Taken + j
      BY <1>t DEF Order, RequestIds
    <3> QED BY <3>1, TakenNat DEF Order
  <2>2. Cardinality(S) \in {0, 1} /\ (S = {} => Cardinality(S) = 0)
    BY <2>1, AtMostOne
  <2> PICK n : n = IF redisWork = None THEN 0 ELSE IF redisWork.id = i THEN 1 ELSE 0
    OBVIOUS
  <2>3. Holders(b) = Cardinality(S) + n
    BY <1>2, <1>3 DEF Holders
  <2>4. S # {} \/ n # 0 => \E r \in Requests : r.id = i
    BY DEF Requests, Elements
  <2>5. S # {} \/ n # 0 => refs[b] = 2
    BY <1>1, <1>3, <2>4 DEF RefsInv
  <2> QED BY <1>r, <2>2, <2>3, <2>5
<1>4. CASE kind = "copy"
  <2> PICK S : S = {j \in DOMAIN copyQueue : copyQueue[j].id = i}
    OBVIOUS
  <2>1. \A x, y \in S : x = y
    <3>1. \A j \in DOMAIN copyQueue : /\ j \in Nat /\ copyQueue[j].id \in Nat
                                      /\ copyQueue[j].op # "hget"
      BY <1>t, RequestFields DEF GoodCopy, Id, IsWrite, Writes, Deletions
    <3>2. \A j, l \in DOMAIN copyQueue : j < l => copyQueue[j].id < copyQueue[l].id
      BY <3>1 DEF Order, CopyOrder, InOrder, Follows
    <3> QED BY <3>1, <3>2
  <2>2. Cardinality(S) \in {0, 1} /\ (S = {} => Cardinality(S) = 0)
    BY <2>1, AtMostOne
  <2> PICK n : n = IF mysqlWork = None THEN 0 ELSE IF mysqlWork.id = i THEN 1 ELSE 0
    OBVIOUS
  <2>3. Holders(b) = Cardinality(S) + n
    BY <1>2, <1>4 DEF Holders
  <2>4. S # {} \/ n # 0 => \E r \in Copied : r.id = i
    BY DEF Copied, Elements
  <2>5. S # {} \/ n # 0 => refs[b] = 2
    BY <1>1, <1>4, <2>4 DEF RefsInv
  <2> QED BY <1>r, <2>2, <2>3, <2>5
<1>5. CASE kind \in {"response", "mysql"}
  <2> PICK S : S = {j \in DOMAIN respondQueue : /\ respondQueue[j].id = i
                                                /\ respondQueue[j].from = kind}
    OBVIOUS
  <2>a. \A j \in DOMAIN respondQueue : j \in Nat /\ respondQueue[j].id \in Nat
    BY <1>t, RespondFields DEF Id
  <2>1. \A x, y \in S : x = y
    <3>2. \A j, l \in DOMAIN respondQueue : j < l =>
            \/ respondQueue[j].id < respondQueue[l].id
            \/ respondQueue[j].from # respondQueue[l].from
      BY DEF Order, AnswerOrder, InOrder, Follows
    <3> QED BY <2>a, <3>2
  <2>2. Cardinality(S) \in {0, 1} /\ (S = {} => Cardinality(S) = 0)
    BY <2>1, AtMostOne
  <2> PICK n : n = IF handling # None /\ handling.from = kind
                   THEN IF handling = None THEN 0 ELSE IF handling.id = i THEN 1 ELSE 0
                   ELSE 0
    OBVIOUS
  <2> PICK m : m = IF redisAt = "release" /\ b \in Dropped(redisWork)
                   THEN IF redisWork = None THEN 0 ELSE IF redisWork.id = i THEN 1 ELSE 0
                   ELSE 0
    OBVIOUS
  <2>3. Holders(b) = Cardinality(S) + n + m
    BY <1>2, <1>5 DEF Holders
  <2>4. n \in {0, 1} /\ m \in {0, 1}
    OBVIOUS
  <2>5. S # {} => n = 0
    <3> SUFFICES ASSUME S # {}, n # 0 PROVE FALSE
      OBVIOUS
    <3>1. PICK j \in DOMAIN respondQueue : respondQueue[j].id = i /\ respondQueue[j].from = kind
      OBVIOUS
    <3>2. respondQueue[j] \in Elements(respondQueue)
      BY DEF Elements
    <3>3. handling # None /\ handling.from = kind /\ handling.id = i
      OBVIOUS
    <3>4. Follows(handling, respondQueue[j])
      BY <3>2, <3>3 DEF Order, AnswerOrder
    <3> QED BY <3>1, <3>3, <3>4 DEF Follows, Id
  <2>6. S # {} \/ n # 0 => \E r \in Answers : r.id = i /\ r.from = kind
    BY DEF Answers, Elements
  <2>7. m # 0 => kind = "response" /\ Releasing /\ redisWork.id = i
    BY <1>1, <1>5 DEF Dropped, Releasing
  <2>8. S # {} \/ n # 0 => refs[b] >= 1
    BY <1>1, <2>6 DEF RefsInv
  <2>9. m # 0 => refs[b] >= 1 /\ (S # {} \/ n # 0 => refs[b] = 2)
    BY <1>1, <2>6, <2>7 DEF RefsInv
  <2>10. CASE m = 0
    BY <1>r, <2>2, <2>3, <2>4, <2>5, <2>8, <2>10
  <2>11. CASE m # 0
    BY <1>r, <2>2, <2>3, <2>4, <2>5, <2>9, <2>11
  <2> QED BY <2>10, <2>11
<1> QED BY <1>3, <1>4, <1>5

-----------------------------------------------------------------------------
(* Responses: a request is awaited as long as it, the work on it or its     *)
(* response is under way.                                                   *)

OwedAnswers  == {r \in Answers : r.op \in Named}
OwedRequests == {r \in Elements(requestQueue) : r.op \in Named}
                \cup {r \in {redisWork} : r # None /\ r.op \in Named /\ redisAt # "release"}

AwaitedInv == awaited = {r.id : r \in OwedAnswers \cup OwedRequests}

\* What has no response yet comes after what has one.
LEMMA OwedLater ==
    ASSUME Types, Order
    PROVE  /\ \A y \in Answers, r \in OwedRequests : y.id < r.id
           /\ \A r \in OwedRequests : r.id \in Id /\ r.id <= pushed
           /\ \A y \in Answers : y.id \in Id /\ y.id <= pushed
<1>1. PICK n \in Nat : n = Len(requestQueue) /\ DOMAIN requestQueue = 1..n
  BY DEF Types, QueueTypes
<1>2. Taken \in Nat /\ pushed \in Nat /\ n <= pushed /\ Taken = pushed - n
  BY <1>1, TakenNat DEF Order, RequestIds, Taken
<1>3. \A y \in Answers : y.id \in Nat /\ y.id \in Id /\ y.id <= Taken
  BY AnswersAre, RespondFields DEF Id, Order, AnswerOrder
<1>4. \A r \in Elements(requestQueue) : r.id \in Nat /\ r.id \in Id /\ r.id > Taken
                                        /\ r.id <= pushed
  <2>1. \A j \in 1..n : requestQueue[j].id = Taken + j
    BY <1>1 DEF Order, RequestIds
  <2>2. \A j \in 1..n : requestQueue[j].id > Taken /\ requestQueue[j].id <= pushed
    BY <1>2, <2>1
  <2> QED BY <1>1, <2>2, RequestsAre, RequestFields DEF Elements, Requests, Id
<1>5. ASSUME redisWork # None
      PROVE  redisWork.id = Taken /\ redisWork.id \in Id /\ Taken <= pushed
  BY <1>2, <1>5, RequestFields DEF Types, QueueTypes, Order, RequestIds
<1>6. ASSUME redisWork # None, redisWork.op \in Named, redisAt # "release",
             NEW y \in Answers
      PROVE  y.id < Taken
  <2>1. redisAt \in {"command", "copy", "query", "respond"}
    BY <1>6 DEF Types, QueueTypes
  <2>2. redisWork.op # "hget"
    BY <1>6 DEF Named
  <2> QED BY <1>2, <1>3, <2>1, <2>2 DEF Order, AnswerOrder
<1>7. \A y \in Answers : \A r \in OwedRequests : y.id < r.id
  <2> SUFFICES ASSUME NEW y \in Answers, NEW r \in OwedRequests PROVE y.id < r.id
    OBVIOUS
  <2>1. CASE r \in Elements(requestQueue)
    BY <1>2, <1>3, <1>4, <2>1
  <2>2. CASE r = redisWork /\ r # None /\ r.op \in Named /\ redisAt # "release"
    BY <1>5, <1>6, <2>2
  <2> QED BY <2>1, <2>2 DEF OwedRequests
<1>8. \A r \in OwedRequests : r.id \in Id /\ r.id <= pushed
  BY <1>4, <1>5 DEF OwedRequests
<1>9. \A y \in Answers : y.id <= pushed
  BY <1>2, <1>3
<1> QED BY <1>3, <1>7, <1>8, <1>9

LEMMA AwaitedKept ==
    ASSUME AwaitedInv, UNCHANGED awaited, OwedAnswers' = OwedAnswers,
           OwedRequests' = OwedRequests
    PROVE  AwaitedInv'
  BY DEF AwaitedInv

LEMMA PushAwaited ==
    ASSUME Types, Order, AwaitedInv, NEW op \in Ops, NEW k \in Keys,
           PushRedisRequest(op, k)
    PROVE  AwaitedInv'
<1>1. PICK r \in GoodRequest :
        /\ r.op = op
        /\ requestQueue' = Append(requestQueue, r)
        /\ awaited' = IF OnRequest[op].names THEN awaited \cup {r.id} ELSE awaited
        /\ UNCHANGED <<respondQueue, redisVars, handling>>
  BY PushTypes
<1>2. Elements(requestQueue') = Elements(requestQueue) \cup {r}
  BY <1>1, Pushed DEF Types, QueueTypes
<1>3. OwedAnswers' = OwedAnswers
  BY <1>1 DEF OwedAnswers, Answers
<1>4. OwedRequests' = OwedRequests \cup {x \in {r} : x.op \in Named}
  BY <1>1, <1>2 DEF OwedRequests, redisVars
<1>5. OnRequest[op].names <=> r.op \in Named
  BY <1>1, OnRequestOf
<1> QED BY <1>1, <1>3, <1>4, <1>5 DEF AwaitedInv

LEMMA RedisAwaited ==
    ASSUME Types, Order, AwaitedInv,
           RedisPopRequest \/ RedisCommand \/ PushMysqlRequest \/ RedisRelease
    PROVE  AwaitedInv'
<1>1. UNCHANGED <<awaited, respondQueue, handling>>
  BY DEF RedisPopRequest, RedisCommand, PushMysqlRequest, RedisRelease, queues, main
<1>2. OwedAnswers' = OwedAnswers
  BY <1>1 DEF OwedAnswers, Answers
<1>n. Named \subseteq Answered
  BY DEF Named
<1>3. CASE RedisPopRequest
  <2>1. /\ requestQueue \in Seq(GoodRequest) /\ requestQueue # <<>>
        /\ redisWork = None /\ redisWork' = Head(requestQueue) /\ redisWork' # None
        /\ requestQueue' = Tail(requestQueue) /\ redisAt' = "command"
    BY <1>3, RedisPopTypes
  <2>2. Elements(requestQueue) = Elements(requestQueue') \cup {redisWork'}
    BY <2>1, Popped
  <2>3. OwedRequests' = OwedRequests
    BY <2>1, <2>2 DEF OwedRequests
  <2> QED BY <1>1, <1>2, <2>3, AwaitedKept
<1>4. CASE RedisCommand
  <2>1. /\ redisAt = "command" /\ UNCHANGED <<redisWork, requestQueue>>
        /\ redisAt' = "release" => redisWork.op \notin Answered
    BY <1>4, CommandTypes DEF queues
  <2>2. OwedRequests' = OwedRequests
    BY <1>n, <2>1 DEF OwedRequests
  <2> QED BY <1>1, <1>2, <2>2, AwaitedKept
<1>5. CASE PushMysqlRequest
  <2>1. /\ redisAt = "copy" /\ UNCHANGED <<redisWork, requestQueue>>
        /\ redisAt' = "release" => redisWork.op \notin Answered
    BY <1>5, PushMysqlTypes DEF PushMysqlRequest
  <2>2. OwedRequests' = OwedRequests
    BY <1>n, <2>1 DEF OwedRequests
  <2> QED BY <1>1, <1>2, <2>2, AwaitedKept
<1>6. CASE RedisRelease
  <2>1. redisAt = "release" /\ redisWork' = None /\ UNCHANGED requestQueue
    BY <1>6, ReleaseTypes DEF queues
  <2>2. OwedRequests' = OwedRequests
    BY <2>1 DEF OwedRequests
  <2> QED BY <1>1, <1>2, <2>2, AwaitedKept
<1> QED BY <1>3, <1>4, <1>5, <1>6

LEMMA QueryAwaited ==
    ASSUME Types, AwaitedInv, RequestMySQLQuery PROVE AwaitedInv'
<1>1. /\ redisAt = "query" /\ redisAt' = "respond" /\ respondQueue \in Seq(Respond)
      /\ UNCHANGED <<requestQueue, redisWork, handling, awaited>>
  BY QueryTypes DEF RequestMySQLQuery, main
<1>2. PICK r \in Respond : r.op = "hget" /\ respondQueue' = Append(respondQueue, r)
  BY QueryTypes
<1>3. Elements(respondQueue') = Elements(respondQueue) \cup {r}
  BY <1>1, <1>2, Pushed
<1>4. OwedAnswers' = OwedAnswers
  BY <1>1, <1>2, <1>3 DEF OwedAnswers, Answers, Named
<1>5. OwedRequests' = OwedRequests
  BY <1>1 DEF OwedRequests
<1> QED BY <1>1, <1>4, <1>5, AwaitedKept

LEMMA RespondAwaited ==
    ASSUME Types, AwaitedInv, PushRespond PROVE AwaitedInv'
<1>1. /\ redisAt = "respond" /\ redisAt' = "release" /\ respondQueue \in Seq(Respond)
      /\ redisWork \in GoodRequest
      /\ UNCHANGED <<requestQueue, redisWork, handling, awaited>>
  BY PushRespondTypes DEF PushRespond, main
<1>2. PICK r \in Respond : /\ r.op = redisWork.op /\ r.id = redisWork.id
                           /\ respondQueue' = Append(respondQueue, r)
  BY PushRespondTypes
<1>3. Elements(respondQueue') = Elements(respondQueue) \cup {r}
  BY <1>1, <1>2, Pushed
<1>4. OwedAnswers' = OwedAnswers \cup {x \in {r} : x.op \in Named}
  BY <1>1, <1>2, <1>3 DEF OwedAnswers, Answers
<1>5. redisWork # None
  BY <1>1, RequestFields
<1>6. OwedRequests = OwedRequests' \cup {x \in {redisWork} : x.op \in Named}
  BY <1>1, <1>5 DEF OwedRequests
<1> QED BY <1>1, <1>2, <1>4, <1>6 DEF AwaitedInv

LEMMA ResponsedAwaited ==
    ASSUME Types, Order, AwaitedInv, Responsed PROVE AwaitedInv'
<1>1. /\ handling \in Respond
      /\ awaited' = awaited \ {handling.id}
      /\ UNCHANGED <<requestQueue, redisAt, redisWork>>
  BY ResponsedTypes DEF queues, redisVars
<1>2. Answers = Answers' \cup {handling} /\ \A r \in Answers' : Follows(handling, r)
  BY ResponsedOrder
<1>3. OwedRequests' = OwedRequests
  BY <1>1 DEF OwedRequests
<1>4. OwedAnswers = OwedAnswers' \cup {x \in {handling} : x.op \in Named}
  BY <1>2 DEF OwedAnswers
<1>5. \A r \in OwedRequests : r.id # handling.id
  BY <1>2, OwedLater DEF Id
<1>6. \A r \in OwedAnswers' : r.id # handling.id
  <2>1. \A r \in OwedAnswers' : r \in Answers' /\ r.op # "hget"
    BY DEF OwedAnswers, Named
  <2>2. handling.id \in Nat /\ \A r \in Answers' : r.id \in Nat
    BY <1>2, OwedLater DEF Id
  <2> QED BY <1>2, <2>1, <2>2 DEF Follows
<1> QED BY <1>1, <1>3, <1>4, <1>5, <1>6 DEF AwaitedInv

LEMMA StartAwaited ==
    /\ requestQueue = <<>> /\ redisWork = None /\ Answers = {} /\ awaited = {}
    => AwaitedInv
<1>1. requestQueue = <<>> => Elements(requestQueue) = {}
  BY NoElements
<1> QED BY <1>1 DEF AwaitedInv, OwedAnswers, OwedRequests

LEMMA StepAwaited == Types /\ Order /\ AwaitedInv /\ [Next]_vars => AwaitedInv'
<1> SUFFICES ASSUME Types, Order, AwaitedInv, [Next]_vars PROVE AwaitedInv'
  OBVIOUS
<1>1. CASE \/ UNCHANGED vars \/ MysqlPopRequest \/ MysqlQuery
           \/ RedisLoseConnection \/ \E k \in Keys : RedisExpires(k)
  <2>1. UNCHANGED <<requestQueue, respondQueue, redisAt, redisWork, handling, awaited>>
    BY <1>1 DEF vars, MysqlPopRequest, MysqlQuery, RedisLoseConnection, RedisExpires,
                queues, redisVars, main
  <2> QED BY <2>1, AwaitedKept DEF OwedAnswers, OwedRequests, Answers
<1>2. CASE PopRespond
  <2>1. UNCHANGED <<requestQueue, redisAt, redisWork, awaited>> /\ Answers' = Answers
    BY <1>2, PopRespondOrder DEF PopRespond, redisVars
  <2> QED BY <2>1, AwaitedKept DEF OwedAnswers, OwedRequests
<1>3. CASE Dies
  <2>1. requestQueue' = <<>> /\ redisWork' = None /\ awaited' = {} /\ Answers' = {}
    BY <1>3, RestartsTypes, DiesOrder DEF Dies
  <2>2. (requestQueue = <<>> /\ redisWork = None /\ Answers = {} /\ awaited = {}
           => AwaitedInv)'
    BY StartAwaited, PTL
  <2> QED BY <2>1, <2>2
<1> QED BY <1>1, <1>2, <1>3, Steps, PushAwaited, RedisAwaited, QueryAwaited,
           RespondAwaited, ResponsedAwaited

\* A response is named when its request has a name.
LEMMA NamesIs ==
    ASSUME NEW r \in Respond \cup {None}
    PROVE  (r # None /\ OnRequest[r.op].names) <=> (r # None /\ r.op \in Named)
  BY RespondFields, OnRequestOf

LEMMA OrderedAnswers ==
    ASSUME Types, Order, AwaitedInv PROVE AnswersInOrder
<1>t. respondQueue \in Seq(Respond) /\ handling \in Respond \cup {None}
  BY DEF Types, QueueTypes
<1> PICK n \in Nat : n = Len(respondQueue) /\ DOMAIN respondQueue = 1..n
  BY <1>t
<1>1. \A r \in Answers : r.op \in Named => r.id \in awaited
  BY DEF AwaitedInv, OwedAnswers
<1>2. \A j \in 1..n : respondQueue[j] \in Respond /\ respondQueue[j] \in Answers
                      /\ respondQueue[j] # None /\ respondQueue[j].id \in Nat
                      /\ respondQueue[j] \in Elements(respondQueue)
  BY <1>t, RespondFields DEF Answers, Elements, Id
<1>3. handling # None => handling \in Answers /\ handling.id \in Nat
  BY <1>t, RespondFields DEF Answers, Id
<1>4. \A i \in awaited : \/ \E r \in OwedRequests : r.id = i
                         \/ \E j \in 1..n : respondQueue[j].id = i /\ respondQueue[j].op \in Named
                         \/ handling # None /\ handling.id = i /\ handling.op \in Named
  BY DEF AwaitedInv, OwedAnswers, Answers, Elements
<1>5. ASSUME handling # None, handling.op \in Named
      PROVE  handling.id \in awaited /\ \A i \in awaited : i >= handling.id
  <2>1. \A r \in OwedRequests : r.id >= handling.id
    BY <1>3, <1>5, OwedLater DEF Id
  <2>2. \A j \in 1..n : respondQueue[j].id >= handling.id
    BY <1>2, <1>3, <1>5 DEF Order, AnswerOrder, Follows
  <2>3. handling.id >= handling.id
    BY <1>3, <1>5
  <2> QED BY <1>1, <1>3, <1>4, <1>5, <2>1, <2>2, <2>3
<1>6. ASSUME NEW j \in 1..n, respondQueue[j].op \in Named,
             NEW M, M = {x \in 1..(j - 1) : respondQueue[x].op \in Named},
             NEW H, H = {h \in {handling} : h # None /\ h.op \in Named}
      PROVE  /\ respondQueue[j].id \in awaited
             /\ {i \in awaited : i < respondQueue[j].id}
                  = {respondQueue[m].id : m \in M} \cup {r.id : r \in H}
  <2>1. respondQueue[j].id \in awaited /\ respondQueue[j].id \in Nat
        /\ respondQueue[j].op # "hget"
    BY <1>1, <1>2, <1>6 DEF Named
  <2>2. \A m \in M : m \in 1..n /\ m < j
    BY <1>6
  <2>3. \A m \in 1..n : m < j => respondQueue[m].id < respondQueue[j].id
    BY <2>1 DEF Order, AnswerOrder, InOrder, Follows
  <2>4. \A m \in M : respondQueue[m].id \in awaited /\ respondQueue[m].id < respondQueue[j].id
    BY <1>1, <1>2, <1>6, <2>2, <2>3
  <2>5. \A r \in H : r.id \in awaited /\ r.id < respondQueue[j].id
    BY <1>1, <1>2, <1>3, <1>6, <2>1 DEF Order, AnswerOrder, Follows
  <2>6. ASSUME NEW i \in awaited, i < respondQueue[j].id
        PROVE  i \in {respondQueue[m].id : m \in M} \cup {r.id : r \in H}
    <3>1. CASE \E r \in OwedRequests : r.id = i
      BY <1>2, <2>1, <2>6, <3>1, OwedLater DEF Id
    <3>2. CASE handling # None /\ handling.id = i /\ handling.op \in Named
      BY <1>6, <3>2
    <3>3. ASSUME NEW m \in 1..n, respondQueue[m].id = i, respondQueue[m].op \in Named
          PROVE  i \in {respondQueue[x].id : x \in M}
      <4>1. m # j
        BY <2>1, <2>6, <3>3
      <4>2. ~(j < m)
        <5>1. j < m => respondQueue[j].id < respondQueue[m].id
          BY <2>1 DEF Order, AnswerOrder, InOrder, Follows
        <5> QED BY <1>2, <2>1, <2>6, <3>3, <5>1
      <4>3. m \in 1..(j - 1)
        BY <4>1, <4>2
      <4> QED BY <1>6, <3>3, <4>3
    <3> QED BY <1>4, <3>1, <3>2, <3>3
  <2> QED BY <2>1, <2>4, <2>5, <2>6
<1>7. \A r \in Respond \cup {None} :
        (r # None /\ OnRequest[r.op].names) <=> (r # None /\ r.op \in Named)
  BY NamesIs
<1>8. \A j \in 1..n : (respondQueue[j] # None /\ OnRequest[respondQueue[j].op].names)
                      <=> respondQueue[j].op \in Named
  BY <1>2, <1>7
<1>9. \A j \in 1..n :
        {x \in 1..(j - 1) : respondQueue[x] # None /\ OnRequest[respondQueue[x].op].names}
        = {x \in 1..(j - 1) : respondQueue[x].op \in Named}
  <2> SUFFICES ASSUME NEW j \in 1..n, NEW x \in 1..(j - 1) PROVE x \in 1..n
    BY <1>8
  <2> QED OBVIOUS
<1>10. {h \in {handling} : h # None /\ OnRequest[h.op].names}
       = {h \in {handling} : h # None /\ h.op \in Named}
  BY <1>t, <1>7
<1>11. ASSUME NEW j \in 1..n,
              respondQueue[j] # None /\ OnRequest[respondQueue[j].op].names
       PROVE  /\ respondQueue[j].id \in awaited
              /\ {i \in awaited : i < respondQueue[j].id}
                   = {respondQueue[m].id :
                        m \in {x \in 1..(j - 1) : respondQueue[x] # None
                                                  /\ OnRequest[respondQueue[x].op].names}}
                     \cup {r.id : r \in {h \in {handling} : h # None
                                                            /\ OnRequest[h.op].names}}
  <2>1. respondQueue[j].op \in Named
    BY <1>8, <1>11
  <2> PICK M : M = {x \in 1..(j - 1) : respondQueue[x].op \in Named}
    OBVIOUS
  <2> PICK H : H = {h \in {handling} : h # None /\ h.op \in Named}
    OBVIOUS
  <2>2. M = {x \in 1..(j - 1) : respondQueue[x] # None
                                /\ OnRequest[respondQueue[x].op].names}
    BY <1>9
  <2>3. H = {h \in {handling} : h # None /\ OnRequest[h.op].names}
    BY <1>10
  <2>4. /\ respondQueue[j].id \in awaited
        /\ {i \in awaited : i < respondQueue[j].id}
             = {respondQueue[m].id : m \in M} \cup {r.id : r \in H}
    BY <1>6, <2>1
  <2> QED BY <2>2, <2>3, <2>4
<1>12. handling # None /\ OnRequest[handling.op].names =>
         handling.id \in awaited /\ \A i \in awaited : i >= handling.id
  BY <1>t, <1>5, <1>7
<1> QED BY <1>11, <1>12 DEF AnswersInOrder

-----------------------------------------------------------------------------
(* Reads: what a read expects is what the last write pushed before it will  *)
(* have left in redis when the redis thread comes to it.                    *)

Reads == {"get", "gets", "hget"}

Result(v, want) == \/ v \in {want, Error}
                   \/ want > 0 /\ v = -want
                   \/ Number(want) \in refused

\* Redis has v for k, and will have once it has run the current command.
Kept(k, v) == redis[k] = v \/ Number(v) \in refused
Left(k, v) == IF redisAt = "command" /\ IsWrite(redisWork) /\ redisWork.key = k
              THEN redisWork.val = v ELSE Kept(k, v)

WritesOf(k) == {w \in Elements(requestQueue) : IsWrite(w) /\ w.key = k}

\* The last write of k before request i has written v, or will.
LastWrote(k, i, v) ==
    \/ \E w \in WritesOf(k) : /\ w.id < i /\ w.val = v
                              /\ \A x \in WritesOf(k) : x.id < i => x.id <= w.id
    \/ (\A w \in WritesOf(k) : ~(w.id < i)) /\ Left(k, v)

Expect ==
    /\ \A k \in Keys : LastWrote(k, pushed + 1, last[k])
    /\ \A r \in Elements(requestQueue) : ~IsWrite(r) => LastWrote(r.key, r.id, r.val)

Reading ==
    /\ redisAt \in {"command", "query"} /\ ~IsWrite(redisWork) =>
         Kept(redisWork.key, redisWork.val)
    /\ redisAt \in {"query", "respond"} /\ redisWork.op \in Reads =>
         Result(redisReply, redisWork.val)

Returned ==
    \A r \in Elements(respondQueue) :
      r.from = "response" /\ r.op \in Reads => Result(r.val, r.want)

ReadsInv == Expect /\ Reading /\ Returned

LEMMA ReadIsNoWrite == ASSUME NEW r, r.op \in Reads PROVE ~IsWrite(r)
  BY DEF Reads, IsWrite, Writes, Deletions

\* The ids in the request queue.
LEMMA QueuedIds ==
    ASSUME Types, Order
    PROVE  /\ \A r \in Elements(requestQueue) : /\ r \in GoodRequest /\ r.id \in Nat
                                                /\ Taken < r.id /\ r.id <= pushed
           /\ \A r, s \in Elements(requestQueue) : r.id = s.id => r = s
           /\ pushed \in Nat /\ Taken \in Nat
<1>1. PICK n \in Nat : n = Len(requestQueue) /\ DOMAIN requestQueue = 1..n
  BY DEF Types, QueueTypes
<1>2. Taken \in Nat /\ pushed \in Nat /\ n <= pushed /\ Taken = pushed - n
  BY <1>1, TakenNat DEF Order, RequestIds, Taken
<1>3. \A j \in 1..n : /\ requestQueue[j].id = Taken + j
                      /\ Taken < requestQueue[j].id /\ requestQueue[j].id <= pushed
  <2>1. \A j \in 1..n : requestQueue[j].id = Taken + j
    BY <1>1 DEF Order, RequestIds
  <2> QED BY <1>2, <2>1
<1>4. \A r \in Elements(requestQueue) : r \in GoodRequest /\ r.id \in Nat
  BY ElementsIn, RequestFields DEF Types, QueueTypes, Id
<1>5. \A j, l \in 1..n : requestQueue[j].id = requestQueue[l].id => j = l
  BY <1>2, <1>3
<1> QED BY <1>1, <1>2, <1>3, <1>4, <1>5 DEF Elements

\* A step that leaves the writes before request i, and what they will leave.
LEMMA LastWroteKept ==
    ASSUME NEW k, NEW i, NEW v, LastWrote(k, i, v),
           \A w : (w \in WritesOf(k)' /\ w.id < i) <=> (w \in WritesOf(k) /\ w.id < i),
           Left(k, v) => Left(k, v)'
    PROVE  LastWrote(k, i, v)'
  BY DEF LastWrote

LEMMA ExpectKept ==
    ASSUME Types, Expect, UNCHANGED <<requestQueue, pushed, last>>,
           \A k \in Keys, v \in Cell : Left(k, v) => Left(k, v)'
    PROVE  Expect'
<1>1. \A k : WritesOf(k)' = WritesOf(k)
  BY DEF WritesOf
<1>2. ASSUME NEW k \in Keys, NEW v \in Cell, NEW i, LastWrote(k, i, v)
      PROVE  LastWrote(k, i, v)'
  BY <1>1, <1>2, LastWroteKept
<1>3. last \in [Keys -> Cell] /\ \A r \in Elements(requestQueue) : r.key \in Keys /\ r.val \in Cell
  BY ElementsIn, RequestFields DEF Types, StoreTypes, QueueTypes
<1>4. ASSUME NEW k \in Keys PROVE LastWrote(k, pushed + 1, last[k])'
  <2> PICK v \in Cell : v = last[k]
    BY <1>3
  <2> PICK i : i = pushed + 1
    OBVIOUS
  <2>1. LastWrote(k, i, v)'
    BY <1>2 DEF Expect
  <2> QED BY <2>1
<1>5. ASSUME NEW r \in Elements(requestQueue), ~IsWrite(r)
      PROVE  LastWrote(r.key, r.id, r.val)'
  <2>1. LastWrote(r.key, r.id, r.val)
    BY <1>5 DEF Expect
  <2> QED BY <1>2, <1>3, <2>1
<1>6. Elements(requestQueue)' = Elements(requestQueue)
  OBVIOUS
<1> QED BY <1>4, <1>5, <1>6 DEF Expect, IsWrite

LEMMA PushExpect ==
    ASSUME Types, Order, Expect, NEW op \in Ops, NEW k \in Keys,
           PushRedisRequest(op, k)
    PROVE  Expect'
<1>1. PICK r \in GoodRequest :
        /\ r.op = op /\ r.key = k /\ r.id = pushed + 1
        /\ op \notin Writes \cup Deletions => r.val = last[k] /\ last' = last
        /\ last' = [last EXCEPT ![k] = r.val]
        /\ requestQueue' = Append(requestQueue, r)
        /\ pushed' = pushed + 1
        /\ UNCHANGED <<redisVars, stores, faults>>
  BY PushTypes
<1>2. Elements(requestQueue') = Elements(requestQueue) \cup {r}
  BY <1>1, Pushed DEF Types, QueueTypes
<1>3. /\ \A x \in Elements(requestQueue) : /\ x.id \in Nat /\ x.id <= pushed
                                            /\ x.id < pushed + 1 /\ x.id < pushed + 2
      /\ pushed \in Nat
  BY QueuedIds
<1>4. \A x, v : Left(x, v)' <=> Left(x, v)
  BY <1>1 DEF Left, Kept, redisVars, stores, faults
<1>5. \A x : WritesOf(x)' = WritesOf(x) \cup {w \in {r} : IsWrite(w) /\ w.key = x}
  BY <1>2 DEF WritesOf
<1>6. \A x : WritesOf(x) \subseteq Elements(requestQueue)
  BY DEF WritesOf
<1> PICK i \in Nat, j \in Nat : i = pushed + 1 /\ j = pushed + 2
  BY <1>3
<1>7. ASSUME NEW x, NEW n \in Nat, n <= i, NEW v, LastWrote(x, n, v)
      PROVE  LastWrote(x, n, v)'
  <2>1. ~(r.id < n)
    BY <1>1, <1>3, <1>7
  <2> QED BY <1>4, <1>5, <1>7, <2>1, LastWroteKept
<1>8. ASSUME NEW x, NEW v, LastWrote(x, i, v), ~(IsWrite(r) /\ r.key = x)
      PROVE  LastWrote(x, j, v)'
  <2>1. WritesOf(x)' = WritesOf(x)
    BY <1>5, <1>8
  <2>2. \A w \in WritesOf(x) : w.id < i /\ w.id < j
    BY <1>3, <1>6
  <2> QED BY <1>4, <1>8, <2>1, <2>2 DEF LastWrote
<1>9. ASSUME IsWrite(r) PROVE LastWrote(k, j, r.val)'
  <2>1. r \in WritesOf(k)'
    BY <1>1, <1>5, <1>9
  <2>2. r.id < j /\ \A x \in WritesOf(k)' : x.id <= r.id
    BY <1>1, <1>3, <1>5, <1>6
  <2> QED BY <2>1, <2>2 DEF LastWrote
<1>10. ASSUME NEW x \in Keys PROVE LastWrote(x, pushed + 1, last[x])'
  <2>1. last \in [Keys -> Cell] /\ r.val \in Cell
    BY RequestFields DEF Types, StoreTypes
  <2>2. LastWrote(x, i, last[x])
    BY DEF Expect
  <2> PICK v : v = last'[x]
    OBVIOUS
  <2>3. LastWrote(x, j, v)'
    <3>1. CASE IsWrite(r) /\ x = k
      BY <1>1, <1>9, <2>1, <3>1
    <3>2. CASE x # k
      <4>1. v = last[x]
        BY <1>1, <2>1, <3>2
      <4> QED BY <1>1, <1>8, <2>2, <3>2, <4>1
    <3>3. CASE ~IsWrite(r)
      <4>1. v = last[x]
        BY <1>1, <3>3 DEF IsWrite
      <4> QED BY <1>8, <2>2, <3>3, <4>1
    <3> QED BY <3>1, <3>2, <3>3
  <2>4. pushed' + 1 = j
    BY <1>1, <1>3
  <2> QED BY <2>3, <2>4
<1>11. ASSUME NEW x \in Elements(requestQueue)', ~IsWrite(x)
       PROVE  LastWrote(x.key, x.id, x.val)'
  <2>1. CASE x = r
    <3>1. r.val = last[k] /\ r.id = i /\ r.key = k
      BY <1>1, <1>11, <2>1 DEF IsWrite
    <3>2. LastWrote(k, i, r.val)
      BY <3>1 DEF Expect
    <3>3. LastWrote(k, i, r.val)'
      BY <1>7, <3>2
    <3> QED BY <2>1, <3>1, <3>3
  <2>2. CASE x \in Elements(requestQueue)
    <3>1. x.id \in Nat /\ x.id <= i
      BY <1>3, <2>2
    <3>2. LastWrote(x.key, x.id, x.val)
      BY <1>11, <2>2 DEF Expect
    <3> QED BY <1>7, <3>1, <3>2
  <2> QED BY <1>2, <2>1, <2>2
<1> QED BY <1>10, <1>11 DEF Expect, IsWrite

LEMMA RedisPopReads ==
    ASSUME Types, Order, ReadsInv, RedisPopRequest
    PROVE  ReadsInv'
<1>1. /\ requestQueue \in Seq(GoodRequest) /\ requestQueue # <<>>
      /\ redisWork' = Head(requestQueue) /\ redisWork' \in GoodRequest
      /\ requestQueue' = Tail(requestQueue) /\ redisAt' = "command"
      /\ redisAt = "pop" /\ UNCHANGED <<redis, refused, pushed, last, respondQueue>>
  BY RedisPopTypes DEF RedisPopRequest, stores, main, faults
<1> PICK h \in GoodRequest : h = redisWork'
  BY <1>1
<1> PICK n \in Nat : n = Len(requestQueue)
  BY <1>1
<1>2. /\ n # 0 /\ h = requestQueue[1] /\ DOMAIN requestQueue = 1..n
      /\ DOMAIN requestQueue' = 1..(n - 1)
      /\ \A j \in 1..(n - 1) : requestQueue'[j] = requestQueue[j + 1]
      /\ Elements(requestQueue) = Elements(requestQueue') \cup {h}
  BY <1>1, Popped
<1>i. /\ \A r \in Elements(requestQueue) : r.id \in Nat /\ r.id <= pushed
      /\ pushed \in Nat
  BY QueuedIds
<1>3. \A r \in Elements(requestQueue') : h.id < r.id
  <2>1. Taken \in Nat
    BY TakenNat DEF Order
  <2>2. \A j \in 1..n : requestQueue[j].id = Taken + j
    BY <1>2 DEF Order, RequestIds
  <2>3. \A j \in 1..(n - 1) : j + 1 \in 1..n /\ requestQueue'[j].id = Taken + (j + 1)
    BY <1>2, <2>2
  <2>4. h.id = Taken + 1
    BY <1>2, <2>2
  <2> QED BY <1>2, <2>1, <2>3, <2>4 DEF Elements
<1>4. h.id \in Nat /\ h.id <= pushed /\ h \in Elements(requestQueue)
  BY <1>2, <1>i
<1>5. \A k, v : Left(k, v) <=> Kept(k, v)
  BY <1>1 DEF Left
<1>6. \A k, v : Left(k, v)' <=> IF IsWrite(h) /\ h.key = k THEN h.val = v ELSE Kept(k, v)
  BY <1>1 DEF Left, Kept
<1>7. \A k : WritesOf(k) = WritesOf(k)' \cup {w \in {h} : IsWrite(w) /\ w.key = k}
  BY <1>2 DEF WritesOf
<1>8. \A k : WritesOf(k)' \subseteq Elements(requestQueue')
  BY DEF WritesOf
<1>9. ASSUME NEW k, NEW i \in Nat, h.id < i, NEW v, LastWrote(k, i, v)
      PROVE  LastWrote(k, i, v)'
  <2>1. CASE IsWrite(h) /\ h.key = k
    <3>1. h \in WritesOf(k)
      BY <1>7, <2>1
    <3>2. PICK w \in WritesOf(k) : /\ w.id < i /\ w.val = v
                                   /\ \A x \in WritesOf(k) : x.id < i => x.id <= w.id
      BY <1>9, <3>1 DEF LastWrote
    <3>3. CASE w = h
      <4>1. \A x \in WritesOf(k)' : ~(x.id < i)
        BY <1>2, <1>3, <1>4, <1>7, <1>8, <1>i, <3>2, <3>3
      <4>2. Left(k, v)'
        BY <1>6, <2>1, <3>2, <3>3
      <4> QED BY <4>1, <4>2 DEF LastWrote
    <3>4. CASE w \in WritesOf(k)'
      BY <1>7, <3>2, <3>4 DEF LastWrote
    <3> QED BY <1>7, <3>2, <3>3, <3>4
  <2>2. CASE ~(IsWrite(h) /\ h.key = k)
    <3>1. WritesOf(k)' = WritesOf(k)
      BY <1>7, <2>2
    <3>2. Left(k, v)' <=> Left(k, v)
      BY <1>5, <1>6, <2>2
    <3> QED BY <1>9, <3>1, <3>2, LastWroteKept
  <2> QED BY <2>1, <2>2
<1>10. Expect'
  <2>1. ASSUME NEW k \in Keys PROVE LastWrote(k, pushed + 1, last[k])'
    <3> PICK i \in Nat : i = pushed + 1
      BY <1>i
    <3> PICK v : v = last[k]
      OBVIOUS
    <3>1. LastWrote(k, i, v) /\ h.id < i
      BY <1>4, <1>i DEF ReadsInv, Expect
    <3>2. LastWrote(k, i, v)'
      BY <1>9, <3>1
    <3> QED BY <1>1, <3>2
  <2>2. ASSUME NEW r \in Elements(requestQueue'), ~IsWrite(r)
        PROVE  LastWrote(r.key, r.id, r.val)'
    <3>1. r.id \in Nat /\ h.id < r.id /\ LastWrote(r.key, r.id, r.val)
      BY <1>2, <1>3, <1>i, <2>2 DEF ReadsInv, Expect
    <3> QED BY <1>9, <3>1
  <2> QED BY <2>1, <2>2 DEF Expect, IsWrite
<1>11. ~IsWrite(h) => Kept(h.key, h.val)
  <2> SUFFICES ASSUME ~IsWrite(h) PROVE Kept(h.key, h.val)
    OBVIOUS
  <2>1. LastWrote(h.key, h.id, h.val)
    BY <1>4 DEF ReadsInv, Expect
  <2>2. \A w \in WritesOf(h.key) : ~(w.id < h.id)
    BY <1>3, <1>4, <1>2, <1>7, <1>8, <1>i
  <2> QED BY <1>5, <2>1, <2>2 DEF LastWrote
<1>12. Reading'
  <2>1. ~IsWrite(h) => Kept(h.key, h.val)'
    BY <1>1, <1>11 DEF Kept
  <2> QED BY <1>1, <2>1 DEF Reading, IsWrite
<1>13. Returned'
  BY <1>1 DEF ReadsInv, Returned, Result
<1> QED BY <1>10, <1>12, <1>13 DEF ReadsInv

\* What the command of a write of another key, or no write, leaves.
LEMMA ExecutedElse ==
    ASSUME Types, NEW r \in GoodRequest, NEW k \in Keys
    PROVE  /\ ~(IsWrite(r) /\ r.key = k) => Executed(r)[k] = redis[k]
           /\ IsWrite(r) => Executed(r)[r.key] = r.val
           /\ ~IsWrite(r) => Executed(r) = redis
  BY RequestFields DEF Executed, IsWrite, Types, StoreTypes

LEMMA CommandReads ==
    ASSUME Types, Order, ReadsInv, RedisCommand
    PROVE  ReadsInv'
<1> PICK r : r = redisWork
  OBVIOUS
<1>1. /\ redisAt = "command" /\ redisWork' = r /\ r \in GoodRequest
      /\ \/ /\ redis' = Executed(r) /\ refused' = refused
            /\ redisReply' = InRedis(r.key)
         \/ /\ redis' = redis /\ redisReply' = Error
            /\ refused' = IF IsWrite(r) THEN refused \cup {Number(r.val)} ELSE refused
      /\ redisAt' # "command"
      /\ IsWrite(r) <=> redisAt' = "copy"
      /\ UNCHANGED <<requestQueue, respondQueue, pushed, last>>
  BY CommandTypes DEF queues, main
<1>2. refused \subseteq refused'
  BY <1>1
<1>3. ASSUME NEW k \in Keys, NEW v \in Cell, Left(k, v) PROVE Left(k, v)'
  <2>1. CASE IsWrite(r) /\ r.key = k
    <3>1. r.val = v
      BY <1>1, <1>3, <2>1 DEF Left
    <3>2. redis'[k] = v \/ Number(v) \in refused'
      BY <1>1, <2>1, <3>1, ExecutedElse
    <3> QED BY <1>1, <3>2 DEF Left, Kept
  <2>2. CASE ~(IsWrite(r) /\ r.key = k)
    <3>1. Kept(k, v)
      BY <1>1, <1>3, <2>2 DEF Left
    <3>2. redis'[k] = redis[k]
      BY <1>1, <2>2, ExecutedElse
    <3> QED BY <1>1, <1>2, <3>1, <3>2 DEF Left, Kept
  <2> QED BY <2>1, <2>2
<1>4. Expect'
  BY <1>1, <1>3, ExpectKept DEF ReadsInv
<1> PICK reply : reply = redisReply'
  OBVIOUS
<1>5. ASSUME ~IsWrite(r)
      PROVE  Kept(r.key, r.val)' /\ Result(reply, r.val)'
  <2>1. Kept(r.key, r.val)
    BY <1>1, <1>5 DEF ReadsInv, Reading
  <2>2. refused' = refused /\ redis' = redis
    BY <1>1, <1>5, RequestFields, ExecutedElse
  <2>3. Kept(r.key, r.val)'
    BY <2>1, <2>2 DEF Kept
  <2>4. CASE redisReply' = Error
    BY <2>3, <2>4 DEF Result
  <2>5. CASE redisReply' = InRedis(r.key) /\ redis[r.key] = r.val
    <3>1. r.val \in Int /\ (r.key \in expired => r.val > 0)
      BY <1>1, <2>5, RequestFields, CellFacts DEF Types, StoreTypes
    <3>2. redisReply' = r.val \/ (r.val > 0 /\ redisReply' = -r.val)
      BY <2>5, <3>1 DEF InRedis
    <3> QED BY <2>3, <3>2 DEF Result
  <2>6. CASE Number(r.val) \in refused
    BY <2>3, <2>2, <2>6 DEF Result
  <2> QED BY <1>1, <2>1, <2>3, <2>4, <2>5, <2>6 DEF Kept
<1>6. Reading'
  <2>1. r.op \in Reads => ~IsWrite(r)
    BY ReadIsNoWrite
  <2> QED BY <1>1, <1>5, <2>1 DEF Reading, IsWrite
<1>7. Returned'
  BY <1>1, <1>2 DEF ReadsInv, Returned, Result
<1> QED BY <1>4, <1>6, <1>7 DEF ReadsInv

LEMMA LoseReads ==
    ASSUME Types, ReadsInv, RedisLoseConnection
    PROVE  ReadsInv'
<1> PICK r : r = redisWork
  OBVIOUS
<1>1. /\ redisAt = "command" /\ r \in GoodRequest /\ redisAt' = redisAt
      /\ redis' = Executed(r) \/ redis' = redis
      /\ UNCHANGED <<requestQueue, respondQueue, pushed, last, refused, redisWork,
                     redisReply>>
  BY LoseTypes DEF queues, main, redisVars
<1>2. \A k \in Keys : ~(IsWrite(r) /\ r.key = k) => redis'[k] = redis[k]
  BY <1>1, ExecutedElse
<1>3. ASSUME NEW k \in Keys, NEW v \in Cell, Left(k, v) PROVE Left(k, v)'
  BY <1>1, <1>2, <1>3 DEF Left, Kept
<1>4. Expect'
  BY <1>1, <1>3, ExpectKept DEF ReadsInv
<1>5. ~IsWrite(r) => redis' = redis
  BY <1>1, RequestFields, ExecutedElse
<1>6. Reading'
  BY <1>1, <1>5 DEF ReadsInv, Reading, Kept, IsWrite
<1>7. Returned'
  BY <1>1 DEF ReadsInv, Returned, Result
<1> QED BY <1>4, <1>6, <1>7 DEF ReadsInv

\* Steps that run no command.
LEMMA LeftKept ==
    ASSUME UNCHANGED <<redis, refused>>, redisAt' # "command",
           redisAt # "command"
    PROVE  \A k \in Keys, v \in Cell : Left(k, v) => Left(k, v)'
  BY DEF Left, Kept

LEMMA RespondReads ==
    ASSUME Types, ReadsInv, PushRespond \/ RequestMySQLQuery PROVE ReadsInv'
<1>1. /\ redisAt \in {"query", "respond"} /\ redisAt' \in {"respond", "release"}
      /\ redisAt' = "release" => redisAt = "respond"
      /\ respondQueue \in Seq(Respond)
      /\ UNCHANGED <<requestQueue, redisWork, redisReply, redis, refused, pushed, last>>
  BY PushRespondTypes, QueryTypes
     DEF PushRespond, RequestMySQLQuery, main, stores, faults
<1>2. PICK r \in Respond :
        /\ respondQueue' = Append(respondQueue, r)
        /\ r.from = "response" => /\ r.op = redisWork.op /\ r.val = redisReply
                                  /\ r.want = redisWork.val
  BY PushRespondTypes, QueryTypes
<1>3. Elements(respondQueue') = Elements(respondQueue) \cup {r}
  BY <1>1, <1>2, Pushed
<1>4. Expect'
  BY <1>1, LeftKept, ExpectKept DEF ReadsInv
<1>5. Reading'
  BY <1>1 DEF ReadsInv, Reading, Result
<1>6. Returned'
  <2>1. r.from = "response" /\ r.op \in Reads => Result(r.val, r.want)
    BY <1>1, <1>2 DEF ReadsInv, Reading
  <2> QED BY <1>1, <1>3, <2>1 DEF ReadsInv, Returned, Result
<1> QED BY <1>4, <1>5, <1>6 DEF ReadsInv

\* After a crash, as at first, redis has what was written last.
LEMMA StartReads ==
    /\ requestQueue = <<>> /\ respondQueue = <<>> /\ redisAt = "pop" /\ last = redis
    => ReadsInv
<1> SUFFICES ASSUME requestQueue = <<>>, respondQueue = <<>>, redisAt = "pop",
                    last = redis
             PROVE  ReadsInv
  OBVIOUS
<1>1. Elements(requestQueue) = {} /\ Elements(respondQueue) = {}
  BY NoElements
<1>2. \A k : WritesOf(k) = {}
  BY <1>1 DEF WritesOf
<1>3. \A k : Left(k, last[k])
  BY DEF Left, Kept
<1>4. \A k : LastWrote(k, pushed + 1, last[k])
  BY <1>2, <1>3 DEF LastWrote
<1> QED BY <1>1, <1>4 DEF ReadsInv, Expect, Reading, Returned

LEMMA StepReads == Types /\ Order /\ ReadsInv /\ [Next]_vars => ReadsInv'
<1> SUFFICES ASSUME Types, Order, ReadsInv, [Next]_vars PROVE ReadsInv'
  OBVIOUS
<1>1. CASE \/ UNCHANGED vars \/ MysqlPopRequest \/ MysqlQuery \/ Responsed
           \/ \E k \in Keys : RedisExpires(k)
  <2>1. UNCHANGED <<requestQueue, respondQueue, redisVars, redis, refused, pushed, last>>
    BY <1>1 DEF vars, MysqlPopRequest, MysqlQuery, Responsed, RedisExpires,
                queues, redisVars, main, stores, faults
  <2>2. \A k, v : Left(k, v)' <=> Left(k, v)
    BY <2>1 DEF Left, Kept, redisVars
  <2>3. Expect'
    BY <2>1, <2>2, ExpectKept DEF ReadsInv
  <2> QED BY <2>1, <2>3 DEF ReadsInv, Reading, Returned, Result, Kept, redisVars
<1>2. CASE PopRespond
  <2>1. UNCHANGED <<requestQueue, redisVars, redis, refused, pushed, last>>
        /\ respondQueue \in Seq(Respond) /\ respondQueue # <<>>
        /\ respondQueue' = Tail(respondQueue)
    BY <1>2, PopRespondTypes DEF PopRespond, stores, faults
  <2>2. \A k, v : Left(k, v)' <=> Left(k, v)
    BY <2>1 DEF Left, Kept, redisVars
  <2>3. Expect'
    BY <2>1, <2>2, ExpectKept DEF ReadsInv
  <2>4. Elements(respondQueue') \subseteq Elements(respondQueue)
    BY <2>1, Popped
  <2> QED BY <2>1, <2>3, <2>4 DEF ReadsInv, Reading, Returned, Result, Kept, redisVars
<1>3. CASE PushMysqlRequest \/ RedisRelease
  <2>1. /\ redisAt \in {"copy", "release"} /\ redisAt' \in {"respond", "release", "pop"}
        /\ redisAt' = "respond" => redisAt = "copy" /\ IsWrite(redisWork) /\ redisWork' = redisWork
        /\ UNCHANGED <<requestQueue, respondQueue, redis, refused, pushed, last>>
    BY <1>3, PushMysqlTypes, ReleaseTypes
       DEF PushMysqlRequest, RedisRelease, queues, main, stores, faults, GoodCopy
  <2>2. Expect'
    BY <2>1, LeftKept, ExpectKept DEF ReadsInv
  <2>3. Reading'
    BY <2>1, ReadIsNoWrite DEF Reading
  <2> QED BY <2>1, <2>2, <2>3 DEF ReadsInv, Returned, Result
<1>4. CASE \E op \in Ops, k \in Keys : PushRedisRequest(op, k)
  <2>1. UNCHANGED <<respondQueue, redisVars, redis, refused>>
    BY <1>4 DEF PushRedisRequest, stores, faults
  <2>2. Expect'
    BY <1>4, PushExpect DEF ReadsInv
  <2> QED BY <2>1, <2>2 DEF ReadsInv, Reading, Returned, Result, Kept, redisVars
<1>5. CASE Dies
  <2>1. requestQueue' = <<>> /\ respondQueue' = <<>> /\ redisAt' = "pop" /\ last' = redis'
    BY <1>5, RestartsTypes DEF Dies, stores
  <2>2. (requestQueue = <<>> /\ respondQueue = <<>> /\ redisAt = "pop" /\ last = redis
           => ReadsInv)'
    BY StartReads, PTL
  <2> QED BY <2>1, <2>2
<1> QED BY <1>1, <1>2, <1>3, <1>4, <1>5, Steps, RedisPopReads, CommandReads, LoseReads,
           RespondReads

LEMMA ReadsAre == ASSUME Types, ReadsInv PROVE ReadsLastWrite
<1>1. \A j \in DOMAIN respondQueue : respondQueue[j] \in Elements(respondQueue)
  BY DEF Elements
<1> QED BY <1>1 DEF ReadsInv, Returned, Result, Reads, ReadsLastWrite

-----------------------------------------------------------------------------
(* Numbers: the writes and deletions that are under way are newer than what *)
(* mysql has, and newer the later they were pushed.                         *)

WritesQueued == {w \in Elements(requestQueue) : IsWrite(w)}
WriteRunning == {w \in {redisWork} : redisAt \in {"command", "copy"} /\ IsWrite(w)}
Pending      == Copied \cup WriteRunning \cup WritesQueued

NumbersInv ==
    /\ \A w \in Pending : Number(w.val) <= writes
    /\ \A v, w \in Pending : v.id < w.id => Number(v.val) < Number(w.val)
    /\ \A k \in Keys : /\ Number(mysql[k]) <= writes
                       /\ \A w \in Pending : Number(mysql[k]) < Number(w.val)

LEMMA CopiesSplit == ASSUME Types PROVE Copies = Copied \cup WriteRunning
  BY CopiesAre DEF Types, Copied, WriteRunning

LEMMA PendingFacts ==
    ASSUME Types, Order
    PROVE  /\ \A w \in Pending : /\ w \in GoodCopy /\ w.id \in Nat /\ w.id <= pushed
                                 /\ Number(w.val) \in Nat /\ w.key \in Keys
           /\ \A w \in WriteRunning : w = redisWork /\ w.id = Taken
           /\ \A k \in Keys : Number(mysql[k]) \in Nat
           /\ writes \in Nat /\ pushed \in Nat
<1>1. \A w \in Copied : w \in GoodCopy
  BY AnswersAre
<1>2. \A w \in WriteRunning : w \in GoodCopy /\ w = redisWork /\ w.id = Taken
  BY RequestFields DEF WriteRunning, GoodCopy, Types, QueueTypes, Order, RequestIds
<1>3. \A w \in WritesQueued : w \in GoodCopy
  BY QueuedIds DEF WritesQueued, GoodCopy
<1>4. \A w \in Pending : w \in GoodCopy
  BY <1>1, <1>2, <1>3 DEF Pending
<1>5. \A w \in GoodCopy : w.id \in Nat /\ w.key \in Keys /\ Number(w.val) \in Nat
  BY RequestFields DEF GoodCopy, Id
<1>6. pushed \in Nat /\ Taken \in Nat /\ Taken <= pushed
  <2>1. Len(requestQueue) \in Nat
    BY DEF Types, QueueTypes
  <2> QED BY <2>1, TakenNat DEF Order, RequestIds, Taken
<1>7. \A w \in Pending : w.id <= pushed
  <2>1. \A w \in Copied : w.id <= pushed
    BY <1>1, <1>5, <1>6 DEF Order, CopyOrder
  <2>2. \A w \in WriteRunning : w.id <= pushed
    BY <1>2, <1>6
  <2>3. \A w \in WritesQueued : w.id <= pushed
    BY QueuedIds DEF WritesQueued
  <2> QED BY <2>1, <2>2, <2>3 DEF Pending
<1>8. \A k \in Keys : Number(mysql[k]) \in Nat
  BY CellFacts DEF Types, StoreTypes
<1>9. writes \in Nat
  BY DBAssumption DEF Types, CountTypes
<1> QED BY <1>2, <1>4, <1>5, <1>6, <1>7, <1>8, <1>9

LEMMA NumbersKept ==
    ASSUME NumbersInv, Pending' \subseteq Pending, UNCHANGED <<writes, mysql>>
    PROVE  NumbersInv'
  BY DEF NumbersInv

LEMMA PushNumbers ==
    ASSUME Types, Order, NumbersInv, NEW op \in Ops, NEW k \in Keys,
           PushRedisRequest(op, k)
    PROVE  NumbersInv'
<1>1. PICK r \in GoodRequest :
        /\ r.op = op /\ r.id = pushed + 1
        /\ op \in Writes \cup Deletions =>
             r.val \in {writes + 1, -(writes + 1)} /\ writes' = writes + 1
        /\ op \notin Writes \cup Deletions => writes' = writes
        /\ requestQueue' = Append(requestQueue, r)
        /\ UNCHANGED <<copyQueue, redisVars, mysqlWork, stores>>
  BY PushTypes
<1>2. Elements(requestQueue') = Elements(requestQueue) \cup {r}
  BY <1>1, Pushed DEF Types, QueueTypes
<1>3. Pending' = Pending \cup {w \in {r} : IsWrite(w)}
  BY <1>1, <1>2 DEF Pending, Copied, WriteRunning, WritesQueued, redisVars
<1>4. /\ \A w \in Pending : w.id \in Nat /\ w.id < r.id /\ Number(w.val) \in Nat
      /\ \A x \in Keys : Number(mysql[x]) \in Nat
      /\ writes \in Nat
  BY <1>1, PendingFacts
<1>5. CASE IsWrite(r)
  <2>1. Number(r.val) = writes + 1 /\ writes' = writes + 1
    BY <1>1, <1>4, <1>5 DEF Number, IsWrite
  <2>2. Pending' = Pending \cup {r} /\ mysql' = mysql
    BY <1>1, <1>3, <1>5 DEF stores
  <2>3. \A w \in Pending' : Number(w.val) <= writes'
    BY <1>4, <2>1, <2>2 DEF NumbersInv
  <2>4. \A v, w \in Pending' : v.id < w.id => Number(v.val) < Number(w.val)
    <3>1. \A w \in Pending : Number(w.val) < Number(r.val) /\ ~(r.id < w.id)
      BY <1>1, <1>4, <2>1, PendingFacts DEF NumbersInv
    <3>2. ~(r.id < r.id)
      BY <1>1, PendingFacts
    <3> QED BY <2>2, <3>1, <3>2 DEF NumbersInv
  <2>5. \A x \in Keys : /\ Number(mysql[x]) <= writes'
                        /\ \A w \in Pending' : Number(mysql[x]) < Number(w.val)
    <3>1. \A x \in Keys : Number(mysql[x]) <= writes' /\ Number(mysql[x]) < Number(r.val)
      BY <1>4, <2>1 DEF NumbersInv
    <3> QED BY <2>2, <3>1 DEF NumbersInv
  <2> QED BY <2>2, <2>3, <2>4, <2>5 DEF NumbersInv
<1>6. CASE ~IsWrite(r)
  <2>1. Pending' = Pending /\ writes' = writes /\ mysql' = mysql
    BY <1>1, <1>3, <1>6 DEF IsWrite, stores
  <2> QED BY <2>1, NumbersKept
<1> QED BY <1>5, <1>6

\* The copy mysql runs is the oldest.
LEMMA OldestCopy ==
    ASSUME Types, Order, MysqlQuery
    PROVE  /\ Pending = Pending' \cup {mysqlWork} /\ mysqlWork \in Copied
           /\ \A w \in Pending' : mysqlWork.id < w.id
           /\ Copied = Copied' \cup {mysqlWork} /\ WriteRunning' = WriteRunning
<1>1. /\ mysqlWork \in GoodCopy /\ UNCHANGED <<requestQueue, redisAt, redisWork>>
  BY MysqlQueryTypes DEF queues, redisVars
<1>2. Copied = Copied' \cup {mysqlWork} /\ \A w \in Copied' : Follows(mysqlWork, w)
  BY MysqlQueryOrder
<1>3. WriteRunning' = WriteRunning /\ WritesQueued' = WritesQueued
  BY <1>1 DEF WriteRunning, WritesQueued
<1>4. mysqlWork \in Pending /\ Pending = Pending' \cup {mysqlWork}
  BY <1>2, <1>3 DEF Pending
<1>5. mysqlWork.op # "hget" /\ mysqlWork.id \in Nat
  BY <1>1, <1>4, PendingFacts DEF GoodCopy, IsWrite, Writes, Deletions
<1>6. \A w \in Copied' : mysqlWork.id < w.id
  BY <1>2, <1>5 DEF Follows
<1>7. mysqlWork.id <= Taken /\ (redisAt \in {"command", "copy"} => mysqlWork.id < Taken)
  BY <1>2 DEF Order, CopyOrder
<1>8. \A w \in WriteRunning : mysqlWork.id < w.id
  BY <1>7, PendingFacts DEF WriteRunning
<1>9. \A w \in WritesQueued : mysqlWork.id < w.id
  BY <1>5, <1>7, QueuedIds DEF WritesQueued
<1> QED BY <1>2, <1>3, <1>4, <1>6, <1>8, <1>9 DEF Pending

LEMMA MysqlQueryNumbers ==
    ASSUME Types, Order, NumbersInv, MysqlQuery
    PROVE  /\ NumbersInv'
           /\ \A k \in Keys : Number(mysql'[k]) >= Number(mysql[k])
<1>1. PICK c \in {mysql[mysqlWork.key], mysqlWork.val} :
        mysql' = [mysql EXCEPT ![mysqlWork.key] = c]
  BY MysqlQueryTypes
<1>2. UNCHANGED writes
  BY MysqlQueryTypes DEF main
<1>3. Pending = Pending' \cup {mysqlWork} /\ \A w \in Pending' : mysqlWork.id < w.id
  BY OldestCopy
<1>4. /\ mysqlWork.key \in Keys /\ Number(mysqlWork.val) \in Nat
      /\ \A k \in Keys : Number(mysql[k]) \in Nat
      /\ mysql \in [Keys -> Cell]
  BY <1>3, PendingFacts DEF Types, StoreTypes
<1>5. \A w \in Pending' : Number(mysqlWork.val) < Number(w.val)
  BY <1>3 DEF NumbersInv
<1>6. \A k \in Keys : \/ mysql'[k] = mysql[k]
                      \/ mysql'[k] = mysqlWork.val
  BY <1>1, <1>4
<1>7. \A k \in Keys : Number(mysql[k]) < Number(mysqlWork.val)
  BY <1>3 DEF NumbersInv
<1>8. \A k \in Keys : Number(mysql'[k]) >= Number(mysql[k])
  BY <1>4, <1>6, <1>7
<1>9. NumbersInv'
  <2>1. \A k \in Keys : Number(mysql'[k]) <= writes
    BY <1>3, <1>6 DEF NumbersInv
  <2>2. \A k \in Keys : \A w \in Pending' : Number(mysql'[k]) < Number(w.val)
    BY <1>3, <1>5, <1>6 DEF NumbersInv
  <2> QED BY <1>2, <1>3, <2>1, <2>2 DEF NumbersInv
<1> QED BY <1>8, <1>9

\* The other steps of the three threads leave the same writes under way.
LEMMA RedisPopPending ==
    ASSUME Types, RedisPopRequest
    PROVE  /\ Pending' = Pending /\ Copied' = Copied /\ WriteRunning = {}
           /\ WriteRunning' = {w \in {redisWork'} : IsWrite(w)}
<1>1. /\ requestQueue \in Seq(GoodRequest) /\ requestQueue # <<>>
      /\ redisWork' = Head(requestQueue) /\ requestQueue' = Tail(requestQueue)
      /\ redisAt = "pop" /\ redisAt' = "command" /\ UNCHANGED <<copyQueue, mysqlWork>>
  BY RedisPopTypes DEF RedisPopRequest
<1>2. Elements(requestQueue) = Elements(requestQueue') \cup {redisWork'}
  BY <1>1, Popped
<1>3. WriteRunning = {} /\ WriteRunning' = {w \in {redisWork'} : IsWrite(w)}
  BY <1>1 DEF WriteRunning
<1>4. WritesQueued = WritesQueued' \cup {w \in {redisWork'} : IsWrite(w)}
  BY <1>2 DEF WritesQueued
<1>5. Copied' = Copied
  BY <1>1 DEF Copied
<1> QED BY <1>3, <1>4, <1>5 DEF Pending

LEMMA CommandPending ==
    ASSUME Types, RedisCommand \/ RedisLoseConnection
    PROVE  Pending' = Pending /\ Copied' = Copied /\ WriteRunning' = WriteRunning
<1>1. /\ redisAt = "command" /\ UNCHANGED <<redisWork, queues, mysqlWork>>
      /\ IsWrite(redisWork) => redisAt' \in {"command", "copy"}
      /\ UNCHANGED redisAt \/ (IsWrite(redisWork) <=> redisAt' = "copy")
  BY CommandTypes, LoseTypes DEF redisVars
<1> QED BY <1>1 DEF Pending, Copied, WriteRunning, WritesQueued, queues

LEMMA PushMysqlPending ==
    ASSUME Types, PushMysqlRequest
    PROVE  /\ Pending' = Pending /\ WriteRunning' = {} /\ WriteRunning = {redisWork}
           /\ Copied' = Copied \cup {redisWork}
<1>1. /\ redisAt = "copy" /\ redisAt' \in {"respond", "release"}
      /\ redisWork \in GoodCopy /\ copyQueue \in Seq(GoodCopy)
      /\ copyQueue' = Append(copyQueue, redisWork)
      /\ UNCHANGED <<requestQueue, redisWork, mysqlWork>>
  BY PushMysqlTypes DEF PushMysqlRequest
<1>2. Elements(copyQueue') = Elements(copyQueue) \cup {redisWork}
  BY <1>1, Pushed
<1>3. WriteRunning = {redisWork} /\ WriteRunning' = {}
  BY <1>1 DEF WriteRunning, GoodCopy
<1>4. Copied' = Copied \cup {redisWork}
  BY <1>1, <1>2 DEF Copied
<1> QED BY <1>1, <1>3, <1>4 DEF Pending, WritesQueued

LEMMA OtherPending ==
    ASSUME Types, Order,
           \/ UNCHANGED vars \/ RedisRelease \/ RequestMySQLQuery \/ PushRespond
           \/ MysqlPopRequest \/ PopRespond \/ Responsed
           \/ \E k \in Keys : RedisExpires(k)
    PROVE  /\ Pending' = Pending /\ Copied' = Copied /\ WriteRunning' = WriteRunning
           /\ UNCHANGED <<writes, redis, mysql, refused, missed>>
           /\ redisAt' = "command" <=> redisAt = "command"
           /\ redisAt = "command" => redisWork' = redisWork
<1>1. UNCHANGED <<writes, redis, mysql, refused, missed>> /\ UNCHANGED requestQueue
  BY DEF vars, RedisRelease, RequestMySQLQuery, PushRespond, MysqlPopRequest,
         PopRespond, Responsed, RedisExpires, queues, stores, main, faults
<1>2. Copied' = Copied
  <2>1. CASE MysqlPopRequest
    BY <2>1, MysqlPopOrder
  <2>2. CASE ~MysqlPopRequest
    BY <2>2 DEF vars, RedisRelease, RequestMySQLQuery, PushRespond, PopRespond,
                Responsed, RedisExpires, queues, Copied
  <2> QED BY <2>1, <2>2
<1>3. \/ UNCHANGED <<redisAt, redisWork>>
      \/ /\ redisAt \in {"release", "query", "respond"}
         /\ redisAt' \in {"release", "respond", "pop"}
  BY DEF vars, RedisRelease, RequestMySQLQuery, PushRespond, MysqlPopRequest,
         PopRespond, Responsed, RedisExpires, redisVars
<1>4. WriteRunning' = WriteRunning
  BY <1>3 DEF WriteRunning
<1> QED BY <1>1, <1>2, <1>3, <1>4 DEF Pending, WritesQueued

LEMMA NothingPending ==
    /\ requestQueue = <<>> /\ redisAt = "pop" /\ Copied = {}
    => Pending = {} /\ WriteRunning = {}
  BY NoElements DEF Pending, WriteRunning, WritesQueued

LEMMA DiesPending ==
    ASSUME Types, Dies
    PROVE  Pending' = {} /\ Copied' = {} /\ WriteRunning' = {}
<1>1. requestQueue' = <<>> /\ redisAt' = "pop" /\ Copied' = {}
  BY RestartsTypes, DiesOrder DEF Dies
<1>2. (requestQueue = <<>> /\ redisAt = "pop" /\ Copied = {}
         => Pending = {} /\ WriteRunning = {})'
  BY NothingPending, PTL
<1> QED BY <1>1, <1>2

LEMMA StepNumbers ==
    ASSUME Types, Order, NumbersInv, [Next]_vars
    PROVE  NumbersInv' /\ \A k \in Keys : Number(mysql'[k]) >= Number(mysql[k])
<1>m. ASSUME UNCHANGED mysql PROVE \A k \in Keys : Number(mysql'[k]) >= Number(mysql[k])
  BY <1>m, PendingFacts
<1>1. CASE \E op \in Ops, k \in Keys : PushRedisRequest(op, k)
  BY <1>1, <1>m, PushNumbers DEF PushRedisRequest, stores
<1>2. CASE RedisPopRequest \/ RedisCommand \/ RedisLoseConnection \/ PushMysqlRequest
  <2>1. UNCHANGED <<writes, mysql>> /\ Pending' = Pending
    BY <1>2, RedisPopPending, CommandPending, PushMysqlPending
       DEF RedisPopRequest, RedisCommand, RedisLoseConnection, PushMysqlRequest, main, stores
  <2> QED BY <1>m, <2>1, NumbersKept
<1>3. CASE \/ UNCHANGED vars \/ RedisRelease \/ RequestMySQLQuery \/ PushRespond
           \/ MysqlPopRequest \/ PopRespond \/ Responsed
           \/ \E k \in Keys : RedisExpires(k)
  BY <1>3, <1>m, OtherPending, NumbersKept
<1>4. CASE Dies
  <2>1. UNCHANGED <<writes, mysql>>
    BY <1>4, RestartsTypes DEF Dies, stores
  <2> QED BY <1>4, <1>m, <2>1, DiesPending, NumbersKept
<1> QED BY <1>1, <1>2, <1>3, <1>4, Steps, MysqlQueryNumbers

-----------------------------------------------------------------------------
(* Agreement: where the databases differ, the write that will change that   *)
(* is under way, mysql has missed it or redis has refused one.              *)

\* A write that redis has still to run, or has refused.
Settled(w) == Number(w.val) \in refused \/ (redisAt = "command" /\ w = redisWork)

UnderWay == Copied \cup WriteRunning

\* What redis has for k is on its way, and nothing after it.
Coming(k) == \E w \in UnderWay :
               /\ w.key = k /\ w.val = redis[k]
               /\ \A x \in UnderWay : x.key = k /\ w.id < x.id => Settled(x)

\* Mysql has it, and nothing else is on its way.
Agreed(k) == /\ mysql[k] = redis[k] \/ Number(mysql[k]) \in refused
             /\ \A x \in UnderWay : x.key = k => Settled(x)

AgreeInv == \A k \in Keys : Number(redis[k]) \in missed \/ Coming(k) \/ Agreed(k)

LEMMA AgreeKept ==
    ASSUME AgreeInv, UnderWay' \subseteq UnderWay \cup {redisWork'},
           UnderWay \subseteq UnderWay',
           UNCHANGED <<redis, mysql, missed>>, refused \subseteq refused',
           \A x \in UnderWay' : (x \in UnderWay => Settled(x)) => Settled(x)'
    PROVE  AgreeInv'
  BY DEF AgreeInv, Coming, Agreed

LEMMA RedisPopAgree ==
    ASSUME Types, Order, AgreeInv, RedisPopRequest PROVE AgreeInv'
<1>1. /\ redisAt = "pop" /\ redisAt' = "command"
      /\ UNCHANGED <<redis, mysql, missed, refused>>
  BY DEF RedisPopRequest, stores, faults
<1>2. UnderWay' = UnderWay \cup {w \in {redisWork'} : IsWrite(w)}
  BY RedisPopPending DEF UnderWay
<1>3. \A x \in UnderWay' : (x \in UnderWay => Settled(x)) => Settled(x)'
  BY <1>1, <1>2 DEF Settled
<1> QED BY <1>1, <1>2, <1>3, AgreeKept

LEMMA CommandAgree ==
    ASSUME Types, Order, AgreeInv, RedisCommand \/ RedisLoseConnection PROVE AgreeInv'
<1> PICK r : r = redisWork
  OBVIOUS
<1>1. /\ redisAt = "command" /\ redisWork' = r /\ r \in GoodRequest
      /\ redisAt' = "command" \/ redisAt' # "command"
      /\ \/ redis' = Executed(r) /\ refused' = refused
         \/ redis' = redis /\ refused' = refused /\ redisAt' = "command"
         \/ redis' = redis /\ (IsWrite(r) => refused' = refused \cup {Number(r.val)})
            /\ refused \subseteq refused'
      /\ UNCHANGED <<mysql, missed>>
  BY CommandTypes, LoseTypes DEF redisVars
<1>2. /\ UnderWay' = UnderWay /\ Copied' = Copied
      /\ WriteRunning = {w \in {r} : IsWrite(w)}
  BY <1>1, CommandPending DEF UnderWay, WriteRunning
<1>3. \A x \in UnderWay : ~(r.id < x.id)
  <2>1. Taken \in Nat /\ (\A x \in Copied : x.id \in Nat /\ x.id < Taken)
    BY <1>1, TakenNat, AnswersAre, RequestFields DEF Order, CopyOrder, GoodCopy, Id
  <2>2. r.id = Taken
    BY <1>1, RequestFields DEF Order, RequestIds
  <2> QED BY <1>2, <2>1, <2>2 DEF UnderWay
<1>4. refused \subseteq refused'
  BY <1>1
<1>5. \A x \in UnderWay : x # r => (Settled(x) => Settled(x)')
  BY <1>1, <1>4 DEF Settled
<1>6. CASE redis' = redis /\ (\A x \in UnderWay : x = r => Settled(x)')
  <2>1. \A x \in UnderWay' : (x \in UnderWay => Settled(x)) => Settled(x)'
    BY <1>2, <1>5, <1>6
  <2> QED BY <1>1, <1>2, <1>4, <1>6, <2>1, AgreeKept
<1>7. CASE redis' = redis /\ ~IsWrite(r)
  <2>1. r \notin UnderWay
    <3>1. \A x \in UnderWay : IsWrite(x)
      BY AnswersAre DEF UnderWay, WriteRunning, GoodCopy
    <3> QED BY <1>7, <3>1
  <2> QED BY <1>6, <1>7, <2>1
<1>8. CASE redis' = redis /\ IsWrite(r) /\ redisAt' = "command"
  <2>1. Settled(r)'
    BY <1>1, <1>8 DEF Settled
  <2> QED BY <1>6, <1>8, <2>1
<1>9. CASE redis' = redis /\ IsWrite(r) /\ refused' = refused \cup {Number(r.val)}
  <2>1. Settled(r)'
    BY <1>9 DEF Settled
  <2> QED BY <1>6, <1>9, <2>1
<1>10. CASE redis' = Executed(r) /\ IsWrite(r)
  <2>1. r \in UnderWay
    BY <1>2, <1>10 DEF UnderWay
  <2>2. redis'[r.key] = r.val /\ \A k \in Keys : k # r.key => redis'[k] = redis[k]
    <3>1. r.key \in Keys
      BY <1>1, RequestFields
    <3>2. \A k \in Keys : k # r.key => Executed(r)[k] = redis[k]
      BY <1>1, ExecutedElse
    <3>3. Executed(r)[r.key] = r.val
      BY <1>1, <1>10, <3>1, ExecutedElse
    <3> QED BY <1>10, <3>2, <3>3
  <2>3. Coming(r.key)'
    BY <1>2, <1>3, <2>1, <2>2 DEF Coming
  <2>4. ASSUME NEW k \in Keys, k # r.key
        PROVE  (Number(redis[k]) \in missed \/ Coming(k) \/ Agreed(k))'
    <3>1. redis'[k] = redis[k] /\ mysql' = mysql /\ missed' = missed
      BY <1>1, <2>2, <2>4
    <3>2. \A x \in UnderWay : x.key = k => (Settled(x) => Settled(x)')
      BY <1>5, <2>4
    <3>3. Coming(k) => Coming(k)'
      BY <1>2, <3>1, <3>2 DEF Coming
    <3>4. Agreed(k) => Agreed(k)'
      BY <1>2, <1>4, <3>1, <3>2 DEF Agreed
    <3> QED BY <3>1, <3>3, <3>4 DEF AgreeInv
  <2> QED BY <2>3, <2>4 DEF AgreeInv
<1>11. CASE redis' = Executed(r) /\ ~IsWrite(r)
  BY <1>1, <1>7, <1>11, ExecutedElse, RequestFields
<1> QED BY <1>1, <1>7, <1>8, <1>9, <1>10, <1>11

LEMMA MysqlQueryAgree ==
    ASSUME Types, Order, AgreeInv, MysqlQuery PROVE AgreeInv'
<1> PICK w : w = mysqlWork
  OBVIOUS
<1>1. PICK c \in {mysql[w.key], w.val} :
        /\ mysql' = [mysql EXCEPT ![w.key] = c]
        /\ missed' = IF c = w.val THEN missed ELSE missed \cup {Number(w.val)}
  BY MysqlQueryTypes
<1>2. UNCHANGED <<redisAt, redisWork, redis, refused>>
  BY MysqlQueryTypes DEF redisVars
<1>3. /\ UnderWay = UnderWay' \cup {w} /\ \A x \in UnderWay' : w.id < x.id
      /\ w \in Copied
  BY OldestCopy DEF UnderWay, Pending
<1>4. /\ w.key \in Keys /\ mysql \in [Keys -> Cell] /\ w.id \in Nat
      /\ \A x \in UnderWay : x.id \in Nat
  BY <1>3, PendingFacts DEF Types, StoreTypes, Pending, UnderWay
<1>5. \A x : Settled(x)' <=> Settled(x)
  BY <1>2 DEF Settled
<1>6. missed \subseteq missed'
  BY <1>1
<1>7. Settled(w) => Number(w.val) \in refused
  <2>1. redisAt = "command" => w.id < Taken
    BY <1>3 DEF Order, CopyOrder
  <2>2. redisAt = "command" => redisWork.id = Taken
    BY DEF Types, QueueTypes, Order, RequestIds
  <2>3. Taken \in Nat
    BY TakenNat DEF Order
  <2> QED BY <1>4, <2>1, <2>2, <2>3 DEF Settled
<1>8. ASSUME NEW k \in Keys, Coming(k)
      PROVE  (Number(redis[k]) \in missed \/ Coming(k) \/ Agreed(k))'
  <2>1. PICK v \in UnderWay : /\ v.key = k /\ v.val = redis[k]
                              /\ \A x \in UnderWay : x.key = k /\ v.id < x.id => Settled(x)
    BY <1>8 DEF Coming
  <2>2. CASE v # w
    <3>1. v \in UnderWay'
      BY <1>3, <2>2
    <3> QED BY <1>2, <1>3, <1>5, <2>1, <3>1 DEF Coming
  <2>3. CASE v = w /\ c = w.val
    <3>1. mysql'[k] = redis[k]
      BY <1>1, <1>4, <2>1, <2>3
    <3> QED BY <1>2, <1>3, <1>5, <2>1, <2>3, <3>1 DEF Agreed
  <2>4. CASE v = w /\ c # w.val
    BY <1>1, <1>2, <2>1, <2>4
  <2> QED BY <2>2, <2>3, <2>4
<1>9. ASSUME NEW k \in Keys, Agreed(k) PROVE Agreed(k)'
  <2>1. mysql'[k] = mysql[k] \/ (k = w.key /\ mysql'[k] = w.val)
    BY <1>1, <1>4
  <2>2. k = w.key => Number(w.val) \in refused
    BY <1>3, <1>7, <1>9 DEF Agreed
  <2>3. mysql'[k] = redis[k] \/ Number(mysql'[k]) \in refused
    BY <1>9, <2>1, <2>2 DEF Agreed
  <2> QED BY <1>2, <1>3, <1>5, <1>9, <2>3 DEF Agreed
<1> QED BY <1>2, <1>6, <1>8, <1>9 DEF AgreeInv

LEMMA DiesAgree == ASSUME Types, Order, AgreeInv, Dies PROVE AgreeInv'
<1>1. /\ missed' = missed \cup {Number(r.val) : r \in Copies}
      /\ UNCHANGED <<redis, mysql, refused>>
  BY RestartsTypes DEF Dies, stores
<1>2. UnderWay' = {}
  BY DiesPending DEF UnderWay
<1>3. Copies = UnderWay
  BY CopiesSplit DEF UnderWay
<1>4. ASSUME NEW k \in Keys, Coming(k) PROVE Number(redis[k]) \in missed'
  BY <1>1, <1>3, <1>4 DEF Coming
<1>5. ASSUME NEW k \in Keys, Agreed(k) PROVE Agreed(k)'
  BY <1>1, <1>2, <1>5 DEF Agreed
<1> QED BY <1>1, <1>4, <1>5 DEF AgreeInv

LEMMA StepAgree == Types /\ Order /\ AgreeInv /\ [Next]_vars => AgreeInv'
<1> SUFFICES ASSUME Types, Order, AgreeInv, [Next]_vars PROVE AgreeInv'
  OBVIOUS
<1>1. CASE \E op \in Ops, k \in Keys : PushRedisRequest(op, k)
  <2>1. UNCHANGED <<copyQueue, mysqlWork, redisAt, redisWork, redis, mysql, refused, missed>>
    BY <1>1 DEF PushRedisRequest, redisVars, stores, faults
  <2> QED BY <2>1, AgreeKept DEF UnderWay, Copied, WriteRunning, Settled
<1>2. CASE PushMysqlRequest
  <2>1. /\ redisAt = "copy" /\ redisAt' # "command"
        /\ UNCHANGED <<redis, mysql, refused, missed>>
    BY <1>2, PushMysqlTypes DEF PushMysqlRequest, stores, faults
  <2>2. UnderWay' = UnderWay
    BY <1>2, PushMysqlPending DEF UnderWay
  <2> QED BY <2>1, <2>2, AgreeKept DEF Settled
<1>3. CASE \/ UNCHANGED vars \/ RedisRelease \/ RequestMySQLQuery \/ PushRespond
           \/ MysqlPopRequest \/ PopRespond \/ Responsed
           \/ \E k \in Keys : RedisExpires(k)
  <2>1. /\ UnderWay' = UnderWay /\ UNCHANGED <<redis, mysql, refused, missed>>
        /\ redisAt' = "command" <=> redisAt = "command"
        /\ redisAt = "command" => redisWork' = redisWork
    BY <1>3, OtherPending DEF UnderWay
  <2> QED BY <2>1, AgreeKept DEF Settled
<1> QED BY <1>1, <1>2, <1>3, Steps, RedisPopAgree, CommandAgree, MysqlQueryAgree, DiesAgree

-----------------------------------------------------------------------------
(* The theorems. *)

Inv == Types /\ Order /\ RefsInv /\ AwaitedInv /\ ReadsInv /\ NumbersInv /\ AgreeInv

LEMMA InvInit == Init => Inv
<1> SUFFICES ASSUME Init PROVE Inv
  OBVIOUS
<1>1. /\ requestQueue = <<>> /\ respondQueue = <<>> /\ copyQueue = <<>>
      /\ redisWork = None /\ mysqlWork = None /\ handling = None /\ pushed = 0
      /\ redisAt = "pop" /\ awaited = {} /\ last = redis /\ redis = mysql
  BY DEF Init, RedisInit, MysqlInit
<1>2. Types /\ Order /\ RefsInv
  BY InitTypes, InitAll
<1>3. Answers = {} /\ Copied = {}
  BY <1>1, EmptyOrder
<1>4. Pending = {} /\ WriteRunning = {} /\ UnderWay = {}
  BY <1>1, <1>3, NothingPending DEF UnderWay
<1>5. AwaitedInv
  BY <1>1, <1>3, StartAwaited
<1>6. ReadsInv
  BY <1>1, StartReads
<1>7. NumbersInv
  <2>1. \A k \in Keys : Number(mysql[k]) = 0 /\ writes = 0
    BY DEF Init, Number
  <2> QED BY <1>4, <2>1 DEF NumbersInv
<1>8. AgreeInv
  BY <1>1, <1>4 DEF AgreeInv, Agreed
<1> QED BY <1>2, <1>5, <1>6, <1>7, <1>8 DEF Inv

LEMMA InvStep == Inv /\ [Next]_vars => Inv'
  BY StepTypes, StepOrder, StepRefs, StepAwaited, StepReads, StepNumbers, StepAgree DEF Inv

LEMMA InvAlways == Spec => []Inv
  BY InvInit, InvStep, PTL DEF Spec

\* The databases, the queues, the threads and the reference counts keep to
\* their types: no count leaves 0..2 and the redis thread has a request
\* exactly when it is not waiting for one.
THEOREM DBTypeCorrect == Spec => []TypeOK
<1>1. Inv => TypeOK
  <2> SUFFICES ASSUME Inv PROVE TypeOK
    OBVIOUS
  <2>1. Types /\ Order /\ RefsInv /\ AwaitedInv
    BY DEF Inv
  <2>2. GoodRequest \subseteq Request /\ GoodCopy \subseteq Request
    BY DEF GoodRequest, GoodCopy
  <2>3. requestQueue \in Seq(Request) /\ copyQueue \in Seq(Request)
    BY <2>1, <2>2 DEF Types, QueueTypes
  <2>4. awaited \subseteq 1..pushed
    <3>1. \A r \in OwedAnswers \cup OwedRequests : r.id \in Id /\ r.id <= pushed
      BY <2>1, OwedLater DEF OwedAnswers
    <3>2. pushed \in Nat
      BY <2>1, QueuedIds
    <3> QED BY <2>1, <3>1, <3>2 DEF AwaitedInv, Id
  <2> QED BY <2>1, <2>2, <2>3, <2>4 DEF TypeOK, Types, QueueTypes, StoreTypes, CountTypes, RefsInv
<1> QED BY <1>1, InvAlways, PTL

\* Every buffer has at least as many references as there are threads and queues
\* that will still use it: KG_Buffer::Release frees none of them too early,
\* whichever of the redis and the main thread is last.
THEOREM NoBufferIsFreedEarly == Spec => []NoUseAfterFree
<1>1. Inv => NoUseAfterFree
  BY HoldersCounted DEF Inv
<1> QED BY <1>1, InvAlways, PTL

\* The responses that name their request reach Lua in the order the requests
\* were pushed, each once, and none is skipped.
THEOREM ResponsesComeInOrder == Spec => []AnswersInOrder
<1>1. Inv => AnswersInOrder
  BY OrderedAnswers DEF Inv
<1> QED BY <1>1, InvAlways, PTL

\* A GET, GETS or HGET returns what the last write or deletion of its key that
\* was pushed before it wrote, whatever is queued, run twice or crashes, unless
\* redis refused that write or has dropped the value.
THEOREM ReadsSeeTheLastWrite == Spec => []ReadsLastWrite
<1>1. Inv => ReadsLastWrite
  BY ReadsAre DEF Inv
<1> QED BY <1>1, InvAlways, PTL

\* With nothing queued or running, mysql has what redis has of every key, but
\* for the writes redis refused and those mysql missed.
THEOREM DatabasesAgreeWhenIdle == Spec => []StoresAgreeWhenIdle
<1>1. Inv => StoresAgreeWhenIdle
  <2> SUFFICES ASSUME Inv, requestQueue = <<>>, redisWork = None,
                      copyQueue = <<>>, mysqlWork = None,
                      NEW k \in Keys
               PROVE  \/ Contents(mysql[k]) = Contents(redis[k])
                      \/ Number(mysql[k]) \in refused
                      \/ Number(redis[k]) \in missed
    BY DEF StoresAgreeWhenIdle
  <2>1. UnderWay = {}
    <3>1. redisAt = "pop"
      BY DEF Inv, Types, QueueTypes
    <3> QED BY <3>1, NoElements DEF UnderWay, Copied, WriteRunning
  <2> QED BY <2>1 DEF Inv, AgreeInv, Coming, Agreed
<1> QED BY <1>1, InvAlways, PTL

\* No copy, of this process or of one before it, takes a key of mysql back to
\* an older write.
THEOREM MysqlOnlyAdvances == Spec => MysqlNeverGoesBack
<1>1. Inv /\ [Next]_vars => [\A k \in Keys : Number(mysql'[k]) >= Number(mysql[k])]_mysql
  BY StepNumbers DEF Inv
<1> QED BY <1>1, InvAlways, PTL DEF Spec, MysqlNeverGoesBack

\* What the redis thread does when it goes from the query to the response.
LEMMA QueryStep ==
    ASSUME Types, [Next]_vars, redisAt = "query", redisAt' = "respond"
    PROVE  RequestMySQLQuery
<1>1. CASE UNCHANGED vars
  BY <1>1 DEF vars, redisVars
<1>2. CASE Next
  BY <1>2, Steps
     DEF PushRedisRequest, RedisPopRequest, RedisCommand, RedisLoseConnection,
         PushMysqlRequest, PushRespond, RedisRelease, MysqlPopRequest, MysqlQuery,
         PopRespond, Responsed, RedisExpires, Dies, Restarts, redisVars
<1> QED BY <1>1, <1>2

\* An HGET that redis could not answer gets from mysql what the last HSET or
\* HDEL pushed before it left, unless its copy is under way, mysql missed it or
\* redis refused it.
THEOREM FallbackSeesTheLastWrite == Spec => FallbackReadsLastWrite
<1> DEFINE Fallback(r, pending) ==
      LET n == Number(r.want)
      IN  r.val \in {0, Error, r.want} \cup refused \/ n \in refused \cup missed
          \/ {n, -n} \cap pending # {}
<1>1. ASSUME Inv, [Next]_vars, redisAt = "query", redisAt' = "respond"
      PROVE  Fallback(respondQueue'[Len(respondQueue')], {w.val : w \in Unfinished})
  <2>1. Types /\ RequestMySQLQuery
    BY <1>1, QueryStep DEF Inv
  <2>2. redisWork \in GoodRequest /\ redisWork.op = "hget" /\ respondQueue \in Seq(Respond)
    BY <2>1, QueryTypes
  <2> PICK k \in Keys, v \in Cell : k = redisWork.key /\ v = redisWork.val
    BY <2>2, RequestFields
  <2>3. PICK r \in Respond :
          /\ r.val \in {Contents(mysql[k]), 0, Error} /\ r.want = v
          /\ respondQueue' = Append(respondQueue, r)
    BY <2>1, QueryTypes
  <2>4. respondQueue'[Len(respondQueue')] = r
    BY <2>2, <2>3, Pushed
  <2> PICK n : n = Number(v)
    OBVIOUS
  <2>5. /\ v \in {n, -n} /\ mysql[k] \in Int
        /\ Contents(v) \in {0, v}
        /\ Contents(mysql[k]) \in {0, Number(mysql[k])}
    BY <2>1, CellFacts DEF Number, Contents, Types, StoreTypes
  <2>6. redis[k] = v \/ n \in refused
    <3>1. ~IsWrite(redisWork)
      BY <2>2, ReadIsNoWrite DEF Reads
    <3> QED BY <1>1, <3>1 DEF Inv, ReadsInv, Reading, Kept
  <2>7. CASE Coming(k) /\ redis[k] = v
    <3>1. PICK w \in UnderWay : w.val = v
      BY <2>7 DEF Coming
    <3>2. w \in Unfinished
      BY <2>1, CopiesSplit DEF UnderWay, Copies
    <3> QED BY <2>3, <2>4, <2>5, <3>1, <3>2
  <2>8. CASE Agreed(k) /\ redis[k] = v
    <3>1. mysql[k] = v \/ Number(mysql[k]) \in refused
      BY <2>8 DEF Agreed
    <3> QED BY <2>3, <2>4, <2>5, <3>1
  <2>9. CASE n \in refused \cup missed
    BY <2>3, <2>4, <2>9
  <2> QED BY <1>1, <2>6, <2>7, <2>8, <2>9 DEF Inv, AgreeInv
<1>2. Inv /\ [Next]_vars =>
        [redisAt = "query" /\ redisAt' = "respond" =>
           LET r == respondQueue'[Len(respondQueue')]
               n == Number(r.want)
               pending == {w.val : w \in Unfinished}
           IN  r.val \in {0, Error, r.want} \cup refused \/ n \in refused \cup missed
               \/ {n, -n} \cap pending # {}]_vars
  BY <1>1
<1> QED BY <1>2, InvAlways, PTL DEF Spec, FallbackReadsLastWrite

-----------------------------------------------------------------------------
(* The database client is a SerialDatabase. *)

\* The response the redis thread has not pushed yet.
Untold == {GenRespond("response", redisReply) :
             w \in {w \in {redisWork} : /\ redisAt \in {"copy", "respond"}
                                       /\ w.op \in Named}}

LEMMA ToldAre == ASSUME Types PROVE Told = OwedAnswers \cup Untold
<1> PICK gen : gen = GenRespond("response", redisReply)
  OBVIOUS
<1>1. \A r \in Answers : OnRequest[r.op].names <=> r.op \in Named
  BY AnswersAre, RespondFields, OnRequestOf
<1>2. ASSUME redisAt \in {"copy", "respond"}
      PROVE  /\ gen.op = redisWork.op
             /\ OnRequest[redisWork.op].names <=> redisWork.op \in Named
  <2>1. redisWork \in GoodRequest
    BY <1>2 DEF Types, QueueTypes
  <2> QED BY <2>1, RequestFields, OnRequestOf DEF GenRespond
<1>3. Told = {r \in Answers \cup (IF redisAt \in {"copy", "respond"} THEN {gen} ELSE {}) :
                OnRequest[r.op].names}
  BY DEF Told, Answers
<1>4. Untold = IF redisAt \in {"copy", "respond"} /\ redisWork.op \in Named
               THEN {gen} ELSE {}
  BY DEF Untold
<1>5. CASE redisAt \in {"copy", "respond"}
  BY <1>1, <1>2, <1>3, <1>4, <1>5 DEF OwedAnswers
<1>6. CASE redisAt \notin {"copy", "respond"}
  BY <1>1, <1>3, <1>4, <1>6 DEF OwedAnswers
<1> QED BY <1>5, <1>6

\* Steps that neither run a request nor hand a response to Lua.
LEMMA SerialStays ==
    ASSUME Types, Types', ToRun' = ToRun, UNCHANGED <<pushed, redis, expired, expiring>>,
           OwedAnswers' \cup Untold' = OwedAnswers \cup Untold
    PROVE  UNCHANGED Serial!vars
<1>1. Told' = Told
  <2>1. Told = OwedAnswers \cup Untold
    BY ToldAre
  <2>2. (Types => Told = OwedAnswers \cup Untold)'
    BY ToldAre, PTL
  <2> QED BY <2>1, <2>2
<1>2. Commands' = Commands /\ Responses' = Responses
  BY <1>1 DEF Commands, Responses
<1>3. Store' = Store
  BY DEF Store, InRedis
<1> QED BY <1>2, <1>3 DEF Serial!vars

\* What the redis thread has not run has different ids, and comes after what it is at.
LEMMA ToRunIds ==
    ASSUME Types, Order
    PROVE  /\ \A r \in ToRun : r \in GoodRequest /\ r.id \in Nat
           /\ redisAt = "command" =>
                /\ redisWork \in ToRun
                /\ \A r \in Elements(requestQueue) : redisWork.id < r.id
<1>1. /\ \A r \in Elements(requestQueue) : /\ r \in GoodRequest /\ r.id \in Nat
                                           /\ Taken < r.id
      /\ Taken \in Nat
  BY QueuedIds
<1>2. ASSUME redisAt = "command"
      PROVE  redisWork \in GoodRequest /\ redisWork.id = Taken /\ redisWork \in ToRun
  BY <1>2, RequestFields DEF Types, QueueTypes, Order, RequestIds, ToRun
<1> QED BY <1>1, <1>2 DEF ToRun

\* Commands of different ids are different.
LEMMA CommandFields ==
    ASSUME NEW r \in GoodRequest
    PROVE  /\ Command(r).id = r.id /\ Command(r).key = r.key
           /\ Command(r).kind = Kind(r.op) /\ Command(r).kind \in Serial!Kinds
           /\ Command(r).val = (IF r.op \in Writes THEN r.val ELSE 0)
           /\ Command(r).answered = OnRequest[r.op].names
           /\ OnRequest[r.op].names <=> r.op \in Named
           /\ Command(r).answered \in BOOLEAN
<1>1. r.op \in Ops
  BY RequestFields
<1>2. OnRequest[r.op].names <=> r.op \in Named
  BY <1>1, OnRequestOf
<1>3. OnRequest[r.op].names \in BOOLEAN
  <2>1. OnRequest[r.op] \in {OnRequestSet, OnRequestGet, OnRequestGets, OnRequestHSet,
                             OnRequestHGet, OnRequestDel, OnRequestHDel, OnRequestExpire}
    BY <1>1, DBAssumption DEF OnRequest
  <2>2. /\ OnRequestSet.names = TRUE /\ OnRequestGet.names = TRUE
        /\ OnRequestGets.names = TRUE /\ OnRequestHSet.names = TRUE
        /\ OnRequestHGet.names = FALSE /\ OnRequestDel.names = FALSE
        /\ OnRequestHDel.names = FALSE /\ OnRequestExpire.names = FALSE
    BY DEF OnRequestSet, OnRequestGet, OnRequestGets, OnRequestHSet, OnRequestHGet,
           OnRequestDel, OnRequestHDel, OnRequestExpire
  <2> QED BY <2>1, <2>2
<1> QED BY <1>2, <1>3 DEF Command, Kind, Serial!Kinds

LEMMA SerialPush ==
    ASSUME Types, Order, NEW op \in Ops, NEW k \in Keys, PushRedisRequest(op, k)
    PROVE  Serial!Next
<1>1. PICK r \in GoodRequest :
        /\ r.op = op /\ r.key = k /\ r.id = pushed + 1
        /\ requestQueue' = Append(requestQueue, r)
        /\ pushed' = pushed + 1
        /\ UNCHANGED <<respondQueue, redisVars, stores, handling>>
  BY PushTypes
<1>2. ToRun' = ToRun \cup {r}
  <2>1. Elements(requestQueue') = Elements(requestQueue) \cup {r}
    BY <1>1, Pushed DEF Types, QueueTypes
  <2> QED BY <1>1, <2>1 DEF ToRun, redisVars
<1>3. Commands' = Commands \cup {Command(r)}
  BY <1>2 DEF Commands
<1>4. PICK v \in 0..MaxWrites : v = IF op \in Writes THEN r.val ELSE 0
  <2>1. r.val \in Cell /\ (op \in Writes => r.val > 0)
    BY <1>1, RequestFields DEF GoodRequest
  <2> QED BY <2>1, DBAssumption DEF Cell
<1>5. /\ Command(r) = [id |-> pushed + 1, kind |-> Kind(op), key |-> k, val |-> v,
                       answered |-> OnRequest[op].names]
      /\ Kind(op) \in Serial!Kinds /\ OnRequest[op].names \in BOOLEAN
  <2>1. Kind(op) \in Serial!Kinds /\ OnRequest[op].names \in BOOLEAN
    BY <1>1, CommandFields
  <2> QED BY <1>1, <1>4, <2>1 DEF Command
<1>6. Told' = Told
  BY <1>1 DEF Told, GenRespond, redisVars
<1>7. Responses' = Responses /\ Store' = Store /\ expiring' = expiring
  BY <1>1, <1>6 DEF Responses, Store, InRedis, stores
<1>8. Serial!Send(Kind(op), k, v, OnRequest[op].names)
  BY <1>1, <1>3, <1>5, <1>7 DEF Serial!Send
<1> QED BY <1>5, <1>8 DEF Serial!Next

\* The effect of a request on redis is that of its command.
LEMMA SerialEffect ==
    ASSUME Types, NEW r \in GoodRequest, redis' = Executed(r),
           expiring' \in Expiring(r), expired' = Expired(r)
    PROVE  Serial!Effect(Command(r))
<1>0. /\ r.key \in Keys /\ r.val \in Cell /\ r.op \in Ops
      /\ r.op \in Writes => r.val > 0
      /\ r.op \in Deletions => r.val < 0
      /\ redis \in [Keys -> Cell]
  BY RequestFields DEF GoodRequest, Types, StoreTypes
<1> PICK c : c = Command(r)
  OBVIOUS
<1>1. /\ c.key = r.key /\ c.kind = Kind(r.op)
      /\ c.val = (IF r.op \in Writes THEN r.val ELSE 0)
  BY CommandFields
<1>2. CASE r.op \in Writes \cup Deletions
  <2>1. /\ redis' = [redis EXCEPT ![r.key] = r.val]
        /\ expired' = expired \ {r.key}
    BY <1>2 DEF Executed, Expired
  <2>2. Contents(r.val) = c.val
    BY <1>0, <1>1, <1>2 DEF Contents, Cell
  <2>3. \A k \in Keys : InRedis(k)' = IF k = r.key THEN r.val ELSE InRedis(k)
    BY <1>0, <2>1 DEF InRedis
  <2>4. Store' = [Store EXCEPT ![r.key] = c.val]
    BY <1>0, <2>2, <2>3 DEF Store
  <2>5. CASE r.op = "hset"
    <3>1. c.kind = "update"
      BY <1>1, <2>5 DEF Kind, Deletions
    <3>2. expiring' = expiring
      BY <2>5 DEF Expiring, Deletions
    <3> QED BY <1>1, <2>4, <3>1, <3>2 DEF Serial!Effect
  <2>6. CASE r.op # "hset"
    <3>1. r.op \in {"set"} \cup Deletions
      BY <1>2, <2>6 DEF Writes
    <3>2. c.kind = "write" /\ expiring' = expiring \ {r.key}
      BY <1>1, <3>1 DEF Kind, Expiring, Deletions
    <3>3. expiring' = IF c.kind = "write" THEN expiring \ {c.key} ELSE expiring
      BY <1>1, <3>2
    <3>4. c.kind \in {"write", "update"} /\ Store' = [Store EXCEPT ![c.key] = c.val]
      BY <1>1, <2>4, <3>2
    <3> QED BY <3>3, <3>4 DEF Serial!Effect
  <2> QED BY <2>5, <2>6
<1>3. CASE r.op \notin Writes \cup Deletions
  <2>1. redis' = redis /\ expired' = expired /\ r.op \in {"get", "gets", "hget", "expire"}
    BY <1>0, <1>3, OnRequestOf DEF Executed, Expired
  <2>2. Store' = Store
    BY <2>1 DEF Store, InRedis
  <2>3. CASE r.op = "expire"
    <3>1. c.kind = "expire"
      BY <1>1, <2>3 DEF Kind, Deletions
    <3>2. \/ expiring' = expiring
          \/ InRedis(r.key) > 0 /\ expiring' = expiring \cup {r.key}
      BY <2>3 DEF Expiring, Deletions
    <3>3. InRedis(r.key) > 0 => Store[r.key] # 0
      BY <1>0 DEF Store, Contents
    <3> QED BY <1>1, <2>2, <3>1, <3>2, <3>3 DEF Serial!Effect
  <2>4. CASE r.op # "expire"
    <3>1. c.kind = "read" /\ expiring' = expiring
      BY <1>1, <2>1, <2>4 DEF Kind, Expiring, Deletions
    <3> QED BY <2>2, <3>1 DEF Serial!Effect
  <2> QED BY <2>3, <2>4
<1> QED BY <1>2, <1>3

\* While the redis thread has a command to run, it is that of the oldest request.
LEMMA CommandFirst ==
    ASSUME Types, Order, redisAt = "command"
    PROVE  Command(redisWork) \in Commands /\ Serial!First(Command(redisWork), Commands)
<1>1. /\ redisWork \in ToRun
      /\ \A r \in ToRun : r \in GoodRequest /\ r.id \in Nat
      /\ \A r \in Elements(requestQueue) : redisWork.id < r.id
  BY ToRunIds
<1>2. \A r \in ToRun : redisWork.id <= r.id
  BY <1>1 DEF ToRun
<1>3. \A r \in ToRun : Command(r).id = r.id
  BY DEF Command
<1> QED BY <1>1, <1>2, <1>3 DEF Commands, Serial!First

\* The request is not to be run again, and its response, if it says whose it is,
\* is one of those to be told.
LEMMA SerialDone ==
    ASSUME Types, Order, RedisCommand,
           NEW v, v = IF redisWork.op \in Writes /\ redisReply' # Error
                      THEN 0 ELSE Contents(redisReply')
    PROVE  Serial!Done(Command(redisWork), v)
<1>0. /\ Types' /\ redisAt = "command" /\ redisWork' = redisWork
      /\ redisWork \in GoodRequest
      /\ IsWrite(redisWork) <=> redisAt' = "copy"
      /\ redisAt' # "pop" /\ redisAt' # "command"
      /\ redisAt' = "query" => redisWork.op = "hget"
      /\ redisAt' = "respond" => redisWork.op \in Answered
      /\ redisAt' = "release" => redisWork.op \notin Answered
      /\ UNCHANGED <<requestQueue, respondQueue, handling, pushed>>
  BY CommandTypes DEF queues, main
<1> PICK w : w = redisWork
  OBVIOUS
<1> PICK c : c = Command(w)
  OBVIOUS
<1>1. /\ c.id = w.id /\ (c.answered <=> w.op \in Named) /\ c.answered \in BOOLEAN
  BY <1>0, CommandFields
<1>2. Commands' = Commands \ {c}
  <2>1. ToRun = Elements(requestQueue) \cup {w} /\ ToRun' = Elements(requestQueue)
    BY <1>0 DEF ToRun
  <2>2. \A r \in Elements(requestQueue) : w.id < r.id /\ r.id \in Nat
    BY <1>0, <2>1, ToRunIds
  <2>3. w.id \in Nat
    BY <1>0, ToRunIds
  <2>4. \A r \in Elements(requestQueue) : Command(r) # c
    <3>1. \A r \in Elements(requestQueue) : Command(r).id = r.id
      BY DEF Command
    <3>2. \A r \in Elements(requestQueue) : r.id # w.id
      BY <2>2, <2>3
    <3> QED BY <1>1, <3>1, <3>2
  <2>5. /\ Commands = {Command(r) : r \in Elements(requestQueue)} \cup {c}
        /\ Commands' = {Command(r) : r \in Elements(requestQueue)}
    BY <2>1 DEF Commands
  <2> QED BY <2>4, <2>5
<1>3. Untold = {}
  BY <1>0 DEF Untold
<1>4. Told = OwedAnswers /\ Told' = OwedAnswers \cup Untold'
  <2>1. OwedAnswers' = OwedAnswers
    BY <1>0 DEF OwedAnswers, Answers
  <2>2. (Types => Told = OwedAnswers \cup Untold)'
    BY ToldAre, PTL
  <2> QED BY <1>0, <1>3, <2>1, <2>2, ToldAre
<1>5. CASE w.op \in Named
  <2>1. redisAt' \in {"copy", "respond"}
    BY <1>0, <1>5 DEF Named, Types, QueueTypes
  <2>2. PICK gen : gen = GenRespond("response", redisReply)'
    OBVIOUS
  <2>3. Untold' = {gen}
    BY <1>0, <1>5, <2>1, <2>2 DEF Untold
  <2>4. gen.op = w.op /\ gen.id = w.id /\ gen.val = redisReply'
    BY <1>0, <2>2 DEF GenRespond
  <2>5. Response(gen) = [id |-> c.id, val |-> v]
    BY <1>1, <2>4 DEF Response
  <2>6. Responses' = Responses \cup {[id |-> c.id, val |-> v]}
    BY <1>4, <2>3, <2>5 DEF Responses
  <2> QED BY <1>0, <1>1, <1>2, <1>5, <2>6 DEF Serial!Done
<1>6. CASE w.op \notin Named
  <2>1. Untold' = {}
    BY <1>0, <1>6 DEF Untold
  <2>2. Responses' = Responses
    BY <1>4, <2>1 DEF Responses
  <2> QED BY <1>0, <1>1, <1>2, <1>6, <2>2 DEF Serial!Done
<1> QED BY <1>5, <1>6

LEMMA SerialCommand == ASSUME Types, Order, RedisCommand PROVE Serial!Next
<1>0. /\ redisAt = "command" /\ redisWork \in GoodRequest /\ redis \in [Keys -> Cell]
      /\ redisWork.key \in Keys
  BY CommandTypes, RequestFields DEF Types, StoreTypes
<1> PICK w : w = redisWork
  OBVIOUS
<1> PICK c : c = Command(w)
  OBVIOUS
<1>1. c \in Commands /\ Serial!First(c, Commands)
  BY <1>0, CommandFirst
<1>2. c.key = w.key /\ c.kind = Kind(w.op)
  BY <1>0, CommandFields
<1>3. CASE /\ redis' = Executed(w) /\ expiring' \in Expiring(w) /\ expired' = Expired(w)
           /\ redisReply' = InRedis(w.key)
  <2>1. Serial!Effect(c)
    BY <1>0, <1>3, SerialEffect
  <2>2. InRedis(w.key) \in Cell /\ redisReply' # Error
    BY <1>0, <1>3, CellFacts, DBAssumption DEF InRedis, Cell, Error
  <2>3. Contents(redisReply') = Store[c.key]
    BY <1>0, <1>2, <1>3 DEF Store
  <2>4. PICK v : v = IF w.op \in Writes /\ redisReply' # Error
                     THEN 0 ELSE Contents(redisReply')
    OBVIOUS
  <2>5. Serial!Done(c, v)
    BY <2>4, SerialDone
  <2>6. CASE w.op \in Writes
    <3>1. v = 0 /\ c.kind # "read"
      BY <1>2, <2>2, <2>4, <2>6 DEF Kind, Writes
    <3>2. Serial!Run(c)
      BY <1>1, <2>1, <2>5, <3>1 DEF Serial!Run
    <3> QED BY <1>1, <3>2 DEF Serial!Next
  <2>7. CASE w.op \notin Writes
    <3>1. CASE c.kind = "read"
      <4>1. v = Store[c.key]
        BY <2>3, <2>4, <2>7
      <4>2. Serial!Run(c)
        BY <1>1, <2>1, <2>5, <3>1, <4>1 DEF Serial!Run
      <4> QED BY <1>1, <4>2 DEF Serial!Next
    <3>2. CASE c.kind # "read"
      <4>1. Serial!Done(c, 0)
        <5>1. w.op \notin Named
          BY <1>2, <2>7, <3>2 DEF Kind, Writes, Deletions, Named, Answered
        <5>2. ~c.answered
          BY <1>0, <5>1, CommandFields
        <5> QED BY <2>5, <5>2 DEF Serial!Done
      <4>2. Serial!Run(c)
        BY <1>1, <2>1, <3>2, <4>1 DEF Serial!Run
      <4> QED BY <1>1, <4>2 DEF Serial!Next
    <3> QED BY <3>1, <3>2
  <2> QED BY <2>6, <2>7
<1>4. CASE redisReply' = Error /\ UNCHANGED <<redis, expiring, expired>>
  <2>1. Contents(Error) = Error
    BY DBAssumption DEF Contents, Error
  <2>2. Serial!Done(c, Error)
    BY <1>4, <2>1, SerialDone
  <2>3. Store' = Store
    BY <1>4 DEF Store, InRedis
  <2>4. Serial!Refuse(c)
    BY <1>1, <1>4, <2>2, <2>3 DEF Serial!Refuse
  <2> QED BY <1>1, <2>4 DEF Serial!Next
<1> QED BY <1>3, <1>4 DEF RedisCommand

LEMMA SerialLose ==
    ASSUME Types, Order, RedisLoseConnection PROVE [Serial!Next]_Serial!vars
<1>0. /\ Types' /\ redisAt = "command" /\ redisWork \in GoodRequest
      /\ UNCHANGED <<queues, redisVars, handling, pushed>>
  BY LoseTypes DEF main
<1> PICK c : c = Command(redisWork)
  OBVIOUS
<1>1. c \in Commands /\ Serial!First(c, Commands)
  BY <1>0, CommandFirst
<1>2. ToRun' = ToRun /\ Told' = Told
  BY <1>0 DEF ToRun, Told, GenRespond, queues, redisVars
<1>3. Commands' = Commands /\ Responses' = Responses
  BY <1>2 DEF Commands, Responses
<1>4. CASE /\ redis' = Executed(redisWork) /\ expiring' \in Expiring(redisWork)
           /\ expired' = Expired(redisWork)
  <2>1. Serial!Effect(c)
    BY <1>0, <1>4, SerialEffect
  <2>2. Serial!RunInVain(c)
    BY <1>0, <1>1, <1>3, <2>1 DEF Serial!RunInVain
  <2> QED BY <1>1, <2>2 DEF Serial!Next
<1>5. CASE UNCHANGED <<redis, expiring, expired>>
  <2>1. Store' = Store
    BY <1>5 DEF Store, InRedis
  <2> QED BY <1>0, <1>3, <1>5, <2>1 DEF Serial!vars
<1> QED BY <1>4, <1>5 DEF RedisLoseConnection

LEMMA SerialExpires ==
    ASSUME Types, NEW k \in Keys, RedisExpires(k) PROVE Serial!Next
<1>0. /\ UNCHANGED <<queues, redisVars, redis, handling, pushed>>
      /\ k \in expiring /\ expiring' = expiring \ {k} /\ expired' = expired \cup {k}
      /\ redis \in [Keys -> Cell] /\ redis[k] > 0
  BY ExpiresTypes DEF RedisExpires, main, Types, StoreTypes
<1>1. ToRun' = ToRun /\ Told' = Told
  BY <1>0 DEF ToRun, Told, GenRespond, queues, redisVars
<1>2. Commands' = Commands /\ Responses' = Responses
  BY <1>1 DEF Commands, Responses
<1>3. Store' = [Store EXCEPT ![k] = 0]
  <2>1. InRedis(k)' = -redis[k] /\ Contents(-redis[k]) = 0
    <3>1. redis[k] \in Int
      BY <1>0 DEF Cell
    <3> QED BY <1>0, <3>1 DEF InRedis, Contents
  <2>2. \A j \in Keys : j # k => InRedis(j)' = InRedis(j)
    BY <1>0 DEF InRedis
  <2> QED BY <2>1, <2>2 DEF Store
<1>4. Serial!Drop(k)
  BY <1>0, <1>2, <1>3 DEF Serial!Drop
<1> QED BY <1>4 DEF Serial!Next

\* Lua has handled a response: the first of those that say whose they are, or
\* one that does not.
LEMMA SerialResponsed ==
    ASSUME Types, Order, Responsed PROVE [Serial!Next]_Serial!vars
<1>0. /\ Types' /\ handling \in Respond /\ handling' = None
      /\ UNCHANGED <<queues, redisVars, stores, pushed>>
  BY ResponsedTypes
<1>1. ToRun' = ToRun /\ Untold' = Untold
  BY <1>0 DEF ToRun, Untold, GenRespond, queues, redisVars
<1>2. Answers = Answers' \cup {handling} /\ \A r \in Answers' : Follows(handling, r)
  BY ResponsedOrder
<1>3. CASE handling.op \notin Named
  <2>1. OwedAnswers' = OwedAnswers
    BY <1>2, <1>3 DEF OwedAnswers
  <2> QED BY <1>0, <1>1, <2>1, SerialStays DEF stores
<1>4. CASE handling.op \in Named
  <2> PICK h : h = Response(handling)
    OBVIOUS
  <2>1. Told = OwedAnswers \cup Untold /\ Told' = OwedAnswers' \cup Untold
    <3>1. (Types => Told = OwedAnswers \cup Untold)'
      BY ToldAre, PTL
    <3> QED BY <1>0, <1>1, <3>1, ToldAre
  <2>2. OwedAnswers = OwedAnswers' \cup {handling}
    BY <1>2, <1>4 DEF OwedAnswers
  <2>3. handling.id \in Nat /\ \A r \in Told' : r.id \in Nat /\ handling.id < r.id
    <3>1. \A r \in OwedAnswers' : r.id \in Nat /\ handling.id < r.id
      <4>1. \A r \in Answers : r.id \in Nat
        BY AnswersAre, RespondFields DEF Id
      <4>2. handling.op # "hget"
        BY <1>4 DEF Named
      <4> QED BY <1>2, <4>1, <4>2 DEF OwedAnswers, Follows
    <3>2. \A r \in Untold : r.id \in Nat /\ handling.id < r.id
      <4> SUFFICES ASSUME redisAt \in {"copy", "respond"}, redisWork.op \in Named,
                          NEW r, r = GenRespond("response", redisReply)
                   PROVE  r.id \in Nat /\ handling.id < r.id
        BY DEF Untold
      <4>1. redisWork \in GoodRequest
        BY DEF Types, QueueTypes
      <4>2. redisWork \in OwedRequests
        BY <4>1, RequestFields DEF OwedRequests
      <4>3. handling.id < redisWork.id /\ redisWork.id \in Nat
        BY <1>2, <4>1, <4>2, OwedLater, RequestFields DEF Id
      <4> QED BY <4>3 DEF GenRespond
    <3>3. handling.id \in Nat
      BY <1>0, RespondFields DEF Id
    <3> QED BY <2>1, <3>1, <3>2, <3>3
  <2>4. Told = Told' \cup {handling}
    BY <2>1, <2>2
  <2>5. Responses = Responses' \cup {h}
    BY <2>4 DEF Responses
  <2>6. \A s \in Responses' : s.id \in Nat /\ h.id < s.id /\ h.id \in Nat
    <3>1. \A r : Response(r).id = r.id
      BY DEF Response
    <3> QED BY <2>3, <3>1 DEF Responses
  <2>7. \A s \in Responses : h.id <= s.id
    <3>1. h.id \in Nat
      BY <2>3 DEF Response
    <3> QED BY <2>5, <2>6, <3>1
  <2>8. Responses' = Responses \ {h}
    <3>1. h \notin Responses'
      BY <2>6
    <3> QED BY <2>5, <3>1
  <2>9. Commands' = Commands /\ Store' = Store
    BY <1>0, <1>1 DEF Commands, Store, InRedis, stores
  <2>10. h \in Responses /\ Serial!First(h, Responses)
    BY <2>5, <2>7 DEF Serial!First
  <2>11. Serial!Deliver(h)
    BY <1>0, <2>8, <2>9, <2>10 DEF Serial!Deliver, stores
  <2> QED BY <2>10, <2>11 DEF Serial!Next
<1> QED BY <1>3, <1>4

\* A process that has pushed and taken nothing.
LEMMA NothingSent ==
    /\ requestQueue = <<>> /\ respondQueue = <<>> /\ redisAt = "pop" /\ handling = None
    => Commands = {} /\ Responses = {}
<1> SUFFICES ASSUME requestQueue = <<>>, respondQueue = <<>>, redisAt = "pop",
                    handling = None
             PROVE  Commands = {} /\ Responses = {}
  OBVIOUS
<1>1. ToRun = {} /\ Told = {}
  BY NoElements DEF ToRun, Told
<1> QED BY <1>1 DEF Commands, Responses

LEMMA SerialDies == ASSUME Types, Dies PROVE Serial!Next
<1>1. /\ requestQueue' = <<>> /\ respondQueue' = <<>> /\ redisAt' = "pop"
      /\ handling' = None /\ pushed' = 0 /\ UNCHANGED stores
  BY RestartsTypes DEF Dies
<1>2. (/\ requestQueue = <<>> /\ respondQueue = <<>> /\ redisAt = "pop" /\ handling = None
       => Commands = {} /\ Responses = {})'
  BY NothingSent, PTL
<1>3. Store' = Store
  BY <1>1 DEF Store, InRedis, stores
<1>4. Serial!Die
  BY <1>1, <1>2, <1>3 DEF Serial!Die, stores
<1> QED BY <1>4 DEF Serial!Next

\* The steps inside the client: a request is taken, a copy or a response of it is
\* pushed, it is released, a response is taken; and what the mysql thread does.
LEMMA SerialInside ==
    ASSUME Types, Order, Types',
           \/ RedisPopRequest \/ PushMysqlRequest \/ RequestMySQLQuery \/ PushRespond
           \/ RedisRelease \/ MysqlPopRequest \/ MysqlQuery \/ PopRespond
    PROVE  UNCHANGED Serial!vars
<1>1. CASE RedisPopRequest
  <2>1. /\ requestQueue \in Seq(GoodRequest) /\ requestQueue # <<>>
        /\ redisWork' = Head(requestQueue) /\ requestQueue' = Tail(requestQueue)
        /\ redisAt' = "command"
    BY <1>1, RedisPopTypes
  <2>2. /\ redisAt = "pop"
        /\ UNCHANGED <<respondQueue, handling, pushed, redis, expired, expiring>>
    BY <1>1 DEF RedisPopRequest, stores, main
  <2>3. Elements(requestQueue) = Elements(requestQueue') \cup {redisWork'}
    BY <2>1, Popped
  <2>4. ToRun' = ToRun
    BY <2>1, <2>2, <2>3 DEF ToRun
  <2>5. OwedAnswers' = OwedAnswers /\ Untold' = {} /\ Untold = {}
    BY <2>1, <2>2 DEF OwedAnswers, Answers, Untold
  <2> QED BY <2>2, <2>4, <2>5, SerialStays
<1>2. CASE PushMysqlRequest
  <2>1. /\ redisAt = "copy" /\ redisWork \in GoodCopy
        /\ redisAt' = IF redisWork.op \in Answered THEN "respond" ELSE "release"
    BY <1>2, PushMysqlTypes
  <2>2. UNCHANGED <<requestQueue, respondQueue, handling, redisWork, redisReply, pushed,
                    redis, expired, expiring>>
    BY <1>2 DEF PushMysqlRequest, stores, main
  <2>3. ToRun' = ToRun /\ OwedAnswers' = OwedAnswers
    BY <2>1, <2>2 DEF ToRun, OwedAnswers, Answers
  <2>4. Untold' = Untold
    <3>1. GenRespond("response", redisReply)' = GenRespond("response", redisReply)
      BY <2>2 DEF GenRespond
    <3> QED BY <2>1, <2>2, <3>1 DEF Untold, Named
  <2> QED BY <2>2, <2>3, <2>4, SerialStays
<1>3. CASE RequestMySQLQuery
  <2>1. /\ redisAt = "query" /\ redisAt' = "respond" /\ redisWork.op = "hget"
        /\ respondQueue \in Seq(Respond)
    BY <1>3, QueryTypes
  <2>2. PICK r \in Respond : /\ r.op = "hget"
                             /\ respondQueue' = Append(respondQueue, r)
    BY <1>3, QueryTypes
  <2>3. UNCHANGED <<requestQueue, handling, redisWork, pushed, redis, expired, expiring>>
    BY <1>3 DEF RequestMySQLQuery, stores, main
  <2>4. Elements(respondQueue') = Elements(respondQueue) \cup {r}
    BY <2>1, <2>2, Pushed
  <2>5. OwedAnswers' = OwedAnswers
    <3>1. Answers' = Answers \cup {r}
      BY <2>3, <2>4 DEF Answers
    <3> QED BY <2>2, <3>1 DEF OwedAnswers, Named
  <2>6. ToRun' = ToRun /\ Untold' = {} /\ Untold = {}
    BY <2>1, <2>3 DEF ToRun, Untold, Named
  <2> QED BY <2>3, <2>5, <2>6, SerialStays
<1>4. CASE PushRespond
  <2>1. /\ redisAt = "respond" /\ redisAt' = "release" /\ redisWork \in GoodRequest
        /\ respondQueue \in Seq(Respond)
    BY <1>4, PushRespondTypes
  <2> PICK gen : gen = GenRespond("response", redisReply)
    OBVIOUS
  <2>2. /\ respondQueue' = Append(respondQueue, gen)
        /\ UNCHANGED <<requestQueue, handling, redisWork, pushed, redis, expired, expiring>>
    BY <1>4 DEF PushRespond, Enqueue, stores, main
  <2>3. gen \in Respond /\ gen.op = redisWork.op
    <3>1. \E r \in Respond : respondQueue' = Append(respondQueue, r)
      BY <1>4, PushRespondTypes
    <3>2. gen \in Respond
      BY <2>1, <2>2, <3>1
    <3> QED BY <3>2 DEF GenRespond
  <2>4. Elements(respondQueue') = Elements(respondQueue) \cup {gen}
    BY <2>1, <2>2, <2>3, Pushed
  <2>5. Answers' = Answers \cup {gen}
    BY <2>2, <2>4 DEF Answers
  <2>6. ToRun' = ToRun /\ Untold' = {}
    BY <2>1, <2>2 DEF ToRun, Untold
  <2>7. Untold = IF gen.op \in Named THEN {gen} ELSE {}
    BY <2>1, <2>3 DEF Untold
  <2>8. OwedAnswers' = OwedAnswers \cup Untold
    BY <2>5, <2>7 DEF OwedAnswers
  <2> QED BY <2>2, <2>6, <2>8, SerialStays
<1>5. CASE RedisRelease
  <2>1. /\ redisAt = "release" /\ redisAt' = "pop"
        /\ UNCHANGED <<queues, handling, pushed, redis, expired, expiring>>
    BY <1>5, ReleaseTypes DEF stores, main
  <2>2. ToRun' = ToRun /\ OwedAnswers' = OwedAnswers /\ Untold' = {} /\ Untold = {}
    BY <2>1 DEF ToRun, OwedAnswers, Answers, Untold, queues
  <2> QED BY <2>1, <2>2, SerialStays
<1>6. CASE MysqlPopRequest \/ MysqlQuery
  <2>1. UNCHANGED <<requestQueue, respondQueue, redisVars, handling, pushed, redis,
                    expired, expiring>>
    BY <1>6, MysqlPopTypes, MysqlQueryTypes DEF queues, stores, main
  <2>2. ToRun' = ToRun /\ OwedAnswers' = OwedAnswers
    BY <2>1 DEF ToRun, OwedAnswers, Answers, redisVars
  <2>3. Untold' = Untold
    BY <2>1 DEF Untold, GenRespond, redisVars
  <2> QED BY <2>1, <2>2, <2>3, SerialStays
<1>7. CASE PopRespond
  <2>1. UNCHANGED <<requestQueue, redisVars, stores, pushed>>
    BY <1>7, PopRespondTypes
  <2>2. Answers' = Answers
    BY <1>7, PopRespondOrder
  <2>3. ToRun' = ToRun /\ OwedAnswers' = OwedAnswers
    BY <2>1, <2>2 DEF ToRun, OwedAnswers, redisVars
  <2>4. Untold' = Untold
    BY <2>1 DEF Untold, GenRespond, redisVars
  <2> QED BY <2>1, <2>3, <2>4, SerialStays DEF stores
<1> QED BY <1>1, <1>2, <1>3, <1>4, <1>5, <1>6, <1>7

LEMMA StepSerial ==
    ASSUME Types, Order, [Next]_vars PROVE [Serial!Next]_Serial!vars
<1>1. Types'
  BY StepTypes
<1>2. CASE UNCHANGED vars
  <2>1. ToRun' = ToRun /\ Told' = Told
    BY <1>2 DEF ToRun, Told, GenRespond, vars, queues, redisVars, main
  <2>2. Commands' = Commands /\ Responses' = Responses /\ Store' = Store
    BY <1>2, <2>1 DEF Commands, Responses, Store, InRedis, vars, stores
  <2> QED BY <1>2, <2>2 DEF Serial!vars, vars, stores, main
<1>3. CASE Next
  BY <1>1, <1>3, Steps, SerialPush, SerialCommand, SerialLose, SerialExpires,
     SerialResponsed, SerialDies, SerialInside
<1> QED BY <1>2, <1>3

\* The requests Lua makes take effect in redis one at a time in the order they
\* were made, and the responses that say whose they are come in that order, each
\* with what its request found when it took effect: the three threads, their three
\* queues, lost connections and crashes make the database client no more than a
\* SerialDatabase.
THEOREM DatabaseIsSerial == Spec => ImplementsSerialDatabase
<1>1. Init => Serial!Init
  <2> SUFFICES ASSUME Init PROVE Serial!Init
    OBVIOUS
  <2>1. /\ requestQueue = <<>> /\ respondQueue = <<>> /\ redisAt = "pop"
        /\ handling = None /\ pushed = 0 /\ expiring = {} /\ expired = {}
        /\ redis = [k \in Keys |-> 0]
    BY DEF Init, RedisInit
  <2>2. Store = [k \in Keys |-> 0]
    BY <2>1 DEF Store, InRedis, Contents
  <2> QED BY <2>1, <2>2, NothingSent DEF Serial!Init
<1>2. Inv /\ [Next]_vars => [Serial!Next]_Serial!vars
  BY StepSerial DEF Inv
<1> QED BY <1>1, <1>2, InvAlways, PTL DEF Spec, Serial!Spec, ImplementsSerialDatabase
=============================================================================
