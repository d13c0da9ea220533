------------------------------ MODULE DBProxy ------------------------------
(***************************************************************************)
(* The database client of a logic or login server (db_proxy/).  The main   *)
(* thread pushes requests on the redis client's request queue and, on a    *)
(* 100 ms timer, hands the responses to Lua.  The redis thread runs the    *)
(* requests one at a time, pushes a copy of every write on the mysql       *)
(* client's queue and responses on its own response queue; the mysql       *)
(* thread runs the copies.  An HGET that finds nothing in redis asks       *)
(* mysql, on the redis thread.  Each queue is accessed under its client's  *)
(* mutex, buffers are reference counted with atomic increments.            *)
(*                                                                         *)
(* Contents are abstracted to numbers: n > 0 is what write number n wrote, *)
(* -n is absent since deletion n, 0 is never written.  The two databases   *)
(* are external and survive the process.                                   *)
(***************************************************************************)
EXTENDS Integers, Sequences, FiniteSets

CONSTANTS
    Keys,
    Hashed,       \* the keys that are fields of a redis hash
    Tabled,       \* the keys whose mysql table exists
    Ops,          \* the requests that are pushed: Lua has no HGET, HDEL, EXPIRE
    None,
    MaxRequests,  \* bound: requests pushed by one process
    MaxWrites,    \* bound: writes and deletions
    MaxLosses,    \* bound: lost connections to redis
    MaxCrashes    \* bound: crashes

ASSUME DBAssumption ==
    /\ Hashed \subseteq Keys /\ Tabled \subseteq Keys
    /\ Ops \subseteq {"set", "get", "gets", "hset", "hget", "del", "hdel", "expire"}
    /\ MaxRequests \in Nat /\ MaxWrites \in Nat
    /\ MaxLosses \in Nat /\ MaxCrashes \in Nat

VARIABLES
    requestQueue,  \* the redis client's m_RequestQueue
    respondQueue,  \* the redis client's m_RespondQueue
    copyQueue,     \* the mysql client's m_RequestQueue
    redisAt,       \* where the redis thread is
    redisWork,     \* the request it works on
    redisReply,    \* what the command read
    mysqlWork,     \* the copy the mysql thread works on
    handling,      \* the response the main thread hands to Lua
    redis, mysql,  \* the databases
    expiring,      \* the keys of redis with a time to live
    expired,       \* those redis has dropped
    refs,          \* m_lRefCount of each buffer, 0 when there is none
    pushed,        \* requests pushed by this process
    awaited,       \* those whose response has not been handed to Lua
    writes,        \* writes and deletions pushed so far
    last,          \* the last one pushed for each key, at first what redis has
    losses, crashes,
    refused,       \* history: writes whose last attempt did not write their key
    missed         \* history: writes that never reach mysql

queues    == <<requestQueue, respondQueue, copyQueue>>
redisVars == <<redisAt, redisWork, redisReply>>
stores    == <<redis, expiring, expired, mysql>>
main      == <<pushed, awaited, writes, last, handling>>
faults    == <<losses, crashes, refused, missed>>
vars      == <<queues, redisVars, mysqlWork, stores, refs, main, faults>>

Id == 1..MaxRequests

\* A reply of type REDIS_REPLY_ERROR, one to another command, or the outcome
\* of two threads using one MYSQL: no contents of the databases.
Error == MaxWrites + 1

Cell == (-MaxWrites)..MaxWrites

Number(c) == IF c < 0 THEN -c ELSE c

\* What a reader sees of a cell.
Contents(c) == IF c > 0 THEN c ELSE 0

\* The buffers: a request, the copy made of it for mysql, its response, and the
\* response made of mysql's answer.
Buffers == {"request", "copy", "response", "mysql"} \X Id

Writes    == {"set", "hset"}
Deletions == {"del", "hdel"}
Fields    == {"hset", "hget", "hdel"}

\* The buffers db_buffer.cpp creates.
Request == [op : Ops, key : Keys, val : Cell, id : Id]
Respond == [op : Ops, from : {"response", "mysql"}, val : Cell \cup {Error},
            want : Cell, id : Id]

\* NULL is no buffer.
ASSUME NoneAssumption == None \notin Request \cup Respond

\* Whether a key is one of the kind a request is for; EXPIRE takes both.
For(op, k) == op = "expire" \/ (op \in Fields <=> k \in Hashed)
-----------------------------------------------------------------------------
\* What the handlers of the redis thread do besides their command: push a copy
\* for mysql, push a response made of the reply, set its user, event and sequence
\* id (DB_SetCommonHead), release it.  OnRequestHGet does not set those of the
\* response made of redis's reply, which every HGET has; it sets them in the
\* answer it takes from mysql (RequestMySQLQuery), which only some have and none
\* is told to wait for.
OnRequestSet    == [copies |-> TRUE,  answers |-> TRUE,  names |-> TRUE,  frees |-> TRUE]
OnRequestGet    == [copies |-> FALSE, answers |-> TRUE,  names |-> TRUE,  frees |-> TRUE]
OnRequestGets   == [copies |-> FALSE, answers |-> TRUE,  names |-> TRUE,  frees |-> FALSE]
OnRequestExpire == [copies |-> FALSE, answers |-> FALSE, names |-> FALSE, frees |-> FALSE]
OnRequestHSet   == [copies |-> TRUE,  answers |-> TRUE,  names |-> TRUE,  frees |-> TRUE]
OnRequestHGet   == [copies |-> FALSE, answers |-> TRUE,  names |-> FALSE, frees |-> TRUE]
OnRequestDel    == [copies |-> TRUE,  answers |-> FALSE, names |-> FALSE, frees |-> FALSE]
\* Mutant of OnRequestHDel: nothing for mysql.
OnRequestHDelOnly == [copies |-> FALSE, answers |-> FALSE, names |-> FALSE, frees |-> FALSE]
OnRequestHDel   == [copies |-> TRUE,  answers |-> FALSE, names |-> FALSE, frees |-> FALSE]

OnRequest ==
    [set  |-> OnRequestSet,  get  |-> OnRequestGet,  gets |-> OnRequestGets,
     hset |-> OnRequestHSet, hget |-> OnRequestHGet, del  |-> OnRequestDel,
     hdel |-> OnRequestHDel, expire |-> OnRequestExpire]

\* The redis client as it is constructed and connected, and the mysql client.
RedisInit ==
    /\ requestQueue = <<>> /\ respondQueue = <<>>
    /\ redisAt = "pop" /\ redisWork = None /\ redisReply = 0

MysqlInit == copyQueue = <<>> /\ mysqlWork = None

\* (The process exits when it cannot connect to both.)
Init ==
    /\ redis = [k \in Keys |-> 0] /\ mysql = [k \in Keys |-> 0]
    /\ expiring = {} /\ expired = {}
    /\ RedisInit
    /\ MysqlInit
    /\ handling = None
    /\ refs = [b \in Buffers |-> 0]
    /\ pushed = 0 /\ awaited = {}
    /\ writes = 0 /\ last = [k \in Keys |-> 0]
    /\ losses = 0 /\ crashes = 0 /\ refused = {} /\ missed = {}

\* Mutant of Enqueue: push_front.
EnqueueFront(q, x) == <<x>> \o q

\* PushRequest and PushRespond: push_back under the mutex.
Enqueue(q, x) == Append(q, x)

\* Mutant of CreatedAndPushed: no AddRef.
CreatedOnly(kind, i) == [refs EXCEPT ![<<kind, i>>] = 1]

\* A buffer pushed on a queue has the reference of its creator and the queue's.
CreatedAndPushed(kind, i) == [refs EXCEPT ![<<kind, i>>] = 2]

\* KG_Buffer::Release of each: the last one frees.
Released(bs) == [b \in Buffers |-> IF b \in bs THEN refs[b] - 1 ELSE refs[b]]

\* CRedis.PushRedisSet and the like.  A read remembers what the last write
\* pushed before it was, for comparison.
PushRedisRequest(op, k) ==
    LET number == writes + 1
        val == CASE op \in Writes    -> number
                 [] op \in Deletions -> -number
                 [] OTHER            -> last[k]
        i   == pushed + 1
    IN  /\ For(op, k)
        /\ pushed < MaxRequests
        /\ op \in Writes \cup Deletions => writes < MaxWrites
        /\ requestQueue' =
             Enqueue(requestQueue, [op |-> op, key |-> k, val |-> val, id |-> i])
        /\ refs' = CreatedAndPushed("request", i)
        /\ pushed' = i
        /\ awaited' = IF OnRequest[op].names THEN awaited \cup {i} ELSE awaited
        /\ last' = [last EXCEPT ![k] = val]
        /\ writes' = IF op \in Writes \cup Deletions THEN number ELSE writes
        /\ UNCHANGED <<respondQueue, copyQueue, redisVars, mysqlWork, stores,
                       handling, faults>>
-----------------------------------------------------------------------------
RedisPopRequest ==
    /\ redisAt = "pop"
    /\ requestQueue # <<>>
    /\ redisWork' = Head(requestQueue)
    /\ requestQueue' = Tail(requestQueue)
    /\ redisAt' = "command"
    /\ UNCHANGED <<respondQueue, copyQueue, redisReply, mysqlWork, stores,
                   refs, main, faults>>

\* What redis answers for a key.
InRedis(k) == IF k \in expired THEN -redis[k] ELSE redis[k]

\* Redis after a command, and the keys that have a time to live: HSET keeps it.
\* EXPIRE formats its key, which is not terminated, with %s: it may name another.
Executed(r) ==
    IF r.op \in Writes \cup Deletions THEN [redis EXCEPT ![r.key] = r.val] ELSE redis

Expiring(r) ==
    CASE r.op \in {"set"} \cup Deletions         -> {expiring \ {r.key}}
      [] r.op = "expire" /\ InRedis(r.key) > 0 -> {expiring, expiring \cup {r.key}}
      [] OTHER                                   -> {expiring}

Expired(r) == IF r.op \in Writes \cup Deletions THEN expired \ {r.key} ELSE expired

AfterCopy(r) == IF OnRequest[r.op].answers THEN "respond" ELSE "release"

\* An HGET that finds nothing asks mysql: bAllowRedisNil is false.
AfterCommand(r, reply) ==
    IF OnRequest[r.op].copies THEN "copy"
    ELSE IF r.op = "hget" /\ reply <= 0 THEN "query" ELSE AfterCopy(r)

\* RedisCommand gets a reply.  Either the command did what was asked ...
RedisCommand ==
    /\ redisAt = "command"
    /\ LET r == redisWork
       IN  \/ /\ redis' = Executed(r)
              /\ expiring' \in Expiring(r)
              /\ expired' = Expired(r)
              /\ redisReply' = InRedis(r.key)
              /\ UNCHANGED refused
           \* ... or redis answers with an error; or, in a retry of a command
           \* with arguments, redisvCommand read past the va_list the first
           \* attempt had used up, and addressed something else.
           \/ /\ redisReply' = Error
              /\ refused' = IF r.op \in Writes \cup Deletions
                            THEN refused \cup {Number(r.val)} ELSE refused
              /\ UNCHANGED <<redis, expiring, expired>>
    /\ redisAt' = AfterCommand(redisWork, redisReply')
    /\ UNCHANGED <<queues, redisWork, mysqlWork, mysql, refs, main,
                   losses, crashes, missed>>

\* Mutant of RedisLoseConnection: the request is queued again, behind the others.
RequeueOnLoss ==
    /\ redisAt = "command"
    /\ losses < MaxLosses
    /\ losses' = losses + 1
    /\ requestQueue' = Append(requestQueue, redisWork)
    /\ redisAt' = "pop" /\ redisWork' = None
    /\ UNCHANGED <<respondQueue, copyQueue, redisReply, mysqlWork, stores, refs,
                   main, crashes, refused, missed>>

\* The connection is lost before or after redis ran the command: Reconnect, and
\* the command is sent again.  (When Reconnect fails it leaves a NULL context
\* behind and reports success: the next command is a Crash.)
RedisLoseConnection ==
    /\ redisAt = "command"
    /\ losses < MaxLosses
    /\ losses' = losses + 1
    /\ \/ /\ redis' = Executed(redisWork)
          /\ expiring' \in Expiring(redisWork)
          /\ expired' = Expired(redisWork)
       \/ UNCHANGED <<redis, expiring, expired>>
    /\ UNCHANGED <<queues, redisVars, mysqlWork, mysql, refs, main,
                   crashes, refused, missed>>

\* Redis drops a key whose time is over.
RedisExpires(k) ==
    /\ k \in expiring
    /\ expiring' = expiring \ {k}
    /\ expired' = expired \cup {k}
    /\ UNCHANGED <<queues, redisVars, mysqlWork, redis, mysql, refs, main, faults>>

\* Mutant of PushMysqlRequest: no copy while the mysql thread is busy.
PushMysqlIfFree ==
    /\ redisAt = "copy"
    /\ IF mysqlWork = None
       THEN /\ copyQueue' = Append(copyQueue, redisWork)
            /\ refs' = CreatedAndPushed("copy", redisWork.id)
       ELSE UNCHANGED <<copyQueue, refs>>
    /\ redisAt' = AfterCopy(redisWork)
    /\ UNCHANGED <<requestQueue, respondQueue, redisWork, redisReply, mysqlWork,
                   stores, main, faults>>

\* A copy of the request for mysql, whatever the reply said.
PushMysqlRequest ==
    /\ redisAt = "copy"
    /\ copyQueue' = Enqueue(copyQueue, redisWork)
    /\ refs' = CreatedAndPushed("copy", redisWork.id)
    /\ redisAt' = AfterCopy(redisWork)
    /\ UNCHANGED <<requestQueue, respondQueue, redisWork, redisReply, mysqlWork,
                   stores, main, faults>>

\* The response records GenCommonRespond and _GenMultiDataNetRespond build from
\* the reply, the latter with length -1 for a missing value.
GenRespond(from, v) ==
    [op |-> redisWork.op, from |-> from, val |-> v, want |-> redisWork.val,
     id |-> redisWork.id]

PushRespond ==
    /\ redisAt = "respond"
    /\ respondQueue' = Enqueue(respondQueue, GenRespond("response", redisReply))
    /\ refs' = CreatedAndPushed("response", redisWork.id)
    /\ redisAt' = "release"
    /\ UNCHANGED <<requestQueue, copyQueue, redisWork, redisReply, mysqlWork,
                   stores, main, faults>>

\* Mutant of Dropped: the redis thread also releases the copy.
DroppedWithCopy(r) == {"request", "copy", "response"} \X {r.id}

\* What the redis thread releases when a request is done: the response, where
\* the handler does so, and, in DBThreadActivate, the request.
Dropped(r) == {<<"request", r.id>>} \cup
              (IF OnRequest[r.op].frees THEN {<<"response", r.id>>} ELSE {})

RedisRelease ==
    /\ redisAt = "release"
    /\ refs' = Released(Dropped(redisWork))
    /\ redisAt' = "pop"
    /\ redisWork' = None
    /\ redisReply' = 0
    /\ UNCHANGED <<queues, mysqlWork, stores, main, faults>>
-----------------------------------------------------------------------------
\* The answers of CheckRedisHastTableIsExist: a query that fails says no.
TableIsExist(k) == IF k \in Tabled THEN {TRUE, FALSE} ELSE {FALSE}

\* _DoQuery: it may fail, and no caller looks at the result.  (A server that
\* eleven pings cannot reach ends the process: a Crash.)
DoQuery(before, after) == {before, after}

RedisHashTableGet(k) == Contents(mysql[k])

\* What a query finds: nothing without the table.
RedisHashTableGetTest(k) ==
    {IF exists THEN RedisHashTableGet(k) ELSE 0 : exists \in TableIsExist(k)}

\* The answer of mysql as a response.  The redis thread fetches it on the MYSQL
\* and in the buffer the mysql thread may be using for a copy.  (When there is
\* no result it is NULL, which is dereferenced: a Crash.)
GenGetNetRespond(k) ==
    {GenRespond("mysql", v) : v \in RedisHashTableGetTest(k)
                                    \cup (IF mysqlWork = None THEN {} ELSE {Error})}

\* The redis thread itself runs the query of an HGET.
RequestMySQLQuery ==
    /\ redisAt = "query"
    /\ \E answer \in GenGetNetRespond(redisWork.key) :
         respondQueue' = Enqueue(respondQueue, answer)
    /\ refs' = CreatedAndPushed("mysql", redisWork.id)
    /\ redisAt' = "respond"
    /\ UNCHANGED <<requestQueue, copyQueue, redisWork, redisReply, mysqlWork,
                   stores, main, faults>>

MysqlPopRequest ==
    /\ mysqlWork = None
    /\ copyQueue # <<>>
    /\ mysqlWork' = Head(copyQueue)
    /\ copyQueue' = Tail(copyQueue)
    /\ UNCHANGED <<requestQueue, respondQueue, redisVars, stores, refs, main,
                   faults>>

\* What the statements leave in mysql.  Without the table _RedisHashTableSet
\* tries for ever, and there is nothing to delete.
RedisHashTableSet(k, v) == IF k \in Tabled THEN DoQuery(mysql[k], v) ELSE {}

RedisHashTableDel(k, v) == DoQuery(mysql[k], v)

RedisHashTableDelTest(k, v) ==
    UNION {IF exists THEN RedisHashTableDel(k, v) ELSE {mysql[k]} :
             exists \in TableIsExist(k)}

\* KMysqlClient::OnRequest for a copy.
MysqlOnRequest(w) ==
    IF w.op \in Writes THEN RedisHashTableSet(w.key, w.val)
                       ELSE RedisHashTableDelTest(w.key, w.val)

MysqlQuery ==
    /\ mysqlWork # None
    /\ \E c \in MysqlOnRequest(mysqlWork) :
         /\ mysql' = [mysql EXCEPT ![mysqlWork.key] = c]
         /\ missed' = IF c = mysqlWork.val THEN missed
                      ELSE missed \cup {Number(mysqlWork.val)}
    /\ refs' = Released({<<"copy", mysqlWork.id>>})
    /\ mysqlWork' = None
    /\ UNCHANGED <<queues, redisVars, redis, expiring, expired, main, losses,
                   crashes, refused>>
-----------------------------------------------------------------------------
\* Mutant of PopRespond: leaves the last response in the queue.
PopRespondButOne ==
    /\ handling = None
    /\ Len(respondQueue) > 1
    /\ handling' = Head(respondQueue)
    /\ respondQueue' = Tail(respondQueue)
    /\ UNCHANGED <<requestQueue, copyQueue, redisVars, mysqlWork, stores,
                   refs, pushed, awaited, writes, last, faults>>

\* KDBClient::Activate, from the timer.
PopRespond ==
    /\ handling = None
    /\ respondQueue # <<>>
    /\ handling' = Head(respondQueue)
    /\ respondQueue' = Tail(respondQueue)
    /\ UNCHANGED <<requestQueue, copyQueue, redisVars, mysqlWork, stores,
                   refs, pushed, awaited, writes, last, faults>>

\* A process dies with the requests it works on or has queued for mysql.
Unfinished == (IF redisAt \in {"command", "copy"} THEN {redisWork} ELSE {}) \cup
              (IF mysqlWork = None THEN {} ELSE {mysqlWork}) \cup
              {copyQueue[i] : i \in DOMAIN copyQueue}

Restarts ==
    /\ missed' = missed \cup {Number(r.val) : r \in
                   {w \in Unfinished : w.op \in Writes \cup Deletions}}
    /\ requestQueue' = <<>> /\ respondQueue' = <<>> /\ copyQueue' = <<>>
    /\ redisAt' = "pop" /\ redisWork' = None /\ redisReply' = 0
    /\ mysqlWork' = None /\ handling' = None
    /\ refs' = [b \in Buffers |-> 0]
    /\ pushed' = 0 /\ awaited' = {}
    /\ last' = redis
    /\ UNCHANGED <<stores, writes, losses, refused>>

\* RedisCallLua for several values pushes each with lua_pushlstring: the length
\* -1 of a missing one is the largest size_t, and the process dies of it.
Missing(r) == r.op = "gets" /\ r.val <= 0

RespondedMissing ==
    /\ handling # None
    /\ Missing(handling)
    /\ Restarts
    /\ UNCHANGED crashes

\* OnResponsed has called Lua, and Activate releases the response.  (A response
\* from mysql has no type byte: Lua may not be called.)
Responsed ==
    /\ handling # None
    /\ ~Missing(handling)
    /\ awaited' = awaited \ {handling.id}
    /\ refs' = Released({<<handling.from, handling.id>>})
    /\ handling' = None
    /\ UNCHANGED <<queues, redisVars, mysqlWork, stores, pushed, writes, last,
                   faults>>

\* The process dies (exit(0) when mysql cannot be reached, a NULL context, any
\* signal) and is started again.
Crash ==
    /\ crashes < MaxCrashes
    /\ crashes' = crashes + 1
    /\ Restarts

RedisThread == \/ RedisPopRequest
               \/ RedisCommand
               \/ RedisLoseConnection
               \/ PushMysqlRequest
               \/ RequestMySQLQuery
               \/ PushRespond
               \/ RedisRelease
MysqlThread == MysqlPopRequest \/ MysqlQuery
Activate    == PopRespond \/ Responsed \/ RespondedMissing

Next == \/ \E op \in Ops, k \in Keys : PushRedisRequest(op, k)
        \/ RedisThread
        \/ MysqlThread
        \/ Activate
        \/ \E k \in Keys : RedisExpires(k)
        \/ Crash

Spec == Init /\ [][Next]_vars

\* Both threads wake up every 5 ms and the timer fires every 100 ms.
Fairness == WF_vars(RedisThread) /\ WF_vars(MysqlThread) /\ WF_vars(Activate)
FairSpec == Spec /\ Fairness
-----------------------------------------------------------------------------
TypeOK ==
    /\ requestQueue \in Seq(Request)
    /\ respondQueue \in Seq(Respond)
    /\ copyQueue \in Seq(Request)
    /\ redisAt \in {"pop", "command", "copy", "query", "respond", "release"}
    /\ redisWork \in Request \cup {None}
    /\ redisAt = "pop" <=> redisWork = None
    /\ redisReply \in Cell \cup {Error}
    /\ mysqlWork \in Request \cup {None}
    /\ handling \in Respond \cup {None}
    /\ redis \in [Keys -> Cell]
    /\ mysql \in [Keys -> Cell]
    /\ expiring \subseteq Keys
    /\ expired \subseteq Keys \ expiring
    /\ refs \in [Buffers -> 0..2]
    /\ pushed \in 0..MaxRequests
    /\ awaited \subseteq 1..pushed
    /\ writes \in 0..MaxWrites
    /\ last \in [Keys -> Cell]
    /\ losses \in 0..MaxLosses
    /\ crashes \in 0..MaxCrashes
    /\ refused \subseteq 1..MaxWrites
    /\ missed \subseteq 1..MaxWrites

\* The threads and queues that will still use a buffer.
Holders(b) ==
    LET i == b[2]
        queued(q) == Cardinality({j \in DOMAIN q : q[j].id = i})
        works(w)  == IF w = None THEN 0 ELSE IF w.id = i THEN 1 ELSE 0
        answers   == {j \in DOMAIN respondQueue : /\ respondQueue[j].id = i
                                                  /\ respondQueue[j].from = b[1]}
    IN  CASE b[1] = "request" -> queued(requestQueue) + works(redisWork)
          [] b[1] = "copy"    -> queued(copyQueue) + works(mysqlWork)
          [] OTHER ->
               Cardinality(answers)
               + (IF handling # None /\ handling.from = b[1] THEN works(handling) ELSE 0)
               + (IF redisAt = "release" /\ b \in Dropped(redisWork)
                  THEN works(redisWork) ELSE 0)

\* No thread uses a buffer that has been freed, whichever of the redis and the
\* main thread releases a response last (KG_Buffer::Release frees at zero).
NoUseAfterFree == \A b \in Buffers : refs[b] >= Holders(b)

\* Responses reach Lua in the order of the requests, none twice and none
\* missing; AsyncManager's callers and OnRedisRespone rely on it.  DEL, HDEL and
\* EXPIRE have no response, and redis's own to an HGET does not say whose it is.
AnswersInOrder ==
    LET names(r)  == r # None /\ OnRequest[r.op].names
        before(j) == {respondQueue[m].id :
                        m \in {x \in 1..(j - 1) : names(respondQueue[x])}}
                     \cup {r.id : r \in {h \in {handling} : names(h)}}
    IN  /\ names(handling) => /\ handling.id \in awaited
                              /\ \A i \in awaited : i >= handling.id
        /\ \A j \in DOMAIN respondQueue : names(respondQueue[j]) =>
             /\ respondQueue[j].id \in awaited
             /\ {i \in awaited : i < respondQueue[j].id} = before(j)

\* A read returns what the last write pushed before it wrote, though the write
\* may still have been queued when the read was pushed, or have been run twice,
\* unless redis refused it or has dropped it since.
ReadsLastWrite ==
    \A j \in DOMAIN respondQueue :
      LET r == respondQueue[j]
      IN  r.op \in {"get", "gets", "hget"} /\ r.from = "response" =>
            \/ r.val \in {r.want, Error}
            \/ r.want > 0 /\ r.val = -r.want
            \/ Number(r.want) \in refused

\* What an HGET reads from mysql is what the last HSET or HDEL pushed before it
\* left, unless the copy of that write is still under way, mysql missed it or
\* redis refused it (or it is a value that redis refused and mysql has); what
\* has been deleted comes back in no other case.
FallbackReadsLastWrite ==
    [][redisAt = "query" /\ redisAt' = "respond" =>
         LET r == respondQueue'[Len(respondQueue')]
             n == Number(r.want)
             pending == {w.val : w \in Unfinished}
         IN  r.val \in {0, Error, r.want} \cup refused \/ n \in refused \cup missed
             \/ {n, -n} \cap pending # {}]_vars

\* When nothing is under way the two databases agree on every key (whose value
\* redis may have dropped), up to the writes redis refused and those that never
\* reached mysql.
StoresAgreeWhenIdle ==
    (/\ requestQueue = <<>> /\ redisWork = None
     /\ copyQueue = <<>> /\ mysqlWork = None) =>
      \A k \in Keys : \/ Contents(mysql[k]) = Contents(redis[k])
                      \/ Number(mysql[k]) \in refused
                      \/ Number(redis[k]) \in missed

\* Mysql never goes back to an older value of a key: not by a retry, not by a
\* copy of an earlier process.
MysqlNeverGoesBack == [][\A k \in Keys : Number(mysql'[k]) >= Number(mysql[k])]_mysql

\* Every request that has a response is answered, unless the process dies (and
\* the next one starts with no request pushed).
EveryRequestAnswered == \A i \in Id : (i \in awaited) ~> (i \notin awaited)

\* db_client.cpp:192, "release the memory made for the DB request": when the
\* redis thread is done with a request, its buffer is freed.
RequestsFreed ==
    \A i \in Id : refs[<<"request", i>>] > 0 =>
      \/ \E j \in DOMAIN requestQueue : requestQueue[j].id = i
      \/ redisWork # None /\ redisWork.id = i
-----------------------------------------------------------------------------
(* Whatever the threads do and the connection loses, the database client is *)
(* one that runs its commands in order.                                     *)

\* What is in a queue.
Elements(q) == {q[j] : j \in DOMAIN q}

Kind(op) == CASE op \in {"set"} \cup Deletions -> "write"
              [] op = "hset"                    -> "update"
              [] op = "expire"                  -> "expire"
              [] OTHER                          -> "read"

Command(r) ==
    [id |-> r.id, kind |-> Kind(r.op), key |-> r.key,
     val |-> IF r.op \in Writes THEN r.val ELSE 0, answered |-> OnRequest[r.op].names]

Response(r) ==
    [id |-> r.id, val |-> IF r.op \in Writes /\ r.val # Error THEN 0 ELSE Contents(r.val)]

\* The requests the redis thread has not run, and the named responses of those
\* it has: the one it will push, those in the queue, the one Lua handles.
ToRun == Elements(requestQueue) \cup {r \in {redisWork} : redisAt = "command"}

Told ==
    {r \in Elements(respondQueue) \cup {r \in {handling} : r # None}
           \cup (IF redisAt \in {"copy", "respond"}
                 THEN {GenRespond("response", redisReply)} ELSE {}) :
       OnRequest[r.op].names}

Commands  == {Command(r) : r \in ToRun}
Responses == {Response(r) : r \in Told}
Store     == [k \in Keys |-> Contents(InRedis(k))]

Serial == INSTANCE SerialDatabase
          WITH Values <- 0..MaxWrites, Rejected <- Error, sent <- pushed,
               commands <- Commands, responses <- Responses, store <- Store,
               mortal <- expiring

\* Requests take effect in redis one at a time in the order Lua made them, and
\* the responses that say whose they are come in that order, each with what
\* its request found, though commands are sent again and the process may die.
ImplementsSerialDatabase == Serial!Spec
=============================================================================
