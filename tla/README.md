# A verification project for 1st_framework

1st_framework is a game server: a C++ network layer on libuv and a database
client with threads of its own, and game logic in Lua 5.1. This directory holds
TLA+ specifications of its parts, TLC configurations that check them on small
instances, and proofs, checked by the TLA+ proof system, of theorems that hold
for every value of the constants. Paths below are relative to the repository.

To check a run, parse a module or check proofs:

    tlc -config MCSession.cfg Session
    tlc -config MCNetwork.cfg Network
    tlapm SessionProofs.tla

`PROJECT.json` lists every run, which lines each definition models, a mutant for
every property (a plausible bug that makes the run fail), the hazards of the code
and the theorems.

## 1. The system

    client <-> gateway <-> login server  --+
                       <-> logic server  --+-- center server
                       <-> room server   --+
                              |
               redis thread, mysql thread (in each server process)

Each process has one main thread, which runs the libuv loop and, in the servers,
the Lua VM. Nothing preempts a Lua handler: the interleavings are those of
callbacks, of round trips through the database threads, of processes, and of the
two database threads with the main one.

### Inventory

| Component | State | Operations | Talks to |
|---|---|---|---|
| packet framing: `common/knetpacket.cpp`, `_ProcessNetData` of `tcp/*` | per package: bytes assembled, announced length; per connection: unread bytes | `Write`, `IsValid`, `GetData`, `Reset`, the read loop | libuv read callbacks, whatever receives packets |
| gateway: `tcp/gateway_server.cpp`, `gateway_client.cpp`, `tcp_base_server.cpp`, `tcp_session.cpp` | sessions by id, three upstream connections | accept, forward up by server type, forward down by session id, close and send USER_DISCONNECT | clients, login, logic and room servers |
| logic server core: `script/module/protocol.lua`, `logic_protocol.lua`, `script/manager/*` | user-connection maps, queue of requests per connection, round trips, cached users and their dirty marks | ENTER_GAME, USER_DISCONNECT, any registered event, redis responses, `Commit` | gateway, database client, game modules |
| database client: `db_proxy/*`, `vm/lua_redis.cpp` | a request and a response queue per client, reference counts, connections | push SET, GET, MGET, HSET, HGET, DEL, HDEL, EXPIRE; pop, run, respond, copy to mysql; reconnect; activate | Lua, redis, mysql |
| login server: `script/module/login_protocol.lua`, `user_manager.lua`, `global_config_manager.lua` | global user id, cached users, connection of each user; in redis: counter, devices, game data | LOGIN_DIRECT, registration, login, loading of the counter | gateway, redis, center |
| center server: `tcp/center_server.cpp`, `center_client.cpp`, `script/center_logic` | connections by id and by server type | registration, routing of a server's request | all servers |
| room server: `script/room_logic` | rooms, tables, seats, stages, scores, players' copies | enter, sit, ready, rob, bet, open, settle, leave | gateway, logic server through center |
| Lua timer: `script/common/timer.lua` | slots of a wheel, index, start time | add, remove, update | rooms, rest of Lua |
| cards: `script/room_logic/card_shuffler`, `tool/bull_fighting_card_helper.lua`, `script/game_logic/fight_the_landlord` | a deck | shuffle, deal, rate a hand, compare hands | tables |
| friends: `script/game_logic/friend` | lists of friends and applications in the users' data | apply, accept, refuse, remove, search, list | users cached or fetched, other users' connections |
| user information and store | gold, diamonds, name, sex | change, buy | cached user |
| game list and room service | which rooms exist, relay of requests and settlements | enter room, settle | room server |
| Lua engine and bindings: `vm/*` | none that matters | call into Lua, push to C++ | everything |

The room server runs the same request handling (`script/module/protocol.lua`,
`UserManager:Commit`) on copies of the users' data; `script/room_main.lua` loads it.

Tests: one script (`script/test/card_helper_test.lua`). Nothing tests the order
of requests, of responses or of threads.

### What is hard here, and what makes each part correct

- **Framing.** A chunk may end anywhere. Packets must come out whole, once and in
  order, and the loop must always consume something or the process hangs. The
  connections of `GatewayClient` and `GameLogicServer` share one `KNetPackage`.
- **Requests and sessions.** Round trips to redis end after the user moved to
  another connection, left, or sent another request. Replies pop the oldest
  request of a connection, not the one they answer. The two user-connection maps
  must agree; a reply must reach who asked, with the right sequence id; a cached
  object must not be older than what was saved.
- **Database client.** Two threads and the main one share queues and counted
  buffers; a connection is lost between a command and its reply; the process dies
  with copies for mysql queued. Answers must come in order and all of them, no
  buffer may be used after it is freed, the two databases must agree up to what
  is known to be lost.
- **Login.** Ids must be unique over crashes though a registration is several
  commands; two logins of one device may overlap.
- **Center.** Servers restart and register again; a lost connection is not made
  again. A message must go to the server it is for, and to nobody else.
- **Gateway.** Sessions close with requests and replies in flight. The servers know
  a client by a number only: a request must be executed for the user who entered on
  its connection, a reply must not reach another connection, and the logic server
  must release the user of a connection that has gone, after its last request.
- **Timer.** Timers are moved from wheel to wheel and slots wrap around, while
  callbacks add and remove timers. A timer must fire in its frame, once.
- **Rooms.** Timers race with players' requests; settlements change the room's
  copy, and by message the logic server's, and both servers save the user. A bet
  must be counted once on either side.
- **Friends.** One operation changes two users, one of them after a round trip.

## 2. The plan

| # | Module | Of | State |
|---|---|---|---|
| 1 | `MessageChannel`, `NetPacket`, `NetPacketProofs` | framing and the promise it implements | done, proved |
| 2 | `Session`, `SessionProofs` | requests, sessions, cached users | done, proved |
| 3 | `SerialDatabase`, `DBProxy`, `DBProxyProofs` | database client and the promise it implements | done, proved |
| 4 | `Login`, `LoginProofs` | registration and login | done, proved |
| 5 | `TCPBaseServer`, `GatewayServer`, `CenterServer`, `Network`, `NetworkProofs` | session tables; the gateway's and the center's handlers; both composed with the servers and the links between them | done, proved |
| 6 | `PendingTimers`, `TimerWheel`, `TimerWheelProofs` | the timing wheel and the promise it implements | done, proved |
| 7 | `BullFightingCards`, `BullFightingProofs`, `RoomTable`, `RoomTableProofs` | hands as operators against a reference; tables, bets, settlement and the gold of two servers | done, proved |

"Proved" means every type invariant, every safety invariant and action property
that a run checks, and all three refinements, for all values of the constants. Liveness
is model-checked.

The abstract specifications are `MessageChannel`, which framing implements,
`PendingTimers`, which the timing wheel implements, and `SerialDatabase`, which the
database client implements: what `Session` and `Login` assume of it, with the
exceptions that refused commands, lost connections and crashes make of it.

The plan is complete. That the stages of a table follow one another is not stated:
each step's guard says so.

## 3. Modules and code

### NetPacket, MessageChannel

`NetPacket` models `KNetPackage::Write`, `_InitPackage`, `IsValid`, `GetData`, `Reset`
and the do-while loops of `TCPSession`, `GatewayClient` and `GameLogicServer`, which are
the same text. `buf` and `packetLen` are the members of a `KNetPackage`; the constant
`PacketOf` says which package assembles which connection, because that differs: a
`TCPSession` owns one, the connections of a `GatewayClient` or a `GameLogicServer` share
one. One pass of the loop is one action (`LoopPass`), so what has been taken from the
chunk, what is assembled and what was handed over are all visible between passes. A byte
is a stream and a position; a length field is read correctly when its bytes are the
first `LenSize` of a packet and is any value of `Garbage` otherwise: a field made of two
connections' bytes, or one of a peer in `Foreign`. The servers write packets with
`CreateNetBuffer`; a client of the gateway may write anything, and the checks of
`_InitPackage` that would refuse a length are commented out, so nothing is assumed of
`Garbage`. `ends` records what peers wrote.

`mixed` is a history variable: the packages that put bytes together which do not
belong together, of two connections or of a foreign peer. `DeliveredExactly` holds for
the others, and with a package per connection no package of a peer that uses
`CreateNetBuffer` is ever mixed. That mixing does happen when packages are shared is
part of the model (run `framing_shared` reaches it), and the reason for the proviso.
`LoopProgresses` is about every package. A package is `Stuck` when the length it has read
is below `LenSize`: `Write` then takes nothing, and the do-while loop never ends. The
property says that the loop spins in no other case, and that a package whose bytes belong
together is never in this one; `framing_own` has a peer that brings the case about, and
checks that until then the other connection gets its packets.

`MessageChannel` is what the callers of the framing layer use: a sequence of
packets per connection, received in order. `NetPacket` implements it on the connections
that are not foreign (`Framed`), with `sent <- SentPackets`, `got <- GotPackets`.

### Session

One step per handler, as the VM runs them. `OnClientRequest` queues the sequence
id of every request first (`Arrives`, `Queued`), then `EnterCached` and
`EnterUncached` are `OnClientEnterHall`; `Request` is any other registered event
of an entered user; `NotEntered` one that finds no user. `OnUserDisconnect` runs on
the gateway's notice (`UserDisconnect`) and on the same event sent by a client, with any
handler in its body (`ClientDisconnect`): neither the gateway nor `ClientRequest` asks
where it comes from. `EnterBack`, `CallBack` and `SetBack` are the three branches
of `OnRedisRespone`.

The game modules are represented by what their handlers may do: answer at once
(`Answer`), ask for another user's data and answer later (`Defer`), answer and fetch
(`AnswerAndFetch`, which is what accepting a friend does), or raise (`Raise`). The fetch
of `AnswerAndFetch` comes back to a callback that says nothing, but when the other user
has no data it returns false, `ClientRequest` sends that, and another request is taken
off the queue (`CallBack`). Any of them may change the user's cached object, and one
other's. `UserManager:Commit` follows every handler that did not raise and is part of
the same step (`Effects`), as is every save a handler makes. Whether an object becomes
dirty is decided in `UserData`, which lies in the submodule `dev_share`, absent here;
the model leaves it open.

Contents of user data are abstracted to a version, the number of the handler that
last changed them. The database client is abstracted to the order `DBProxy`
establishes: the GET of a key returns what the last SET pushed before it wrote,
so its value is fixed when it is pushed, and answers come in order. `SetBack`
drops the parameters of an arbitrary round trip: the response of a SET carries a
sequence id that was never initialised.

History variables (`crowded`, `roamed`, `fetched`, `shared`, `gone`) mark the
situations in which the code gives up a promise; each property names the one it
needs. When a handler saves several users, Commit's SET is pushed last, and what it
writes is what `saved` has. Left out: ENTER_GAME with bad
parameters; the requests of the center server
are in `Network` and `RoomTable`.

### DBProxy

The main thread: `PushRedisRequest` (the pushes of `vm/lua_redis.cpp`, through
`KDBClientManager` into `KDBClient::PushRequest`), `PopRespond` and `Responsed`
(`Activate`, in two steps so that the redis thread can run between taking a response and
releasing it). The redis thread: `RedisPopRequest`, `RedisCommand`,
`RedisLoseConnection` (the retry loop of `RedisCommand`), `PushMysqlRequest` (the copy a
handler makes for mysql), `RequestMySQLQuery` (an HGET that found nothing, which nothing
in `src/` asks for), `PushRespond`, `RedisRelease`. The mysql thread: `MysqlPopRequest`,
`MysqlQuery`. What the eight handlers of the redis thread do besides their command is a
record each (`OnRequestSet` ... `OnRequestExpire`): whether they copy, answer, say who
the answer is for and release it; they differ in nothing else, and none of these is
uniform. `MysqlOnRequest` chooses what the statements of the mysql thread leave. Each
step between two accesses to a queue, a counter or a database is an action. `refs` is
`m_lRefCount`: a buffer is created with one reference and gets one when it is pushed.

Two outcomes deserve a word. A retry of a command uses the argument list the
first attempt consumed, which the language leaves undefined: the command may do
nothing useful, which `RedisCommand` models as an error reply and `refused`. And
`Reconnect` stores a NULL context when it cannot connect; the next command
dereferences it, which is a `Crash`.

Contents are numbers of writes, negative for a deletion, so that a property can say
which of two values is newer. The redis thread asks mysql itself for an HGET that
found nothing, on the connection and in the buffer the mysql thread may be using:
while it is, the answer may be anything (`Error`). An MGET with a missing value
kills the process (`RespondedMissing`), because its length -1 reaches
`lua_pushlstring` as a size.

`NoUseAfterFree` counts the holders of a buffer, the queues and threads that will
still use it, and compares them with its references. `AnswersInOrder` is stated over
what is awaited: of all requests that name their answer and have not been answered,
the response taken is the oldest's.

`SerialDatabase` is a database as its user sees it: commands wait, the oldest takes
effect on the store at once, and its response says what it found. It may be refused,
or take effect and be run again; a process that dies loses what waits and no effect.
`DBProxy` implements it with the requests the redis thread has not run as the
commands (`ToRun`), and the responses that say whose they are, from the moment redis
has answered until Lua has handled them, as the responses (`Told`). The effect is
that of `RedisCommand`, the only step that takes a command; `RedisLoseConnection` is
`RunInVain` or nothing, `RedisExpires` a `Drop`, `Responsed` a `Deliver`, and what
passes between the queues and the threads is invisible. The responses of HGET, which
name nobody, and mysql are not part of the promise.

Lua has bindings for SET, GET, MGET and for DEL and HSET; HGET, HDEL and EXPIRE are
handlers that only other C++ code could reach. `Ops` says which are pushed.

### Login

`LoginDirect`, `LoginBadParameters`, `LoginParametersRaise` and `OtherEvent` are the
requests. Bad parameters are of two kinds: numbers, which `CheckRegisterParam` refuses,
and what it cannot even log (nil, booleans, tables), where it raises and `OnClientRequest`
removes one request. `GlobalBack`,
`DeviceBack`, `RegisteringBack` and `GameBack` are the responses, with the registration
(`Register`, `Registration`) and the login (`LoginUser`) they lead to as part of
the step. `RedisExecutes` runs the first command of the queue, so a `Crash` can
cut a registration anywhere. Ids are counted from 1 instead of the code's 100001:
only order and distinctness matter. `RepliesMatch` and `RepliesDurable` except a
reply whose connection is `Confused`: it queued a second request before the first
was answered, or an earlier request of its was taken off its queue by another
connection's answer. That is a chain, one wrong answer makes the next one wrong, so
the exception looks at the earlier replies. Left out: the account record, the map from
connections to users and the message to the logic server, which this server writes
and never reads.

### TCPBaseServer, GatewayServer, CenterServer, Network

`TCPBaseServer` has the tables of a listening server and the operators that change
them; `GatewayServer` and `CenterServer` extend it with their handlers, one operator
each, and `Network` holds one instance of each, four processes and the links
between them. A connection of a client is numbered by its arrival at the gateway,
a connection of a server to the center is the process (its type and its life, the
number of its start). `RemoveClient` erases an entry and then reads it through its
iterator: the id it reads is the one that was there or none.

The rest of `Network` follows the reading side of each process. Gateway:
`GatewayAccepts`, `GatewayForwards` (`TCPSession::ProcessNetData`, which stamps the
handler id into the packet whatever id the client `claimed` in it, and forwards whatever
event it holds, a USER_DISCONNECT included, whose body names a handler `of` the client's
choice), `GatewayReadsEOF`, `ConnectionReset` (which `OnMsgRecv` ignores) and
`GatewayTransfersToClient` (`GatewayClient::_ProcessNetData` and
`GatewayServer::TransferToClient` with the notice). Logic and room server:
`LogicEnters`, `LogicExecutes`, `LogicReleases`, `RoomExecutes`, `RoomReleases`,
`RoomSeats`, `RoomSettles`, with only what concerns the network: `entered` is which
connection's user plays on a handler id, `seats` the same for those at a table.
`Session` and `RoomTable` have what these handlers do besides. Center:
`CenterDispatches`, `CenterReadsEOF`. `GatewayRestarts`, `ServerRestarts` and
`CenterRestarts` compose what a process's start does (`ServerListens`, `InitState`,
`ConnectsToCenter`, ...) with what its peers do, which is nothing: a broken link stays
broken on the side that is alive. What a process wrote before it died can still be read.
A server that has had no gateway since its start writes through a null
`m_pGatewayClient` and dies; that is one of the deaths `ServerRestarts` has, and counts
as a restart.

A message carries, besides its handler id, the connection it is about (`conn`). The code
does not have this field: it is a history, in which the properties say whom a message
should reach. `NoticeIsLast` is about the notices the gateway itself sends, which carry
handler id 0: they are what a user's release can rely on. A client's own USER_DISCONNECT
may name a connection that is open and goes on, as the model has it, and no property of
the notices can hold of it. Several properties hold only until a restart, and say so:
handler ids start again at 1 with the gateway while the servers keep using the old ones,
and the center's table of types keeps the handler of a dead server.

### PendingTimers, TimerWheel

`TimerWheel` models `script/common/timer.lua` with sizes that are CONSTANTs: the
four wheels, `_internal_add_timer` (`SlotFor`), `add_timer`, `remove_timer`,
`cascade_timers` and `update`, which is split where a callback runs: `StartUpdate`
(time and cascades), `Callback`, `CallbackReturns` or `CallbackRaises`, `EndFrame`.
Between `Callback` and its end the callback may add and remove timers. Times are
frames; `Expires` leaves open the rounding of a division that is not exact in
floating point. When the last wheel has gone around, `update` indexes a wheel that
does not exist and raises; the frame runs in the next update. A timer, or a cycle,
that is longer than the last wheel is logged and dropped.

`PendingTimers` is a set of timers and the frame each was set for; it ticks only when
none is left that fires now. A timer fires in its frame, with one exception, which the
abstract service states: after a callback has raised, and until one is called again
(`spoilt`), timers of the current frame may be postponed to the next (`Postpone`). That is
what `INNER_BARRIER` does when a callback removes its own timer and then raises: the flag
stays set, the slot is run again without a callback that would clear it, and if the first
wheel turns in the next frame, the timers due then are put one slot too far. A late timer
is called before the frame after its own is over. `TimerWheel` implements it with
`now <- frame`, `due <- Due`, `late <- Late` and `spoilt <- barrier /\ at # "callback"`.
Excluded, and stated at `CallbackReturns`: the repetition of a late timer whose cycle is one
frame, which adds to the very slot that is being traversed; Lua leaves undefined what the
traversal does then.

### BullFightingCards, RoomTable

`BullFightingCards` translates `card_helper.lua` and `bull_fighting_card_helper.lua`:
the points of a card, the search for three cards that make a bull, the points of a
hand and the comparison. `Rank` and `Outranks` state the order of the game without
a search; `MCRoomTable` compares the two on 462 hands with every kind of bull (that
the result does not depend on which three cards are found first is not obvious from
the code).

`RoomTable` has the gold of a user in four places: the logic server's object
(`gold`), the room server's copy (`copy`), the database (`stored`) and what is under
way. `EnterRoom` is `GameManager:EnterGame`, `ClientEnterRoom` the room server's side
of it, `ClientBet` the request with `UserBet`, `CheckBetOverRange` and `MarkBet`;
`FreeTimerOver`, `BetTimerOver` and `SettlementOver` are the callbacks of a table's
timer and `GameSettlement` the logic server's side of a settlement.
`Commit` ends every client's request in both servers (`RoomCommit` in the room server).

Meanwhile the logic server's object is changed and exchanged by everything in `src/` that
can do so. `BuyRoomCard` costs gold; `SetGold` is `UserInfoLogic:UpdateBalance`, which moves
gold to or from the balance (the balance itself is not followed: any amount of `Amounts`
may be left), and the test commands ADD_GOLD and RESET_USER_DATA; `Request` is any other
request, after which Commit may save. `Release` is `OnUserDisconnect`. `GetValue` asks for a
user who has no object, for ENTER_GAME or for a friend's request, and reads what the
database has then; the answer comes later, and any number of answers may be on their way
(`answers`). `OnResponseEnterHallEvent` makes an object of it whatever object there is by
then, and `FriendAnswer` saves the whole fetched copy (`friend_logic.lua:182`), or does
nothing when who asked has gone; `FriendSaves` is the same on a cached object. A save and a
read are seen where they are asked for: `DBProxy` runs them in that order. An answer that a
save has overtaken is `late`.

At the room server, a client's USER_DISCONNECT releases the object of a user who stays
seated (`RoomRelease`); `Settlement` then raises at that user (`Made` is what was done
before), nothing is sent, and the table's timer is never set again (`stuck`).
`ClientBetRaises` is a bet on a position that is no index.

Hands are dealt when a round begins, so what a bet will come to is known when it is
taken: `Pending` and `InFlight` follow it from there, and `ledger` is a history of
what it should come to. A user who leaves takes his gold out of the ledger, an answer
that is cached puts in what it makes of the gold, and a change that finds no object takes
itself out, so the equation also says what is to become of a bet whose user is away, and
that a fetch that overwrites an object undoes what the object had and nothing else. Gold is
counted in a unit so small that the commission leaves no fraction (`RoomAssumption`), since
the code keeps fractions. A settlement's `Record` has one element for each seat, in
the order of the seats; one with change 0 stands for the entry the code does not make
(`Entries`). A user has one seat at a table, which is part of `TypeOK`, so `ChangeOf`
takes the one entry there is.

The model shows two things no document speaks about. The room server's `Commit` saves
a copy that knows nothing of what the logic server saved since, and an answer overtaken
by a save is cached or saved over it (both `overwritten`: `StoredUnlessOverwritten` says
that nothing else makes the database differ from the object). And the
logic server's gold can become negative: a bet is checked against the copy only, and
neither a room card bought meanwhile nor a bet at a table the user has left for
another counts. Both are in `PROJECT.json` as hazards.

## 4. Runs

| Run | Question | Bounds |
|---|---|---|
| `framing_own` | Does framing implement the channel, and is every packet handed over? | 2 connections with a package each, one of a foreign peer, length field of 2 bytes, packets of 3 and 4, foreign lengths 1, 2 and 5, 7 bytes per connection |
| `framing_shared` | What is left when connections share a package? | the same with one package and no foreign peer |
| `session` | Do the maps agree, replies match and cached objects stay fresh? | 2 users, one without data, 2 connections, 4 requests, 2 changes, 4 round trips, 2 disconnections |
| `session_error` | Is a request whose handler raised removed? | the same |
| `dbproxy` | Is the database client a serial database? Order, memory and agreement of its threads | SET, GET, MGET, DEL on a key, HSET on another without a mysql table, EXPIRE on both, 2 requests per process, 2 writes, a lost connection, a crash |
| `dbproxy_hash` | What does an HGET read when redis has nothing? | HSET, HGET, HDEL, EXPIRE on one key, 3 requests per process, 2 writes, a lost connection, a crash |
| `dbproxy_leak` | Is the memory of a request released? | 1 key, 2 requests |
| `login` | Ids, durability and matching of replies over crashes | 2 devices, 2 connections, 4 requests, 4 registrations, 2 crashes |
| `login_bad` | Are bad parameters answered? | 1 device, 1 connection, 3 requests |
| `network` | Whom do requests, replies, notices and messages to other servers reach? | 2 connections, 2 requests, USER_DISCONNECT of a client for the first handler, 1 settlement, 1 restart of any process |
| `timer` | Does the wheel fire every timer in its frame, and only then? | 2 timers, wheels of 3, 2, 2 and 2 slots, 25 frames, delays around every border, cycles of 0 and 4, a callback that raises |
| `room` | Is every bet counted once, on both servers? Does the code compare hands as the game does? | 1 user, 2 tables, 2 bets of 60 from 200 on two positions, one purchase or amount set, one release at either server, 2 fetches under way, one deal |

Why these are enough. Framing: a length field of two bytes can be cut inside; 7
bytes hold two packets of different lengths with every cut of the second; two
connections are what mixing takes; of the lengths that may be read from other bytes, 1 is
smaller than the field (the one for which the loop spins), 2 is an empty packet and 5 one
that no packet has. The proofs cover
all other values. Session: four requests are two on each connection, or an entry,
a request that defers, a move to the other connection and a request there; two
changes are needed for one to overtake the other. DBProxy: two writes and two
requests per process put a copy of one process behind the restart of another, two
keys separate a copy that can be written from one that blocks the mysql thread; a
write, its deletion and a read are what an HGET needs to see a value come back.
Login: two devices race for one id; two crashes cut a registration and the one
that follows it.

Network: with two connections one can close, and the other take its id if ids were used
again, while a reply is under way; one restart is what ends each of the promises, and
the code has nothing that a second would meet; a USER_DISCONNECT that names the first
handler comes from its own client or from the other one. TimerWheel: 24 frames are one
turn of the last wheel, so every wheel wraps and frame 25 is past the end; the delays
lie on, before and after the border of each wheel; two timers share a slot, and one can
be removed by the other's callback. RoomTable: two tables are a user who enters twice
with a bet still open at the first; of 200 a bet of 60 is taken and a second one at the
same table is not; of the two positions one wins and one loses; two answers under way
are what it takes for one to be cached, overtaken by a save, and the other to overwrite
the object. Users' gold does not mix: what users share, the order of a settlement record
and the loss of its rest, is in `GameSettlement`, and needs two users at one table,
which the code never seats (`SetNewTableAtRoom` is called with an unset id, so no table
is found again).

Deadlock is not checked: requests, writes and faults are bounded, and a server
that has nothing to do waits.

### Fairness

Five runs have a liveness property. In `NetPacket` libuv polls with
level-triggered epoll, so a socket with unread bytes is reported again
(`WF` of `ReadCallback`), and a callback runs to its end (`WF` of `LoopPass`);
nothing is assumed of the peers. In `DBProxy` each database thread wakes up every
5 ms and the timer of the main thread fires every 100 ms (`WF` of each thread's
steps as a whole, since one thread's steps exclude each other). No fairness is
assumed for the loss of a connection, for crashes, or for a query to succeed;
`EveryRequestAnswered` holds although the mysql thread may repeat a query on a
missing table for ever, because the redis thread never waits for it. In `Network`
each process's loop reads a link that has something to read (`WF` per process);
clients, rounds, resets and restarts are not fair, and the properties give up after
a restart. In `TimerWheel` libuv's timer repeats and a callback returns or raises
(`WF` of `Update`); the callbacks that raise are bounded, since one that raises for
ever does hold up every timer. In `RoomTable` the timers of a table come, which is
what `TimerWheel` shows, and the messages between the servers are read.

### Findings

- `script/manager/net_manager.lua:67`: the request removed after an error is the
  oldest of the connection, not the one that failed as
  `script/module/protocol.lua:36` says. Run `session_error`.
- `db_proxy/db_client.cpp:193`: the release said to free a request's memory leaves
  the creator's reference; no request is ever freed. Run `dbproxy_leak`.
- `script/module/login_protocol.lua:30`: bad parameters are to be answered at once,
  but the request is removed twice and the reply raises. Run `login_bad`.

## 5. Proofs

All proofs are checked to the last leaf; they assume nothing but the ASSUMEs of the
modules, which TLC evaluates in the runs.

**`NetPacketProofs`** (assumes `StreamAssumption`, `SizeAssumption`: every
connection has a package, and `CreateNetBuffer` makes packets that are longer than their
length field; of what foreign or mixed bytes announce, nothing but that it is a number).

- `NetPacketTypeCorrect`, `PacketsDeliveredExactly`, `LoopAlwaysProgresses`:
  `Spec => []TypeOK`, `[]DeliveredExactly`, `[]LoopProgresses`. The invariants
  speak of complete packets and are not inductive: the step that completes a packet
  needs to know what the incomplete one holds. `FramingInv` adds that ends of
  packets grow by a size of `Sizes` (`EndsInv`), that the chunk being read lies in
  what was written (`ReadingInv`), and that an unmixed package holds a prefix of
  the first undelivered packet of the connections it reads, with the length known
  exactly when the length field is complete (`PackageInv`, `Assembled`). The
  arithmetic of one pass is in `PassOfOneStream`, stated over natural numbers away
  from the sequences; the rest is that chunks concatenate (`BytesConcat`) and that
  equal chunks are the same piece of the same stream (`BytesEqual`), which makes a
  length field readable in one way (`LengthReadExact`). `LoopProgresses` is about all
  packages, mixed ones and those of foreign peers too, of which `PackageInv` says nothing:
  `RoomInv` says how far any package can be, its length field or its packet incomplete, or
  stuck at the length field, and is inductive with the types alone; that a stuck package is
  mixed follows from `PackageInv`.
- `FramingImplementsChannel`: under `Exclusive` (a package per connection), `Spec =>
  ImplementsChannel`. No package of a peer that uses `CreateNetBuffer` is ever mixed
  (`FramedApart`), so `FramingInv` applies to all of these; a `Send` is a `Put`
  (`SendIsPut`), a pass of the loop is a `Hand` or a stutter (`LoopPassIsHand`), a
  callback a stutter.

**`SessionProofs`** (assumes `SessionAssumption`).

- `MapsAlwaysAgree`, `OnlineUsersAreReachable`: `Spec => []HandlerMapsAgree` and
  `[]OnlineIsReachable`. They are inductive only together: taking the user of a
  closed connection offline is right because that user plays there
  (`HandlerMapsAgree`), and a user stays reachable because the handler he moves
  from forgets him and nobody else. `MapsInv` is their conjunction with the types
  of the two maps (`MapsTypeOK`), without which an update of a map says nothing.
- `SessionTypeCorrect`: `Spec => []TypeOK`. A reply records the request its round
  trip works for, so `TypeInv` adds that every fetch under way works for a request
  that was sent.
- `RepliesGoToTheirRequest`: `Spec => []RepliesMatch`. `AnswersInv` adds that no two
  round trips that will be answered work for one request (`OneTripEach`) and that
  the asker waits (`AskerWaits`): the connection's queue is exactly the request the
  trip works for, unless it is crowded, and the user still plays there or nowhere.
- `CacheIsNeverStale`: `Spec => []CacheNotStale`. `CacheInv` adds that versions are
  below the next one and that a fetch which is the only one of its user's data is
  fresh (`FetchesAreFresh`): the user has no object, and the value fetched is the
  last one saved. What the handlers do to an object is in `EffectsData`, once for
  all of them.

**`DBProxyProofs`** (assumes `DBAssumption`: the operations are among the eight the
redis thread has handlers for; `NoneAssumption`: no request looks like none).

- All theorems come from one invariant, `Inv`, whose parts are inductive one after
  the other: `Types`; `Order` (requests carry consecutive ids, copies and responses
  never overtake each other); `RefsInv` (who still uses a buffer has its reference:
  two on a request and a copy, one or two on a response, by where the redis thread
  is); `AwaitedInv` (what is awaited is queued, worked on or answered); `ReadsInv`;
  `NumbersInv`; `AgreeInv`.
- `DBTypeCorrect`, `NoBufferIsFreedEarly`, `ResponsesComeInOrder`: `TypeOK`,
  `NoUseAfterFree` and `AnswersInOrder`, from the first four.
- `ReadsSeeTheLastWrite`: `ReadsInv` follows the last write of a key through the
  queue (`LastWrote`): the last one queued before the read, else what the redis
  thread is about to write, else what redis has. A crash empties the queue, and the
  history `last` starts again from what redis has.
- `MysqlOnlyAdvances`, from `NumbersInv` (what is under way is newer than what mysql
  has, and newer the later it was pushed), and `DatabasesAgreeWhenIdle`,
  `FallbackSeesTheLastWrite`, from `AgreeInv`: for each key mysql missed the write
  redis has, or has it, or it is under way (`Coming`) with nothing that counts after
  it. The action properties are proved from the same invariants.
- `DatabaseIsSerial`: `Spec => ImplementsSerialDatabase`, step by step, from `Types`
  and `Order`. That the command redis runs is the oldest (`CommandFirst`) and that
  the response Lua has handled is the first of those to be told (`SerialResponsed`)
  is what the ids say; that the effect is the command's is `SerialEffect`, once for a
  command that is answered and one whose connection is lost. A request passes from
  the commands to the responses in one step (`SerialDone`), and every other step of
  the threads keeps both sets (`SerialInside`).

**`LoginProofs`** (assumes `LoginAssumption`).

- `LoginTypeCorrect`: `Spec => []TypeOK`, with what the three queues hold by
  operation (`CommandOK`, `ResponseOK`).
- `StoredIdsBelowGlobal`, `NoUserIsShared`, `CounterIsLoadedFirst`: `IdInv` says of
  the commands not yet executed that their counters grow (`CountersGrow`), that
  before every pending use of an id comes a counter above it (`PendingCovered`), and
  that a pending id is no other device's (`PendingDistinct`). A crash cuts a suffix
  of the commands, and all of these hold of every prefix: that is why the order in
  which `RegisterProcess` pushes matters.
- `RepliesReachTheAsker`, `UsersToldAreDurable`: `ReplyInv` follows a user from the
  command that reads or stores it to the reply: whose device it is (`OneDeviceEach`),
  whose connection asked (`LoginsFollowed`, `RegistrationsKept`), that a connection
  without mixed answers has one request queued, the one worked on (`QueuesMatch`),
  and that the device is stored before the answer (`UsersLast`).

**`NetworkProofs`** (assumes `NetworkAssumption`: events and servers are distinct,
and no connection is numbered like none).

- `NetworkTypeCorrect`: `Spec => []TypeOK`, by `TypeInv`: the three tables of the
  gateway are about the same connections, those of its present life whose end it
  has not read, in whatever state a restart leaves the links.
- `NoticesComeLast`, `RepliesReachConnections`, `RequestsActForTheirUser`: `FirstInv`
  describes the gateway's first life, in which a handler id is the number of its
  connection on every link and in both servers' tables (`Own`), whatever handler a
  client's own USER_DISCONNECT names, a notice of the gateway's is about a
  connection that can send nothing more (`OwnNotice`), and nothing of it but further
  notices comes behind one (`LastNotice`).
  The properties promise nothing of later lives, where ids are given again.

**`TimerWheelProofs`** (assumes `TimerAssumption`: any wheels of two slots or more;
`NoneAssumption`).

- `TimerTypeCorrect`, `EveryTimerIsFound`: `Spec => []TypeOK`, `[]MapFindsTimers`.
- `WheelFiresInItsFrame`: `Spec => ImplementsPendingTimers`, the refinement, step by
  step: no timer fires before the frame that runs it (`RunsIn`: the frame it was set
  for, or the one after if it is late), and none is left when the frame ends. The
  invariant counts the slots each wheel has passed since the start (`passed`), which are
  the digits of the frame in the mixed radix of the sizes, with one carry owed while the
  wheels turn (`Counted`); a timer `Belongs` in the slot of its wheel that has the
  number of its frame there, within one round, and is `InPlace` when it belongs in the
  slot of the frame it runs in. The cascade of one wheel moves each timer to where it
  belongs in a lower one, and makes a timer late only if the flag is set and the timer
  is due at once (`Follows`). Products of sizes are kept behind one predicate
  (`Rounds`), because the provers have no theory of them.

**`RoomTableProofs`** (assumes `RoomAssumption`: bets and prices are natural numbers, amounts
set are integers, the commission is a percentage without fractions, a deal is five hands of
cards).

- `RoomTypeCorrect`, `DatabaseHasTheGold`: `Spec => []TypeOK` and
  `[]StoredUnlessOverwritten`, by `RoomInv`. The latter is not inductive, since an answer
  on its way may become the object or be saved: `IsCurrent` adds that an answer which no
  save has overtaken says what the database has, for any number of answers.
- `GoldIsAccounted`: `Spec => []GoldIsAccountedFor`, for any number of users, tables,
  bets and records. `AccountInv` adds that only who sits at a table has bets there, and
  only from the bets to the settlement (`BetsAreSeated`), that a user sits at the table
  of `tableOf`, released or not, that a record has one entry for a user, and that who
  has no object has no gold. The lemmas say that a record changes a user by what is made
  of it plus what is lost (`ChangeSplits`) and pays what the bets come to
  (`RecordPays`), that a step which leaves tables and records alone keeps the account
  when gold and ledger move alike (`GoldMoves`), and how the sums over tables and
  records change when one is added, moves on or is taken (`PendingAppend`, `PendingPut`,
  `InFlightAppend`, `InFlightTail`). A sum over a sequence is a recursive function, and
  what one computes is proved by induction over the length, for which the provers have
  no usable rule. So the rule is part of the invariant: `Counted(n)` says that a set
  which has 0, and with each number the next up to n, has all of them. It holds at 0 and
  goes from a number to the next and back, which is how the steps change the lengths of
  `tables` and `toLogic`.

**`BullFightingProofs`** (no assumption: the operators have no constants).

- `HandsAreCompared`: for any two hands of five cards of the deck,
  `FormerWins(hand1, hand2) <=> Outranks(hand1, hand2)`, of which `room` evaluates
  462 hands. The three cards of a bull make a multiple of ten, so the other two
  count what all five do, whichever three `IsBull` finds (`RestIsRank`); and the
  highest cards compare as the game says (`MaxCardsCompare`).
- `OneHandWins`: of two hands without a common card exactly one wins. The shuffler
  deals no card twice, so a bet at a table is always decided.

**Only model-checked**: the liveness properties (`EventuallyDelivered`,
`EveryRequestAnswered`, `SentOnIsSeated`, `WrittenToIsReleased`, `EveryTimerComes`,
`EveryBetIsPaid`), which are beyond the proof system, as is everything that
rests on ENABLED.

## 6. Not modelled

- mysql's requests SETS, GETS, HSETS, HGETS, HGETALL, DELS, HDELS, DELHASHTABLE and
  Query, and `KMysqlClient::Reconnect`: no code sends or calls them.
- The contents of the lists of friends, of names and of the other fields of a user:
  `Session` has the handlers' shapes (change, fetch, save, answer, raise), and
  `RoomTable` the one field two servers change, gold, with what `src/` does to it. The
  balance next to it is not followed.
- ENTER_GAME sent to the room server, which loads `logic_protocol.lua` too: it would answer
  with its own copy, or make one of what the database has. The other two events it shares
  with the logic server, USER_DISCONNECT and the test commands, are in `RoomTable`.
- The notices to the clients at a table and the generator of table ids, which no
  state depends on; the types of hands that choose odds, because the odds are
  defined in the absent submodule; `fight_the_landlord`, which has a protocol and no
  game.
- The gateway's and the login server's connection to the center, to which nothing
  is routed, and the gateway's link to the login server, which is like the others.
- libuv's write queue: a write is done when `uv_write` returns. The buffer is freed
  then, which is a hazard when it is not done.
- `tcp/tcp_client.cpp`: a wrapper with no state another component reads.
- `script/share` and `dev_share.load`: the scripts load their definitions from a
  submodule that is not in the repository; `script/share` is an older copy (its
  `user.lua` is loaded by no main file). The modules treat it as external.
- `protobuf/`, `third_party/`, `tools/`, `util/`: generated, vendored, or outside
  the running system.
- Memory exhaustion of the queues no one drains (requests queued under handler 0,
  parameters kept for SETs): growth is bounded by the models' bounds.
- Weak memory effects of the reference counts: they are atomic
  (`common/kg_interlockedvariable.h`).
