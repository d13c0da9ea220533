----------------------------- MODULE RoomTable -----------------------------
(***************************************************************************)
(* The tables of the room server and the gold of their users.  A user has  *)
(* a copy of the data of the logic server in the room server since the     *)
(* user entered; a table is dealt, takes bets, settles them on the copies  *)
(* and sends the changes to the logic server, which makes them on its own. *)
(* Both save to the same database what their scripts find changed, and the *)
(* logic server reads from it whoever it has no object of.                 *)
(*                                                                         *)
(* The way between the two is Network's, without its losses; the timers    *)
(* are TimerWheel's.  The database is DBProxy's: saves and reads are done  *)
(* in the order they are asked for, so both are seen where they are asked  *)
(* for, and the answer of a read comes later.  UserData, the odds, the     *)
(* commission and the prices are not in the repository.  UserData notes a  *)
(* change as dirty; odds are positive.                                     *)
(***************************************************************************)
EXTENDS BullFightingCards, SequencesExt

CONSTANTS
    Users,
    StartGold,           \* the gold of every user at first
    EnterMin, EnterMax,  \* the gold a room asks for: at least and below
    Price,               \* of a room card
    MaxOdds,             \* BULL_FIGHTING_ODDS[10]
    Commission,          \* of a bet that wins, in per cent
    Bets, BetPositions,  \* what clients send
    Amounts,             \* what UPDATE_BALANCE and the test commands leave of the gold
    Deals,               \* the hands dealt: the dealer's and four more
    MaxTables, MaxBets, MaxChanges, MaxReleases, MaxFetches
      \* bounds: tables, bets, room cards and amounts, releases, answers on their way

\* Gold is counted in a unit so small that the commission leaves no fraction.
ASSUME RoomAssumption ==
    /\ {StartGold, EnterMin, EnterMax, Price, MaxOdds} \subseteq Nat
    /\ Commission \in 0..100
    /\ Bets \subseteq Nat /\ BetPositions \subseteq Int /\ Amounts \subseteq Int
    /\ \A b \in Bets : (b * Commission) % 100 = 0
    /\ \A deal \in Deals : deal \in [1..5 -> [1..5 -> Deck]]

\* GAME_STATE_DEF.BullFighting
INIT == 0
FREE == 1
BET == 2
SETTLEMENT == 3

Positions == 1..4

VARIABLES
    gold, cached, dirty,  \* the logic server's user objects
    stored,               \* the gold in the database
    answers,              \* users read from it, on their way to the logic server
    toRoom, toLogic,      \* messages on their way through the center
    present, copy, copyDirty,  \* the room server's user objects
    tables,               \* m_tbTableMap, in the order of creation
    tableOf,              \* m_tbUserTableMap, 0 for no table
    stuck,                \* tables whose timer has raised and is not set again
    ledger,               \* history: what the gold comes to, once the bets taken are paid
    overwritten,          \* history: another copy than the logic server's was saved or read
    used                  \* what the bounds count

logic == <<gold, cached, dirty>>
database == <<stored, answers, overwritten>>
room  == <<present, copy, copyDirty, tables, tableOf, stuck>>
vars  == <<logic, database, toRoom, toLogic, room, ledger, used>>

Init ==
    /\ gold = [u \in Users |-> StartGold] /\ stored = gold
    /\ cached = [u \in Users |-> TRUE] /\ dirty = [u \in Users |-> FALSE]
    /\ answers = <<>> /\ toRoom = <<>> /\ toLogic = <<>>
    /\ present = [u \in Users |-> FALSE]
    /\ copy = [u \in Users |-> 0] /\ copyDirty = [u \in Users |-> FALSE]
    /\ tables = <<>> /\ tableOf = [u \in Users |-> 0] /\ stuck = {}
    /\ ledger = gold /\ overwritten = [u \in Users |-> FALSE]
    /\ used = [bets |-> 0, changes |-> 0, releases |-> 0]
-----------------------------------------------------------------------------
(* The rules of a table. *)

\* Whether each position of a deal beats the dealer.
Wins == [deal \in Deals |-> [p \in Positions |-> FormerWins(deal[p + 1], deal[1])]]

\* What a user gets for the bets of a round, by position.
Change(bets, hands) ==
    LET result(p) == IF Wins[hands][p] THEN bets[p] - (bets[p] * Commission) \div 100
                     ELSE -bets[p]
    IN  result(1) + result(2) + result(3) + result(4)

NoBets == [u \in Users |-> [p \in Positions |-> 0]]

\* Mutant of InitGame: the bets of the last round stay.
InitGameKeepsBets(table, deal) == [table EXCEPT !.stage = @ + 1, !.hands = deal]

InitGame(table, deal) == [table EXCEPT !.stage = @ + 1, !.bets = NoBets, !.hands = deal]

CheckState(table, deal) == IF table.stage = INIT /\ table.seats # <<>>
                           THEN InitGame(table, deal) ELSE table

\* Mutant of SettlementTimerOver: the next round does not start from INIT.
SettlementTimerOverForward(table, deal) == InitGame(table, deal)

\* Mutant of SettlementTimerOver: the next round waits for a user to sit down.
SettlementTimerOverWaits(table, deal) == [table EXCEPT !.stage = INIT]

SettlementTimerOver(table, deal) == IF table.seats = <<>> THEN table
                                    ELSE CheckState([table EXCEPT !.stage = INIT], deal)

GetSumOfUserBet(table, u) ==
    table.bets[u][1] + table.bets[u][2] + table.bets[u][3] + table.bets[u][4]

CheckBetOverRange(table, u, bet) == copy[u] > (GetSumOfUserBet(table, u) + bet) * MaxOdds

\* Settlement: a record of the seated users, seat by seat.  A change of 0 stands
\* for no entry: the code has one of each user whose bets come to something.
Record(table) == [n \in DOMAIN table.seats |->
                    [user   |-> table.seats[n],
                     change |-> Change(table.bets[table.seats[n]], table.hands)]]

Entries(record) == {n \in DOMAIN record : record[n].change # 0}

\* The entries before the first whose user has no object: Settlement and
\* GameSettlement raise there.
Made(record, has) ==
    {n \in Entries(record) : \A k \in Entries(record) : k <= n => has[record[k].user]}

\* What the entries of ns change of a user, who has one seat.
ChangeOf(record, u, ns) ==
    IF \E n \in ns : record[n].user = u
    THEN record[CHOOSE n \in ns : record[n].user = u].change ELSE 0
-----------------------------------------------------------------------------
(* The database, and the logic server. *)

\* Answers that were read before the users were saved come late.
Overtaken(queue, users) ==
    [n \in DOMAIN queue |-> [queue[n] EXCEPT !.late = @ \/ queue[n].user \in users]]

\* SetValue of a user's data, of the logic server's own object or of another copy.
Save(u, amount, another) ==
    /\ stored' = [stored EXCEPT ![u] = amount]
    /\ overwritten' = [overwritten EXCEPT ![u] = another]
    /\ answers' = Overtaken(answers, {u})

\* UserManager:Commit at the end of a client's request, with the gold it leaves.
Commit(u, isDirty, amount) ==
    /\ gold' = [gold EXCEPT ![u] = amount]
    /\ dirty' = [dirty EXCEPT ![u] = FALSE]
    /\ IF isDirty THEN Save(u, amount, FALSE) ELSE UNCHANGED database

\* GameManager:EnterGame: the user's data goes to the room server.
EnterRoom(u) ==
    /\ cached[u]
    /\ Len(tables) + Len(toRoom) < MaxTables
    /\ toRoom' = IF gold[u] >= EnterMin /\ gold[u] < EnterMax
                 THEN Append(toRoom, [user |-> u, gold |-> gold[u]]) ELSE toRoom
    /\ Commit(u, dirty[u], gold[u])
    /\ UNCHANGED <<cached, toLogic, room, ledger, used>>

BuyRoomCard(u) ==
    /\ cached[u]
    /\ used.changes < MaxChanges
    /\ IF Price <= gold[u]
       THEN /\ Commit(u, TRUE, gold[u] - Price)
            /\ ledger' = [ledger EXCEPT ![u] = @ - Price]
       ELSE /\ Commit(u, dirty[u], gold[u])
            /\ UNCHANGED ledger
    /\ used' = [used EXCEPT !.changes = @ + 1]
    /\ UNCHANGED <<cached, toRoom, toLogic, room>>

\* UpdateBalance, and the test commands ADD_GOLD and RESET_USER_DATA.
SetGold(u, amount) ==
    /\ cached[u]
    /\ used.changes < MaxChanges
    /\ Commit(u, TRUE, amount)
    /\ ledger' = [ledger EXCEPT ![u] = @ + amount - gold[u]]
    /\ used' = [used EXCEPT !.changes = @ + 1]
    /\ UNCHANGED <<cached, toRoom, toLogic, room>>

\* Any other request: it may leave the object dirty with its gold as it was.
Request(u) ==
    /\ cached[u]
    /\ \E isDirty \in {dirty[u], TRUE} : Commit(u, isDirty, gold[u])
    /\ UNCHANGED <<cached, toRoom, toLogic, room, ledger, used>>

\* PassRequest and AddFriend of another user: this one's object is saved.
\* SaveUserData leaves it dirty.
FriendSaves(u) ==
    /\ cached[u]
    /\ Save(u, gold[u], FALSE)
    /\ dirty' = [dirty EXCEPT ![u] = TRUE]
    /\ UNCHANGED <<gold, cached, toRoom, toLogic, room, ledger, used>>

\* Mutant of GameSettlement: the change is not saved.
GameSettlementUnsaved ==
    /\ toLogic # <<>>
    /\ \E r \in {Head(toLogic)[1]} :
         /\ gold' = [gold EXCEPT ![r.user] = @ + (IF cached[r.user] THEN r.change ELSE 0)]
         /\ dirty' = [dirty EXCEPT ![r.user] = cached[r.user]]
         /\ ledger' = [ledger EXCEPT ![r.user] = @ - (IF cached[r.user] THEN 0 ELSE r.change)]
    /\ toLogic' = Tail(toLogic)
    /\ UNCHANGED <<cached, database, toRoom, room, used>>

\* RoomService:GameSettlement.  SaveUserData leaves the objects dirty.  It raises
\* at the first user who has no object: that change and those after it are lost.
GameSettlement ==
    /\ toLogic # <<>>
    /\ LET record == Head(toLogic)
           made   == Made(record, cached)
           users  == {record[n].user : n \in made}
       IN  /\ gold' = [u \in Users |-> gold[u] + ChangeOf(record, u, made)]
           /\ stored' = [u \in Users |-> IF u \in users THEN gold'[u] ELSE stored[u]]
           /\ dirty' = [u \in Users |-> dirty[u] \/ u \in users]
           /\ overwritten' = [u \in Users |-> overwritten[u] /\ u \notin users]
           /\ answers' = Overtaken(answers, users)
           /\ ledger' = [u \in Users |->
                           ledger[u] - ChangeOf(record, u, Entries(record) \ made)]
    /\ toLogic' = Tail(toLogic)
    /\ UNCHANGED <<cached, toRoom, room, used>>

\* OnUserDisconnect, after a disconnect, LOGOUT or a client's own USER_DISCONNECT:
\* ReleaseUserObject.  The room server is not told.
Release(u) ==
    /\ cached[u]
    /\ used.releases < MaxReleases
    /\ cached' = [cached EXCEPT ![u] = FALSE]
    /\ gold' = [gold EXCEPT ![u] = 0] /\ dirty' = [dirty EXCEPT ![u] = FALSE]
    /\ ledger' = [ledger EXCEPT ![u] = @ - gold[u]]
    /\ used' = [used EXCEPT !.releases = @ + 1]
    /\ UNCHANGED <<database, toRoom, toLogic, room>>

\* GetValue of a user who has no object: for ENTER_GAME, or for another user's
\* PassRequest or AddFriend.
GetValue(u, for) ==
    /\ ~cached[u]
    /\ Len(answers) < MaxFetches
    /\ answers' = Append(answers, [user |-> u, for |-> for, gold |-> stored[u], late |-> FALSE])
    /\ UNCHANGED <<logic, stored, overwritten, toRoom, toLogic, room, ledger, used>>

\* OnResponseEnterHallEvent: an object is made of the answer, whatever object the
\* user has by then.
OnResponseEnterHallEvent ==
    /\ answers # <<>> /\ Head(answers).for = "enter"
    /\ \E f \in {Head(answers)} :
         /\ cached' = [cached EXCEPT ![f.user] = TRUE]
         /\ gold' = [gold EXCEPT ![f.user] = f.gold]
         /\ dirty' = [dirty EXCEPT ![f.user] = FALSE]
         /\ ledger' = [ledger EXCEPT ![f.user] = @ + f.gold - gold[f.user]]
         /\ overwritten' = [overwritten EXCEPT ![f.user] = f.late]
    /\ answers' = Tail(answers)
    /\ UNCHANGED <<stored, toRoom, toLogic, room, used>>

\* UserAddFriend and AddFriendRequest on a user who was fetched: the whole copy is
\* saved, unless the connection of who asked has gone.  (The request of who asked
\* ends with a Commit of that user, which is Request.)
FriendAnswer ==
    /\ answers # <<>> /\ Head(answers).for = "friend"
    /\ \E f \in {Head(answers)} :
         \/ /\ stored' = [stored EXCEPT ![f.user] = f.gold]
            /\ overwritten' = [overwritten EXCEPT ![f.user] = @ \/ f.late]
            /\ answers' = Overtaken(Tail(answers), {f.user})
         \/ answers' = Tail(answers) /\ UNCHANGED <<stored, overwritten>>
    /\ UNCHANGED <<logic, toRoom, toLogic, room, ledger, used>>
-----------------------------------------------------------------------------
(* The room server. *)

\* ClientEnterRoom: the copy is made anew and the user sits down at a new table.
\* (SetNewTableAtRoom is called with an unset id: no table is ever listed.)
ClientEnterRoom(deal) ==
    /\ toRoom # <<>>
    /\ LET u     == Head(toRoom).user
           table == [seats |-> <<u>>, stage |-> INIT, bets |-> NoBets, hands |-> deal]
       IN  /\ present' = [present EXCEPT ![u] = TRUE]
           /\ copy' = [copy EXCEPT ![u] = Head(toRoom).gold]
           /\ copyDirty' = [copyDirty EXCEPT ![u] = FALSE]
           /\ tables' = Append(tables, CheckState(table, deal))
           /\ tableOf' = [tableOf EXCEPT ![u] = Len(tables) + 1]
    /\ toRoom' = Tail(toRoom)
    /\ UNCHANGED <<logic, database, toLogic, stuck, ledger, used>>

\* Commit, here of the room server's copy and with the gold the request leaves in it.
RoomCommit(u, isDirty, amount) ==
    /\ copy' = [copy EXCEPT ![u] = amount]
    /\ copyDirty' = [copyDirty EXCEPT ![u] = FALSE]
    /\ IF isDirty THEN Save(u, amount, TRUE) ELSE UNCHANGED database

\* IsBetState and CheckBetOverRange at the user's last table.
MayBet(u, bet) == /\ tables[tableOf[u]].stage = BET
                  /\ CheckBetOverRange(tables[tableOf[u]], u, bet)

\* ClientBet, UserBet and MarkBet.  The request ends with Commit: a copy that a
\* settlement has changed is saved.
ClientBet(u, position, bet) ==
    /\ present[u] /\ tableOf[u] # 0
    /\ used.bets < MaxBets
    /\ LET n     == tableOf[u]
           after == [tables[n].bets[u] EXCEPT ![position] = @ + bet]
       IN  IF position \in Positions /\ MayBet(u, bet)
           THEN /\ tables' = [tables EXCEPT ![n].bets[u] = after]
                /\ ledger' = [ledger EXCEPT ![u] = @ + Change(after, tables[n].hands)
                                                     - Change(tables[n].bets[u], tables[n].hands)]
           ELSE UNCHANGED <<tables, ledger>>
    /\ RoomCommit(u, copyDirty[u], copy[u])
    /\ used' = [used EXCEPT !.bets = @ + 1]
    /\ UNCHANGED <<logic, toRoom, toLogic, present, tableOf, stuck>>

\* A position between 0 and 4 that is no index, as 1.5: MarkBet raises before
\* anything is marked, and the request ends without Commit.
ClientBetRaises(u, bet) ==
    /\ present[u] /\ tableOf[u] # 0
    /\ used.bets < MaxBets
    /\ MayBet(u, bet)
    /\ used' = [used EXCEPT !.bets = @ + 1]
    /\ UNCHANGED <<logic, database, toRoom, toLogic, room, ledger>>

\* The test commands, which the room server has as well.
RoomSetGold(u, amount) ==
    /\ present[u]
    /\ used.changes < MaxChanges
    /\ RoomCommit(u, TRUE, amount)
    /\ used' = [used EXCEPT !.changes = @ + 1]
    /\ UNCHANGED <<logic, toRoom, toLogic, present, tables, tableOf, stuck, ledger>>

\* OnUserDisconnect, on a USER_DISCONNECT that a client sends (Network).  The user
\* stays seated.
RoomRelease(u) ==
    /\ present[u]
    /\ used.releases < MaxReleases
    /\ present' = [present EXCEPT ![u] = FALSE]
    /\ copy' = [copy EXCEPT ![u] = 0] /\ copyDirty' = [copyDirty EXCEPT ![u] = FALSE]
    /\ used' = [used EXCEPT !.releases = @ + 1]
    /\ UNCHANGED <<logic, database, toRoom, toLogic, tables, tableOf, stuck, ledger>>

\* FreeTimerOver
FreeTimerOver(n) ==
    /\ tables[n].stage = FREE
    /\ tables' = [tables EXCEPT ![n].stage = @ + 1]
    /\ UNCHANGED <<logic, database, toRoom, toLogic>>
    /\ UNCHANGED <<present, copy, copyDirty, tableOf, stuck, ledger, used>>

\* BetTimerOver: the copies are settled, and a record goes to the logic server if
\* there is something in it.  When it raises nothing is sent and no timer is set
\* again: the table stays where it is.
BetTimerOver(n) ==
    /\ tables[n].stage = BET /\ n \notin stuck
    /\ LET record == Record(tables[n])
           made   == Made(record, present)
           change(u) == ChangeOf(record, u, made)
       IN  /\ copy' = [u \in Users |-> copy[u] + change(u)]
           /\ copyDirty' = [u \in Users |-> copyDirty[u] \/ change(u) # 0]
           /\ IF made = Entries(record)
              THEN /\ toLogic' = IF made = {} THEN toLogic ELSE Append(toLogic, record)
                   /\ tables' = [tables EXCEPT ![n].stage = @ + 1]
                   /\ UNCHANGED stuck
              ELSE /\ stuck' = stuck \cup {n}
                   /\ UNCHANGED <<toLogic, tables>>
    /\ UNCHANGED <<logic, database, toRoom, present, tableOf, ledger, used>>

SettlementOver(n, deal) ==
    /\ tables[n].stage = SETTLEMENT
    /\ tables' = [tables EXCEPT ![n] = SettlementTimerOver(@, deal)]
    /\ UNCHANGED <<logic, database, toRoom, toLogic>>
    /\ UNCHANGED <<present, copy, copyDirty, tableOf, stuck, ledger, used>>

TimerOver(n) == \/ FreeTimerOver(n)
                \/ BetTimerOver(n)
                \/ \E deal \in Deals : SettlementOver(n, deal)
RoomReads == \E deal \in Deals : ClientEnterRoom(deal)
-----------------------------------------------------------------------------
Next == \/ \E u \in Users :
              \/ EnterRoom(u) \/ BuyRoomCard(u) \/ Request(u) \/ FriendSaves(u)
              \/ Release(u) \/ RoomRelease(u)
              \/ \E amount \in Amounts : SetGold(u, amount) \/ RoomSetGold(u, amount)
              \/ \E for \in {"enter", "friend"} : GetValue(u, for)
              \/ \E b \in Bets : \/ ClientBetRaises(u, b)
                                 \/ \E p \in BetPositions : ClientBet(u, p, b)
        \/ OnResponseEnterHallEvent \/ FriendAnswer \/ GameSettlement
        \/ RoomReads
        \/ \E n \in DOMAIN tables : TimerOver(n)

\* The timers come (TimerWheel) and what is on its way is read.
Spec == /\ Init /\ [][Next]_vars
        /\ WF_vars(GameSettlement) /\ WF_vars(RoomReads)
        /\ \A n \in 1..MaxTables : WF_vars(n \in DOMAIN tables /\ TimerOver(n))
-----------------------------------------------------------------------------
TypeOK ==
    /\ {gold, stored, copy, ledger} \subseteq [Users -> Int]
    /\ {cached, dirty, present, copyDirty, overwritten} \subseteq [Users -> BOOLEAN]
    /\ answers \in Seq([user : Users, for : {"enter", "friend"}, gold : Int, late : BOOLEAN])
    /\ toRoom \in Seq([user : Users, gold : Int])
    /\ toLogic \in Seq(Seq([user : Users, change : Int]))
    /\ tables \in Seq([seats : Seq(Users), stage : INIT..SETTLEMENT,
                       bets : [Users -> [Positions -> Nat]], hands : Deals])
    /\ \A n \in DOMAIN tables : IsInjective(tables[n].seats)
    /\ tableOf \in [Users -> 0..Len(tables)] /\ stuck \subseteq DOMAIN tables
    /\ used \in [bets : Nat, changes : Nat, releases : Nat]

\* What numbers come to: the running sums, and the last of them.
Sums(s) == LET sum[k \in 0..Len(s)] == IF k = 0 THEN 0 ELSE sum[k - 1] + s[k] IN sum
Total(s) == Sums(s)[Len(s)]

\* What the bets being taken will come to, and the changes on their way.
Outcome(table, u) == IF table.stage = BET THEN Change(table.bets[u], table.hands) ELSE 0
Outcomes(ts, u)     == [n \in DOMAIN ts |-> Outcome(ts[n], u)]
Changes(records, u) == [m \in DOMAIN records |-> ChangeOf(records[m], u, Entries(records[m]))]
Pending(u)          == Total(Outcomes(tables, u))
InFlight(u)         == Total(Changes(toLogic, u))

\* A bet that is taken changes the user's gold once, by what the hands dealt
\* before it say, whatever purchases, other requests, releases and answers do to
\* the gold in between: until then the change is pending at a table (for ever, if
\* the table is stuck) or on its way.  The ledger has what those requests make of
\* the gold, and what an exchange of the object makes of it: a release takes it
\* away (without an object it is 0), an answer brings back what was read, and a
\* change that arrives when there is no object is lost.
GoldIsAccountedFor ==
    \A u \in Users : gold[u] + Pending(u) + InFlight(u) = ledger[u]

\* The database has the gold of the logic server's object, through overlapping
\* fetches, friends' saves and settlements, unless the room server has saved its
\* copy since, or an answer that a save has overtaken was cached or saved.
StoredUnlessOverwritten ==
    \A u \in Users : cached[u] /\ ~overwritten[u] => stored[u] = gold[u]

\* Every bet is settled, and every settlement comes to the logic server, unless
\* the settlement meets a user whom the room server has released.
EveryBetIsPaid ==
    <>[](toLogic = <<>> /\ \A n \in DOMAIN tables : tables[n].bets = NoBets \/ n \in stuck)
=============================================================================
