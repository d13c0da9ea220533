-------------------------- MODULE RoomTableProofs --------------------------
(***************************************************************************)
(* The types of RoomTable, that the gold of the logic server's object is   *)
(* what the database has unless another copy was saved or read, and that   *)
(* the gold is accounted for.  The first part is about types and the       *)
(* database, the second about sums, the third about the bets of tables and *)
(* records and the ledger.                                                 *)
(***************************************************************************)
EXTENDS RoomTable, SequenceTheorems, TLAPS

Entry == [user : Users, change : Int]
Asked == [user : Users, gold : Int]
Answer == [user : Users, for : {"enter", "friend"}, gold : Int, late : BOOLEAN]
Table == [seats : Seq(Users), stage : INIT..SETTLEMENT,
          bets : [Users -> [Positions -> Nat]], hands : Deals]

-----------------------------------------------------------------------------
(* Tables and records. *)

\* What a round comes to is a number.
LEMMA ChangeIsInt ==
    ASSUME NEW bets \in [Positions -> Nat], NEW hands
    PROVE  Change(bets, hands) \in Int
<1>1. Commission \in Nat
  BY RoomAssumption
<1>2. \A a \in Nat : a \in Int /\ -a \in Int /\ a - (a * Commission) \div 100 \in Int
  <2> SUFFICES ASSUME NEW a \in Nat PROVE a - (a * Commission) \div 100 \in Int
    OBVIOUS
  <2>1. a * Commission \in Nat
    BY <1>1
  <2> QED BY <2>1
<1>3. \A p \in Positions : bets[p] \in Nat
  OBVIOUS
<1> DEFINE result(p) == IF Wins[hands][p] THEN bets[p] - (bets[p] * Commission) \div 100
                        ELSE -bets[p]
<1>4. \A p \in Positions : result(p) \in Int
  <2> TAKE p \in Positions
  <2> PICK a \in Nat : a = bets[p]
    BY <1>3
  <2> PICK w : w = Wins[hands][p]
    OBVIOUS
  <2>1. result(p) = IF w THEN a - (a * Commission) \div 100 ELSE -a
    BY Zenon
  <2> QED BY <1>2, <2>1
<1>5. 1 \in Positions /\ 2 \in Positions /\ 3 \in Positions /\ 4 \in Positions
  BY DEF Positions
<1>6. Change(bets, hands) = result(1) + result(2) + result(3) + result(4)
  BY DEF Change
<1> HIDE DEF result
<1> QED BY <1>4, <1>5, <1>6

\* The record of a table is a sequence of entries.
LEMMA RecordType ==
    ASSUME NEW table \in Table
    PROVE  Record(table) \in Seq(Entry)
<1>1. /\ table.seats \in Seq(Users) /\ table.bets \in [Users -> [Positions -> Nat]]
  BY DEF Table
<1> PICK seats, bets, hands : seats = table.seats /\ bets = table.bets /\ hands = table.hands
  OBVIOUS
<1>2. seats \in [1..Len(seats) -> Users] /\ Len(seats) \in Nat /\ DOMAIN seats = 1..Len(seats)
  BY <1>1
<1>3. Record(table) = [n \in 1..Len(seats) |->
                         [user |-> seats[n], change |-> Change(bets[seats[n]], hands)]]
  BY <1>2 DEF Record
<1>4. ASSUME NEW n \in 1..Len(seats)
      PROVE  [user |-> seats[n], change |-> Change(bets[seats[n]], hands)] \in Entry
  <2>1. seats[n] \in Users /\ bets[seats[n]] \in [Positions -> Nat]
    BY <1>1, <1>2
  <2>2. Change(bets[seats[n]], hands) \in Int
    BY <2>1, ChangeIsInt
  <2> QED BY <2>1, <2>2 DEF Entry
<1>5. Record(table) \in [1..Len(seats) -> Entry]
  BY <1>3, <1>4
<1> QED BY <1>2, <1>5, SeqDef

\* An entry changes a user by a number, no entry by nothing.
LEMMA ChangeOfEntries ==
    ASSUME NEW record \in Seq(Entry), NEW ns \in SUBSET DOMAIN record, NEW u
    PROVE  /\ ChangeOf(record, u, ns) \in Int
           /\ u \notin {record[n].user : n \in ns} => ChangeOf(record, u, ns) = 0
<1>1. \A n \in ns : record[n].change \in Int
  <2> TAKE n \in ns
  <2>1. record[n] \in Entry
    OBVIOUS
  <2> QED BY <2>1 DEF Entry
<1>2. CASE \E n \in ns : record[n].user = u
  <2> PICK m : m = CHOOSE n \in ns : record[n].user = u
    OBVIOUS
  <2>1. m \in ns
    BY <1>2
  <2>2. ChangeOf(record, u, ns) = record[m].change
    BY <1>2 DEF ChangeOf
  <2>3. u \in {record[n].user : n \in ns}
    BY <1>2
  <2> QED BY <1>1, <2>1, <2>2, <2>3
<1>3. CASE ~ \E n \in ns : record[n].user = u
  <2>1. ChangeOf(record, u, ns) = 0
    BY <1>3 DEF ChangeOf
  <2> QED BY <2>1
<1> QED BY <1>2, <1>3

\* One table changes, the others stay.
LEMMA PutTable ==
    ASSUME NEW ts \in Seq(Table), NEW n \in DOMAIN ts, NEW t \in Table,
           NEW ts2, ts2 = [ts EXCEPT ![n] = t],
           \A k \in DOMAIN ts : IsInjective(ts[k].seats), IsInjective(t.seats)
    PROVE  /\ ts2 \in Seq(Table) /\ Len(ts2) = Len(ts)
           /\ \A k \in DOMAIN ts2 : IsInjective(ts2[k].seats)
<1>1. n \in 1..Len(ts) /\ DOMAIN ts = 1..Len(ts)
  OBVIOUS
<1>2. ts2 \in Seq(Table) /\ Len(ts2) = Len(ts) /\ DOMAIN ts2 = 1..Len(ts)
  BY <1>1
<1>3. \A k \in 1..Len(ts) : ts2[k] = IF k = n THEN t ELSE ts[k]
  BY <1>1
<1> QED BY <1>1, <1>2, <1>3

\* A table, field by field.
LEMMA TableParts ==
    ASSUME NEW table \in Table
    PROVE  \E seats, stage, bets, hands :
             /\ table = [seats |-> seats, stage |-> stage, bets |-> bets, hands |-> hands]
             /\ seats \in Seq(Users) /\ stage \in INIT..SETTLEMENT
             /\ bets \in [Users -> [Positions -> Nat]] /\ hands \in Deals
  BY Zenon DEF Table

LEMMA TableOf ==
    ASSUME NEW seats, NEW stage, NEW bets, NEW hands,
           seats \in Seq(Users), stage \in INIT..SETTLEMENT,
           bets \in [Users -> [Positions -> Nat]], hands \in Deals
    PROVE  [seats |-> seats, stage |-> stage, bets |-> bets, hands |-> hands] \in Table
  BY Zenon DEF Table

\* A table whose stage goes on.
LEMMA StageType ==
    ASSUME NEW table \in Table, NEW stage \in INIT..SETTLEMENT
    PROVE  /\ [table EXCEPT !.stage = stage] \in Table
           /\ [table EXCEPT !.stage = stage].seats = table.seats
<1> PICK seats, old, bets, hands :
      /\ table = [seats |-> seats, stage |-> old, bets |-> bets, hands |-> hands]
      /\ seats \in Seq(Users) /\ old \in INIT..SETTLEMENT
      /\ bets \in [Users -> [Positions -> Nat]] /\ hands \in Deals
  BY TableParts
<1>1. [table EXCEPT !.stage = stage] =
        [seats |-> seats, stage |-> stage, bets |-> bets, hands |-> hands]
  OBVIOUS
<1> QED BY <1>1, TableOf

\* A table whose round begins or ends.
LEMMA InitGameType ==
    ASSUME NEW table \in Table, table.stage = INIT, NEW deal \in Deals
    PROVE  InitGame(table, deal) \in Table /\ InitGame(table, deal).seats = table.seats
<1> PICK seats, stage, bets, hands :
      /\ table = [seats |-> seats, stage |-> stage, bets |-> bets, hands |-> hands]
      /\ seats \in Seq(Users) /\ stage \in INIT..SETTLEMENT
      /\ bets \in [Users -> [Positions -> Nat]] /\ hands \in Deals
  BY TableParts
<1>1. stage + 1 \in INIT..SETTLEMENT
  BY DEF INIT, SETTLEMENT
<1>2. NoBets \in [Users -> [Positions -> Nat]]
  BY DEF NoBets
<1> PICK next : next = table.stage + 1
  OBVIOUS
<1> PICK t1 : t1 = [table EXCEPT !.stage = next]
  OBVIOUS
<1> PICK t2 : t2 = [t1 EXCEPT !.bets = NoBets]
  OBVIOUS
<1> PICK t3 : t3 = [t2 EXCEPT !.hands = deal]
  OBVIOUS
<1>3. t1 = [seats |-> seats, stage |-> next, bets |-> bets, hands |-> hands]
  OBVIOUS
<1>4. t2 = [seats |-> seats, stage |-> next, bets |-> NoBets, hands |-> hands]
  BY <1>3
<1>5. t3 = [seats |-> seats, stage |-> next, bets |-> NoBets, hands |-> deal]
  BY <1>4
<1>6. InitGame(table, deal) = t3
  BY DEF InitGame
<1>7. next = stage + 1 /\ table.seats = seats
  OBVIOUS
<1>8. next \in INIT..SETTLEMENT
  BY <1>1, <1>7, Zenon
<1>9. [seats |-> seats, stage |-> next, bets |-> NoBets, hands |-> deal] \in Table
  BY <1>2, <1>8, TableOf, Zenon
<1>10. t3.seats = seats
  BY <1>5
<1> QED BY <1>5, <1>6, <1>7, <1>9, <1>10, Zenon

LEMMA CheckStateType ==
    ASSUME NEW table \in Table, NEW deal \in Deals
    PROVE  CheckState(table, deal) \in Table /\ CheckState(table, deal).seats = table.seats
  BY InitGameType DEF CheckState

LEMMA SettlementTimerOverType ==
    ASSUME NEW table \in Table, NEW deal \in Deals
    PROVE  /\ SettlementTimerOver(table, deal) \in Table
           /\ SettlementTimerOver(table, deal).seats = table.seats
<1> PICK t : t = [table EXCEPT !.stage = INIT]
  OBVIOUS
<1>1. INIT \in INIT..SETTLEMENT
  BY DEF INIT, SETTLEMENT
<1>2. t \in Table /\ t.seats = table.seats
  BY <1>1, StageType
<1> QED BY <1>2, CheckStateType DEF SettlementTimerOver
-----------------------------------------------------------------------------
(* The invariant: types, and the database.  The gold of an answer that no save
   has overtaken is still the one in the database. *)

GoldTypes ==
    /\ gold \in [Users -> Int] /\ stored \in [Users -> Int]
    /\ copy \in [Users -> Int] /\ ledger \in [Users -> Int]

FlagTypes ==
    /\ cached \in [Users -> BOOLEAN] /\ dirty \in [Users -> BOOLEAN]
    /\ present \in [Users -> BOOLEAN] /\ copyDirty \in [Users -> BOOLEAN]
    /\ overwritten \in [Users -> BOOLEAN]

MessageTypes == toRoom \in Seq(Asked) /\ toLogic \in Seq(Seq(Entry))

TableTypes ==
    /\ tables \in Seq(Table)
    /\ \A n \in DOMAIN tables : IsInjective(tables[n].seats)
    /\ tableOf \in [Users -> 0..Len(tables)] /\ stuck \subseteq DOMAIN tables

UsedTypes == used \in [bets : Nat, changes : Nat, releases : Nat]

IsCurrent(queue, store) ==
    \A n \in DOMAIN queue : queue[n].late \/ queue[n].gold = store[queue[n].user]

DatabaseInv ==
    /\ answers \in Seq(Answer)
    /\ IsCurrent(answers, stored) /\ StoredUnlessOverwritten

RoomInv == GoldTypes /\ FlagTypes /\ MessageTypes /\ TableTypes /\ UsedTypes /\ DatabaseInv

LEMMA TypesAreTypeOK ==
    TypeOK <=> GoldTypes /\ FlagTypes /\ MessageTypes /\ TableTypes /\ UsedTypes
                 /\ answers \in Seq(Answer)
  BY Zenon DEF TypeOK, GoldTypes, FlagTypes, MessageTypes, TableTypes, UsedTypes, Entry, Asked,
               Answer, Table
-----------------------------------------------------------------------------
(* The database. *)

LEMMA LateAnswer ==
    ASSUME NEW f \in Answer, NEW late \in BOOLEAN
    PROVE  /\ [f EXCEPT !.late = late] \in Answer
           /\ [f EXCEPT !.late = late].user = f.user /\ [f EXCEPT !.late = late].gold = f.gold
           /\ [f EXCEPT !.late = late].late = late
<1>1. [f EXCEPT !.late = late] \in Answer
  BY Zenon DEF Answer
<1>2. /\ [f EXCEPT !.late = late].user = f.user /\ [f EXCEPT !.late = late].gold = f.gold
      /\ [f EXCEPT !.late = late].late = late
  BY Zenon DEF Answer
<1> QED BY <1>1, <1>2, Zenon

\* A save makes the answers of the users late that it may put out of date.
LEMMA OvertakenIsCurrent ==
    ASSUME NEW queue \in Seq(Answer), NEW users, NEW store, NEW store2,
           IsCurrent(queue, store), \A u \in Users : u \notin users => store2[u] = store[u]
    PROVE  Overtaken(queue, users) \in Seq(Answer) /\ IsCurrent(Overtaken(queue, users), store2)
<1> PICK queue2 : queue2 = Overtaken(queue, users)
  OBVIOUS
<1>1. DOMAIN queue = 1..Len(queue) /\ Len(queue) \in Nat
  OBVIOUS
<1>2. queue2 = [n \in 1..Len(queue) |->
                  [queue[n] EXCEPT !.late = queue[n].late \/ queue[n].user \in users]]
  BY <1>1 DEF Overtaken
<1>3. ASSUME NEW n \in 1..Len(queue)
      PROVE  /\ queue2[n] \in Answer
             /\ queue2[n].late \/ queue2[n].gold = store2[queue2[n].user]
  <2> PICK f : f = queue[n]
    OBVIOUS
  <2>1. f \in Answer
    BY <1>1
  <2> PICK late : late = (f.late \/ f.user \in users)
    OBVIOUS
  <2>2. late \in BOOLEAN
    BY Zenon
  <2>3. queue2[n] = [f EXCEPT !.late = late]
    BY <1>2
  <2>4. /\ queue2[n] \in Answer /\ queue2[n].user = f.user /\ queue2[n].gold = f.gold
        /\ queue2[n].late = late
    BY <2>1, <2>2, <2>3, LateAnswer, Zenon
  <2>5. f.user \in Users
    BY <2>1 DEF Answer
  <2>6. f.late \/ f.gold = store[f.user]
    BY <1>1 DEF IsCurrent
  <2>7. late \/ f.gold = store2[f.user]
    BY <2>5, <2>6, Zenon
  <2> QED BY <2>4, <2>7, Zenon
<1>4. queue2 \in [1..Len(queue) -> Answer]
  BY <1>2, <1>3
<1>5. queue2 \in Seq(Answer) /\ DOMAIN queue2 = 1..Len(queue)
  BY <1>1, <1>4, SeqDef
<1> QED BY <1>3, <1>5 DEF IsCurrent

\* An answer has been handled.
LEMMA TailIsCurrent ==
    ASSUME NEW queue \in Seq(Answer), queue # <<>>, NEW store, IsCurrent(queue, store)
    PROVE  /\ Head(queue) \in Answer
           /\ Head(queue).late \/ Head(queue).gold = store[Head(queue).user]
           /\ Tail(queue) \in Seq(Answer) /\ IsCurrent(Tail(queue), store)
<1> PICK rest : rest = Tail(queue)
  OBVIOUS
<1>1. /\ Head(queue) \in Answer /\ rest \in Seq(Answer) /\ Head(queue) = queue[1]
      /\ Len(queue) \in Nat /\ Len(rest) = Len(queue) - 1 /\ 1 \in DOMAIN queue
      /\ \A n \in 1..Len(rest) : rest[n] = queue[n + 1]
  BY HeadTailProperties
<1>2. IsCurrent(rest, store)
  <2> SUFFICES ASSUME NEW n \in DOMAIN rest
               PROVE  rest[n].late \/ rest[n].gold = store[rest[n].user]
    BY DEF IsCurrent
  <2>1. n + 1 \in DOMAIN queue /\ rest[n] = queue[n + 1]
    BY <1>1
  <2> QED BY <2>1 DEF IsCurrent
<1> QED BY <1>1, <1>2 DEF IsCurrent

\* SetValue of one user's data.
LEMMA SaveKeeps ==
    ASSUME DatabaseInv, stored \in [Users -> Int], overwritten \in [Users -> BOOLEAN],
           NEW u \in Users, NEW amount \in Int, NEW another \in BOOLEAN,
           Save(u, amount, another), cached' = cached,
           \A v \in Users : v # u => gold'[v] = gold[v],
           another \/ gold'[u] = amount
    PROVE  stored' \in [Users -> Int] /\ overwritten' \in [Users -> BOOLEAN] /\ DatabaseInv'
<1>1. /\ stored' = [stored EXCEPT ![u] = amount]
      /\ overwritten' = [overwritten EXCEPT ![u] = another]
      /\ answers' = Overtaken(answers, {u})
  BY DEF Save
<1>2. stored' \in [Users -> Int] /\ overwritten' \in [Users -> BOOLEAN]
  BY <1>1
<1>3. \A v \in Users : v \notin {u} => stored'[v] = stored[v]
  BY <1>1
<1>4. answers' \in Seq(Answer) /\ IsCurrent(answers', stored')
  BY <1>1, <1>3, OvertakenIsCurrent DEF DatabaseInv
<1>5. ASSUME NEW v \in Users, cached'[v], ~overwritten'[v] PROVE stored'[v] = gold'[v]
  <2>1. CASE v = u
    BY <1>1, <1>5, <2>1
  <2>2. CASE v # u
    <3>1. stored'[v] = stored[v] /\ gold'[v] = gold[v] /\ overwritten'[v] = overwritten[v]
      BY <1>1, <2>2
    <3> QED BY <1>5, <3>1 DEF DatabaseInv, StoredUnlessOverwritten
  <2> QED BY <2>1, <2>2
<1>6. StoredUnlessOverwritten'
  BY <1>5 DEF StoredUnlessOverwritten
<1>7. DatabaseInv'
  BY <1>4, <1>6 DEF DatabaseInv, IsCurrent
<1> QED BY <1>2, <1>7
-----------------------------------------------------------------------------
(* The logic server. *)

\* UserManager:Commit saves what is dirty, and what is not dirty is unchanged.
LEMMA CommitKeeps ==
    ASSUME GoldTypes, FlagTypes, DatabaseInv,
           NEW u \in Users, NEW isDirty \in BOOLEAN, NEW amount \in Int,
           ~isDirty => amount = gold[u],
           Commit(u, isDirty, amount), cached' = cached
    PROVE  /\ gold' \in [Users -> Int] /\ stored' \in [Users -> Int]
           /\ dirty' \in [Users -> BOOLEAN] /\ overwritten' \in [Users -> BOOLEAN]
           /\ DatabaseInv'
<1>1. /\ gold' = [gold EXCEPT ![u] = amount]
      /\ dirty' = [dirty EXCEPT ![u] = FALSE]
      /\ IF isDirty THEN Save(u, amount, FALSE)
         ELSE stored' = stored /\ answers' = answers /\ overwritten' = overwritten
  BY DEF Commit, database
<1>t. /\ gold \in [Users -> Int] /\ stored \in [Users -> Int]
      /\ dirty \in [Users -> BOOLEAN] /\ overwritten \in [Users -> BOOLEAN]
  BY DEF GoldTypes, FlagTypes
<1>2. gold' \in [Users -> Int] /\ dirty' \in [Users -> BOOLEAN]
  BY <1>1, <1>t
<1>3. CASE isDirty
  <2>1. Save(u, amount, FALSE)
    BY <1>1, <1>3
  <2>2. gold'[u] = amount /\ \A v \in Users : v # u => gold'[v] = gold[v]
    BY <1>1, <1>t
  <2>3. FALSE \in BOOLEAN
    OBVIOUS
  <2> QED BY <1>2, <1>t, <2>1, <2>2, <2>3, SaveKeeps
<1>4. CASE ~isDirty
  <2>1. stored' = stored /\ answers' = answers /\ overwritten' = overwritten /\ amount = gold[u]
    BY <1>1, <1>4
  <2>2. gold' = gold
    BY <1>1, <1>t, <2>1
  <2> QED BY <1>2, <1>t, <2>1, <2>2 DEF DatabaseInv, IsCurrent, StoredUnlessOverwritten
<1> QED BY <1>3, <1>4

LEMMA EnterRoomKeeps ==
    ASSUME RoomInv, NEW u \in Users, EnterRoom(u)
    PROVE  RoomInv'
<1> USE DEF RoomInv
<1>1. /\ UNCHANGED <<cached, toLogic, present, copy, copyDirty, tables, tableOf, stuck, ledger, used>>
      /\ Commit(u, dirty[u], gold[u])
      /\ toRoom' = IF gold[u] >= EnterMin /\ gold[u] < EnterMax
                   THEN Append(toRoom, [user |-> u, gold |-> gold[u]]) ELSE toRoom
  BY DEF EnterRoom, room
<1>2. gold[u] \in Int
  BY DEF GoldTypes
<1>3. dirty[u] \in BOOLEAN
  BY DEF FlagTypes
<1>4. /\ gold' \in [Users -> Int] /\ stored' \in [Users -> Int]
      /\ dirty' \in [Users -> BOOLEAN] /\ overwritten' \in [Users -> BOOLEAN]
      /\ DatabaseInv'
  BY <1>1, <1>2, <1>3, CommitKeeps
<1>5. GoldTypes' /\ FlagTypes'
  BY <1>1, <1>4 DEF GoldTypes, FlagTypes
<1>6. MessageTypes'
  <2>1. [user |-> u, gold |-> gold[u]] \in Asked
    BY <1>2 DEF Asked
  <2>2. toRoom' \in Seq(Asked)
    BY <1>1, <2>1, AppendProperties DEF MessageTypes
  <2> QED BY <1>1, <2>2 DEF MessageTypes
<1>7. TableTypes' /\ UsedTypes'
  BY <1>1 DEF TableTypes, UsedTypes
<1> QED BY <1>4, <1>5, <1>6, <1>7

\* A request that leaves any gold in the object it saves.
LEMMA SetsGold ==
    ASSUME RoomInv, NEW u \in Users, NEW amount \in Int, Commit(u, TRUE, amount),
           ledger' = [ledger EXCEPT ![u] = @ + amount - gold[u]],
           used' = [used EXCEPT !.changes = @ + 1],
           UNCHANGED <<cached, toRoom, toLogic, room>>
    PROVE  RoomInv'
<1> USE DEF RoomInv
<1>1. UNCHANGED <<cached, toRoom, toLogic, present, copy, copyDirty, tables, tableOf, stuck>>
  BY DEF room
<1>2. TRUE \in BOOLEAN
  OBVIOUS
<1>3. /\ gold' \in [Users -> Int] /\ stored' \in [Users -> Int]
      /\ dirty' \in [Users -> BOOLEAN] /\ overwritten' \in [Users -> BOOLEAN]
      /\ DatabaseInv'
  BY <1>1, <1>2, CommitKeeps
<1>4. ledger' \in [Users -> Int]
  <2>1. ledger[u] + amount - gold[u] \in Int
    BY DEF GoldTypes
  <2> QED BY <2>1 DEF GoldTypes
<1>5. GoldTypes' /\ FlagTypes'
  BY <1>1, <1>3, <1>4 DEF GoldTypes, FlagTypes
<1>6. MessageTypes' /\ TableTypes'
  BY <1>1 DEF MessageTypes, TableTypes
<1>7. UsedTypes'
  BY DEF UsedTypes
<1> QED BY <1>3, <1>5, <1>6, <1>7

\* A request that leaves the gold as it is.
LEMMA LeavesGold ==
    ASSUME RoomInv, NEW u \in Users, NEW isDirty \in BOOLEAN, Commit(u, isDirty, gold[u]),
           used' = used \/ used' = [used EXCEPT !.changes = @ + 1],
           UNCHANGED <<cached, toRoom, toLogic, room, ledger>>
    PROVE  RoomInv'
<1> USE DEF RoomInv
<1>1. UNCHANGED <<cached, toRoom, toLogic, present, copy, copyDirty, tables, tableOf, stuck, ledger>>
  BY DEF room
<1>2. gold[u] \in Int
  BY DEF GoldTypes
<1>3. /\ gold' \in [Users -> Int] /\ stored' \in [Users -> Int]
      /\ dirty' \in [Users -> BOOLEAN] /\ overwritten' \in [Users -> BOOLEAN]
      /\ DatabaseInv'
  BY <1>1, <1>2, CommitKeeps
<1>4. GoldTypes' /\ FlagTypes'
  BY <1>1, <1>3 DEF GoldTypes, FlagTypes
<1>5. MessageTypes' /\ TableTypes'
  BY <1>1 DEF MessageTypes, TableTypes
<1>6. UsedTypes'
  BY DEF UsedTypes
<1> QED BY <1>3, <1>4, <1>5, <1>6

LEMMA BuyRoomCardKeeps ==
    ASSUME RoomInv, NEW u \in Users, BuyRoomCard(u)
    PROVE  RoomInv'
<1>1. UNCHANGED <<cached, toRoom, toLogic, room>> /\ used' = [used EXCEPT !.changes = @ + 1]
  BY DEF BuyRoomCard
<1>2. gold[u] \in Int /\ ledger[u] \in Int /\ Price \in Nat
  BY RoomAssumption DEF RoomInv, GoldTypes
<1>3. dirty[u] \in BOOLEAN
  BY DEF RoomInv, FlagTypes
<1>4. CASE Price <= gold[u]
  <2> PICK amount \in Int : amount = gold[u] - Price
    BY <1>2
  <2>1. Commit(u, TRUE, amount) /\ ledger' = [ledger EXCEPT ![u] = @ - Price]
    BY <1>4 DEF BuyRoomCard
  <2>2. ledger[u] - Price = ledger[u] + amount - gold[u]
    BY <1>2
  <2>3. ledger' = [ledger EXCEPT ![u] = @ + amount - gold[u]]
    BY <2>1, <2>2
  <2> QED BY <1>1, <2>1, <2>3, SetsGold
<1>5. CASE ~(Price <= gold[u])
  <2>1. Commit(u, dirty[u], gold[u]) /\ ledger' = ledger
    BY <1>5 DEF BuyRoomCard
  <2> QED BY <1>1, <1>3, <2>1, LeavesGold
<1> QED BY <1>4, <1>5

LEMMA SetGoldKeeps ==
    ASSUME RoomInv, NEW u \in Users, NEW amount \in Amounts, SetGold(u, amount)
    PROVE  RoomInv'
<1>1. amount \in Int
  BY RoomAssumption
<1> QED BY <1>1, SetsGold DEF SetGold

LEMMA RequestKeeps ==
    ASSUME RoomInv, NEW u \in Users, Request(u)
    PROVE  RoomInv'
<1> PICK isDirty \in {dirty[u], TRUE} : Commit(u, isDirty, gold[u])
  BY DEF Request
<1>1. isDirty \in BOOLEAN
  <2>1. dirty[u] \in BOOLEAN
    BY DEF RoomInv, FlagTypes
  <2> QED BY <2>1
<1> QED BY <1>1, LeavesGold DEF Request

\* UserAddFriend and AddFriendRequest of a user who has an object.
LEMMA FriendSavesKeeps ==
    ASSUME RoomInv, NEW u \in Users, FriendSaves(u)
    PROVE  RoomInv'
<1> USE DEF RoomInv
<1>1. /\ UNCHANGED <<gold, cached, toRoom, toLogic, present, copy, copyDirty>>
      /\ UNCHANGED <<tables, tableOf, stuck, ledger, used>>
      /\ Save(u, gold[u], FALSE) /\ dirty' = [dirty EXCEPT ![u] = TRUE]
  BY DEF FriendSaves, room
<1>2. gold[u] \in Int /\ FALSE \in BOOLEAN
  BY DEF GoldTypes
<1>3. stored' \in [Users -> Int] /\ overwritten' \in [Users -> BOOLEAN] /\ DatabaseInv'
  BY <1>1, <1>2, SaveKeeps DEF GoldTypes, FlagTypes
<1>4. GoldTypes' /\ FlagTypes'
  BY <1>1, <1>3 DEF GoldTypes, FlagTypes
<1>5. MessageTypes' /\ TableTypes' /\ UsedTypes'
  BY <1>1 DEF MessageTypes, TableTypes, UsedTypes
<1> QED BY <1>3, <1>4, <1>5

\* RoomService:GameSettlement saves the users it changes.
LEMMA GameSettlementKeeps ==
    ASSUME RoomInv, GameSettlement
    PROVE  RoomInv'
<1> USE DEF RoomInv
<1> PICK record : record = Head(toLogic)
  OBVIOUS
<1> PICK made : made = Made(record, cached)
  OBVIOUS
<1> PICK users : users = {record[n].user : n \in made}
  OBVIOUS
<1>1. /\ UNCHANGED <<cached, toRoom, present, copy, copyDirty, tables, tableOf, stuck, used>>
      /\ toLogic # <<>> /\ toLogic' = Tail(toLogic)
  BY DEF GameSettlement, room
<1>2. /\ gold' = [u \in Users |-> gold[u] + ChangeOf(record, u, made)]
      /\ stored' = [u \in Users |-> IF u \in users THEN gold'[u] ELSE stored[u]]
      /\ dirty' = [u \in Users |-> dirty[u] \/ u \in users]
      /\ overwritten' = [u \in Users |-> overwritten[u] /\ u \notin users]
      /\ answers' = Overtaken(answers, users)
      /\ ledger' = [u \in Users |->
                     ledger[u] - ChangeOf(record, u, Entries(record) \ made)]
  BY DEF GameSettlement
<1>3. record \in Seq(Entry) /\ toLogic' \in Seq(Seq(Entry))
  BY <1>1, HeadTailProperties DEF MessageTypes
<1>4. made \in SUBSET DOMAIN record /\ Entries(record) \ made \in SUBSET DOMAIN record
  BY DEF Entries, Made
<1>5. ASSUME NEW u \in Users
      PROVE  /\ ChangeOf(record, u, made) \in Int
             /\ u \notin users => ChangeOf(record, u, made) = 0
             /\ ChangeOf(record, u, Entries(record) \ made) \in Int
  BY <1>3, <1>4, ChangeOfEntries
<1>6. gold' \in [Users -> Int] /\ ledger' \in [Users -> Int]
  <2>1. \A a \in Int, b \in Int : a + b \in Int /\ a - b \in Int
    OBVIOUS
  <2>2. ASSUME NEW u \in Users
        PROVE  /\ gold[u] + ChangeOf(record, u, made) \in Int
               /\ ledger[u] - ChangeOf(record, u, Entries(record) \ made) \in Int
    <3>1. gold[u] \in Int /\ ledger[u] \in Int
      BY DEF GoldTypes
    <3> QED BY <1>5, <2>1, <3>1, Zenon
  <2> QED BY <1>2, <2>2
<1>7. stored' \in [Users -> Int]
  <2>1. \A u \in Users : gold'[u] \in Int /\ stored[u] \in Int
    BY <1>6 DEF GoldTypes
  <2> QED BY <1>2, <2>1
<1>8. dirty' \in [Users -> BOOLEAN] /\ overwritten' \in [Users -> BOOLEAN]
  BY <1>2
<1>9. StoredUnlessOverwritten'
  <2> SUFFICES ASSUME NEW u \in Users, cached'[u], ~overwritten'[u]
               PROVE  stored'[u] = gold'[u]
    BY DEF StoredUnlessOverwritten
  <2>1. CASE u \in users
    BY <1>2, <2>1
  <2>2. CASE u \notin users
    <3>1. ChangeOf(record, u, made) = 0 /\ gold[u] \in Int
      BY <1>5, <2>2 DEF GoldTypes
    <3>2. gold'[u] = gold[u] /\ stored'[u] = stored[u]
      <4>1. gold'[u] = gold[u] + ChangeOf(record, u, made) /\ stored'[u] = stored[u]
        BY <1>2, <2>2, Zenon
      <4> QED BY <3>1, <4>1
    <3>3. cached[u] /\ ~overwritten[u]
      BY <1>1, <1>2, <2>2, Zenon
    <3> QED BY <3>2, <3>3 DEF DatabaseInv, StoredUnlessOverwritten
  <2> QED BY <2>1, <2>2
<1>d. DatabaseInv'
  <2>1. \A u \in Users : u \notin users => stored'[u] = stored[u]
    BY <1>2
  <2>2. answers' \in Seq(Answer) /\ IsCurrent(answers', stored')
    BY <1>2, <2>1, OvertakenIsCurrent DEF DatabaseInv
  <2> QED BY <1>9, <2>2 DEF DatabaseInv, IsCurrent
<1>10. GoldTypes' /\ FlagTypes'
  BY <1>1, <1>6, <1>7, <1>8 DEF GoldTypes, FlagTypes
<1>11. MessageTypes' /\ TableTypes' /\ UsedTypes'
  BY <1>1, <1>3 DEF MessageTypes, TableTypes, UsedTypes
<1> QED BY <1>d, <1>10, <1>11

LEMMA ReleaseKeeps ==
    ASSUME RoomInv, NEW u \in Users, Release(u)
    PROVE  RoomInv'
<1> USE DEF RoomInv
<1>1. /\ UNCHANGED <<stored, answers, overwritten, toRoom, toLogic, present, copy, copyDirty>>
      /\ UNCHANGED <<tables, tableOf, stuck>>
      /\ cached' = [cached EXCEPT ![u] = FALSE]
      /\ gold' = [gold EXCEPT ![u] = 0] /\ dirty' = [dirty EXCEPT ![u] = FALSE]
      /\ ledger' = [ledger EXCEPT ![u] = @ - gold[u]]
      /\ used' = [used EXCEPT !.releases = @ + 1]
  BY DEF Release, room, database
<1>2. gold[u] \in Int /\ ledger[u] \in Int
  BY DEF GoldTypes
<1>3. GoldTypes'
  BY <1>1, <1>2 DEF GoldTypes
<1>4. FlagTypes'
  BY <1>1 DEF FlagTypes
<1>5. MessageTypes' /\ TableTypes'
  BY <1>1 DEF MessageTypes, TableTypes
<1>6. UsedTypes'
  BY <1>1 DEF UsedTypes
<1>7. StoredUnlessOverwritten'
  <2> SUFFICES ASSUME NEW v \in Users, cached'[v], ~overwritten'[v]
               PROVE  stored'[v] = gold'[v]
    BY DEF StoredUnlessOverwritten
  <2>1. v # u
    BY <1>1 DEF FlagTypes
  <2>2. cached[v] /\ gold'[v] = gold[v]
    BY <1>1, <2>1 DEF FlagTypes, GoldTypes
  <2> QED BY <1>1, <2>2 DEF DatabaseInv, StoredUnlessOverwritten
<1>8. DatabaseInv'
  BY <1>1, <1>7 DEF DatabaseInv, IsCurrent
<1> QED BY <1>3, <1>4, <1>5, <1>6, <1>8

LEMMA GetValueKeeps ==
    ASSUME RoomInv, NEW u \in Users, NEW for \in {"enter", "friend"}, GetValue(u, for)
    PROVE  RoomInv'
<1> USE DEF RoomInv
<1> PICK f : f = [user |-> u, for |-> for, gold |-> stored[u], late |-> FALSE]
  OBVIOUS
<1>1. /\ UNCHANGED <<gold, cached, dirty, stored, overwritten, toRoom, toLogic, ledger, used>>
      /\ UNCHANGED <<present, copy, copyDirty, tables, tableOf, stuck>>
      /\ answers' = Append(answers, f)
  BY DEF GetValue, logic, room
<1>2. f \in Answer /\ f.gold = stored[f.user]
  BY DEF Answer, GoldTypes
<1>3. answers' \in Seq(Answer) /\ IsCurrent(answers', stored)
  <2>1. /\ answers' \in Seq(Answer) /\ Len(answers') = Len(answers) + 1 /\ Len(answers) \in Nat
        /\ answers'[Len(answers) + 1] = f
        /\ \A n \in 1..Len(answers) : answers'[n] = answers[n]
    BY <1>1, <1>2, AppendProperties DEF DatabaseInv
  <2> SUFFICES ASSUME NEW n \in DOMAIN answers'
               PROVE  answers'[n].late \/ answers'[n].gold = stored[answers'[n].user]
    BY <2>1 DEF IsCurrent
  <2>2. n \in 1..Len(answers) \/ n = Len(answers) + 1
    BY <2>1
  <2>3. CASE n \in 1..Len(answers)
    <3>1. n \in DOMAIN answers
      BY <2>3 DEF DatabaseInv
    <3> QED BY <2>1, <2>3, <3>1 DEF DatabaseInv, IsCurrent
  <2>4. CASE n = Len(answers) + 1
    BY <1>2, <2>1, <2>4
  <2> QED BY <2>2, <2>3, <2>4
<1>4. DatabaseInv'
  BY <1>1, <1>3 DEF DatabaseInv, IsCurrent, StoredUnlessOverwritten
<1>5. GoldTypes' /\ FlagTypes' /\ MessageTypes' /\ TableTypes' /\ UsedTypes'
  BY <1>1 DEF GoldTypes, FlagTypes, MessageTypes, TableTypes, UsedTypes
<1> QED BY <1>4, <1>5

\* An answer no save has overtaken is what the database has.
LEMMA EnterHallKeeps ==
    ASSUME RoomInv, OnResponseEnterHallEvent
    PROVE  RoomInv'
<1> USE DEF RoomInv
<1> PICK f : f = Head(answers)
  OBVIOUS
<1>1. /\ UNCHANGED <<stored, toRoom, toLogic, present, copy, copyDirty, tables, tableOf, stuck, used>>
      /\ answers # <<>> /\ answers' = Tail(answers)
      /\ cached' = [cached EXCEPT ![f.user] = TRUE]
      /\ gold' = [gold EXCEPT ![f.user] = f.gold]
      /\ dirty' = [dirty EXCEPT ![f.user] = FALSE]
      /\ ledger' = [ledger EXCEPT ![f.user] = @ + f.gold - gold[f.user]]
      /\ overwritten' = [overwritten EXCEPT ![f.user] = f.late]
  BY DEF OnResponseEnterHallEvent, room
<1>2. /\ f \in Answer
      /\ f.late \/ f.gold = stored[f.user]
      /\ answers' \in Seq(Answer) /\ IsCurrent(answers', stored)
  BY <1>1, TailIsCurrent DEF DatabaseInv
<1> PICK u, amount, late : u = f.user /\ amount = f.gold /\ late = f.late
  OBVIOUS
<1>3. u \in Users /\ amount \in Int /\ late \in BOOLEAN
  <2>1. u \in Users /\ amount \in Int
    BY <1>2 DEF Answer
  <2>2. late \in BOOLEAN
    BY <1>2, Zenon DEF Answer
  <2> QED BY <2>1, <2>2
<1>4. /\ cached' = [cached EXCEPT ![u] = TRUE] /\ gold' = [gold EXCEPT ![u] = amount]
      /\ dirty' = [dirty EXCEPT ![u] = FALSE]
      /\ ledger' = [ledger EXCEPT ![u] = @ + amount - gold[u]]
      /\ overwritten' = [overwritten EXCEPT ![u] = late]
      /\ late \/ amount = stored[u]
  BY <1>1, <1>2
<1>5. GoldTypes'
  <2>1. ledger[u] + amount - gold[u] \in Int
    BY <1>3 DEF GoldTypes
  <2> QED BY <1>1, <1>3, <1>4, <2>1 DEF GoldTypes
<1>6. FlagTypes'
  BY <1>1, <1>3, <1>4 DEF FlagTypes
<1>7. StoredUnlessOverwritten'
  <2> SUFFICES ASSUME NEW v \in Users, cached'[v], ~overwritten'[v]
               PROVE  stored'[v] = gold'[v]
    BY DEF StoredUnlessOverwritten
  <2>1. CASE v = u
    <3>1. overwritten'[u] = late /\ gold'[u] = amount
      BY <1>3, <1>4 DEF FlagTypes, GoldTypes
    <3> QED BY <1>1, <1>4, <2>1, <3>1
  <2>2. CASE v # u
    <3>1. cached[v] /\ ~overwritten[v] /\ gold'[v] = gold[v]
      BY <1>3, <1>4, <2>2 DEF FlagTypes, GoldTypes
    <3> QED BY <1>1, <3>1 DEF DatabaseInv, StoredUnlessOverwritten
  <2> QED BY <2>1, <2>2
<1>8. DatabaseInv'
  BY <1>1, <1>2, <1>7 DEF DatabaseInv, IsCurrent
<1>9. MessageTypes' /\ TableTypes' /\ UsedTypes'
  BY <1>1 DEF MessageTypes, TableTypes, UsedTypes
<1> QED BY <1>5, <1>6, <1>8, <1>9

LEMMA FriendAnswerKeeps ==
    ASSUME RoomInv, FriendAnswer
    PROVE  RoomInv'
<1> USE DEF RoomInv
<1> PICK f : f = Head(answers)
  OBVIOUS
<1>1. /\ UNCHANGED <<gold, cached, dirty, toRoom, toLogic, present, copy, copyDirty>>
      /\ UNCHANGED <<tables, tableOf, stuck, ledger, used>> /\ answers # <<>>
      /\ \/ /\ stored' = [stored EXCEPT ![f.user] = f.gold]
            /\ overwritten' = [overwritten EXCEPT ![f.user] = @ \/ f.late]
            /\ answers' = Overtaken(Tail(answers), {f.user})
         \/ answers' = Tail(answers) /\ stored' = stored /\ overwritten' = overwritten
  BY DEF FriendAnswer, logic, room
<1>2. /\ f \in Answer
      /\ f.late \/ f.gold = stored[f.user]
      /\ Tail(answers) \in Seq(Answer) /\ IsCurrent(Tail(answers), stored)
  BY <1>1, TailIsCurrent DEF DatabaseInv
<1> PICK u, amount, late : u = f.user /\ amount = f.gold /\ late = f.late
  OBVIOUS
<1>3. u \in Users /\ amount \in Int /\ late \in BOOLEAN
  <2>1. u \in Users /\ amount \in Int
    BY <1>2 DEF Answer
  <2>2. late \in BOOLEAN
    BY <1>2, Zenon DEF Answer
  <2> QED BY <2>1, <2>2
<1>4. ASSUME stored' = [stored EXCEPT ![f.user] = f.gold],
             overwritten' = [overwritten EXCEPT ![f.user] = @ \/ f.late],
             answers' = Overtaken(Tail(answers), {f.user})
      PROVE  stored' \in [Users -> Int] /\ overwritten' \in [Users -> BOOLEAN] /\ DatabaseInv'
  <2> PICK now : now = (overwritten[u] \/ late)
    OBVIOUS
  <2>1. now \in BOOLEAN
    BY Zenon
  <2>2. /\ stored' = [stored EXCEPT ![u] = amount]
        /\ overwritten' = [overwritten EXCEPT ![u] = now]
        /\ late \/ amount = stored[u]
    BY <1>2, <1>4
  <2>3. stored' \in [Users -> Int] /\ overwritten' \in [Users -> BOOLEAN]
    BY <1>3, <2>1, <2>2 DEF GoldTypes, FlagTypes
  <2>4. answers' \in Seq(Answer) /\ IsCurrent(answers', stored')
    <3>1. \A v \in Users : v \notin {f.user} => stored'[v] = stored[v]
      BY <2>2 DEF GoldTypes
    <3> QED BY <1>2, <1>4, <3>1, OvertakenIsCurrent
  <2>5. ASSUME NEW v \in Users, cached'[v], ~overwritten'[v] PROVE stored'[v] = gold'[v]
    <3>1. CASE v = u
      <4>1. ~overwritten[u] /\ ~late
        BY <1>3, <2>2, <2>5, <3>1 DEF FlagTypes
      <4>2. stored'[u] = stored[u]
        BY <1>3, <2>2, <4>1 DEF GoldTypes
      <4> QED BY <1>1, <2>5, <3>1, <4>1, <4>2 DEF DatabaseInv, StoredUnlessOverwritten
    <3>2. CASE v # u
      <4>1. overwritten'[v] = overwritten[v] /\ stored'[v] = stored[v]
        BY <2>2, <3>2 DEF FlagTypes, GoldTypes
      <4> QED BY <1>1, <2>5, <4>1 DEF DatabaseInv, StoredUnlessOverwritten
    <3> QED BY <3>1, <3>2
  <2>6. DatabaseInv'
    BY <2>4, <2>5 DEF DatabaseInv, IsCurrent, StoredUnlessOverwritten
  <2> QED BY <2>3, <2>6
<1>5. ASSUME answers' = Tail(answers), stored' = stored, overwritten' = overwritten
      PROVE  stored' \in [Users -> Int] /\ overwritten' \in [Users -> BOOLEAN] /\ DatabaseInv'
  <2>1. DatabaseInv'
    BY <1>1, <1>2, <1>5 DEF DatabaseInv, IsCurrent, StoredUnlessOverwritten
  <2> QED BY <1>5, <2>1 DEF GoldTypes, FlagTypes
<1>6. stored' \in [Users -> Int] /\ overwritten' \in [Users -> BOOLEAN] /\ DatabaseInv'
  BY <1>1, <1>4, <1>5
<1>7. GoldTypes' /\ FlagTypes'
  BY <1>1, <1>6 DEF GoldTypes, FlagTypes
<1>8. MessageTypes' /\ TableTypes' /\ UsedTypes'
  BY <1>1 DEF MessageTypes, TableTypes, UsedTypes
<1> QED BY <1>6, <1>7, <1>8
-----------------------------------------------------------------------------
(* The room server. *)

LEMMA ClientEnterRoomKeeps ==
    ASSUME RoomInv, NEW deal \in Deals, ClientEnterRoom(deal)
    PROVE  RoomInv'
<1> USE DEF RoomInv
<1> PICK u : u = Head(toRoom).user
  OBVIOUS
<1> PICK table : table = [seats |-> <<u>>, stage |-> INIT, bets |-> NoBets, hands |-> deal]
  OBVIOUS
<1>1. /\ UNCHANGED <<gold, cached, dirty, stored, answers, overwritten, toLogic, stuck, ledger, used>>
      /\ toRoom # <<>> /\ toRoom' = Tail(toRoom)
      /\ present' = [present EXCEPT ![u] = TRUE]
      /\ copy' = [copy EXCEPT ![u] = Head(toRoom).gold]
      /\ copyDirty' = [copyDirty EXCEPT ![u] = FALSE]
      /\ tables' = Append(tables, CheckState(table, deal))
      /\ tableOf' = [tableOf EXCEPT ![u] = Len(tables) + 1]
  BY DEF ClientEnterRoom, logic, database
<1>2. Head(toRoom) \in Asked /\ toRoom' \in Seq(Asked)
  BY <1>1, HeadTailProperties DEF MessageTypes
<1>3. u \in Users /\ Head(toRoom).gold \in Int
  BY <1>2 DEF Asked
<1>4. GoldTypes' /\ FlagTypes' /\ DatabaseInv'
  BY <1>1, <1>3 DEF GoldTypes, FlagTypes, DatabaseInv, IsCurrent, StoredUnlessOverwritten
<1>5. MessageTypes' /\ UsedTypes'
  BY <1>1, <1>2 DEF MessageTypes, UsedTypes
<1>6. table \in Table /\ table.seats = <<u>>
  <2>1. <<u>> \in Seq(Users) /\ NoBets \in [Users -> [Positions -> Nat]]
    BY <1>3 DEF NoBets
  <2>2. INIT \in INIT..SETTLEMENT
    BY DEF INIT, SETTLEMENT
  <2> QED BY <2>1, <2>2, TableOf
<1> PICK made : made = CheckState(table, deal)
  OBVIOUS
<1>7. made \in Table /\ made.seats = <<u>>
  BY <1>6, CheckStateType
<1>8. IsInjective(made.seats)
  BY <1>7 DEF IsInjective
<1>9. /\ tables' \in Seq(Table) /\ Len(tables') = Len(tables) + 1
      /\ \A n \in 1..Len(tables) : tables'[n] = tables[n]
      /\ tables'[Len(tables) + 1] = made /\ DOMAIN tables' = 1..(Len(tables) + 1)
  BY <1>1, <1>7, AppendProperties DEF TableTypes
<1>10. \A n \in DOMAIN tables' : IsInjective(tables'[n].seats)
  <2>1. \A n \in 1..Len(tables) : IsInjective(tables[n].seats)
    BY DEF TableTypes
  <2>2. Len(tables) \in Nat
    BY DEF TableTypes
  <2> SUFFICES ASSUME NEW n \in 1..(Len(tables) + 1) PROVE IsInjective(tables'[n].seats)
    BY <1>9
  <2>3. CASE n \in 1..Len(tables)
    BY <1>9, <2>1, <2>3, Zenon
  <2>4. CASE n = Len(tables) + 1
    <3>1. tables'[Len(tables) + 1] = made
      BY <1>9, Zenon
    <3>2. tables'[n] = made
      BY <2>4, <3>1
    <3> QED BY <1>8, <3>2, Zenon
  <2> QED BY <2>2, <2>3, <2>4
<1>11. tableOf' \in [Users -> 0..Len(tables')]
  <2>1. Len(tables) \in Nat /\ tableOf \in [Users -> 0..Len(tables)]
    BY DEF TableTypes
  <2>2. \A v \in Users : tableOf'[v] \in 0..(Len(tables) + 1)
    BY <1>1, <2>1
  <2> QED BY <1>1, <1>9, <2>1, <2>2
<1>12. TableTypes'
  <2>1. stuck' \subseteq DOMAIN tables'
    <3>1. stuck' = stuck /\ stuck \subseteq 1..Len(tables) /\ Len(tables) \in Nat
      BY <1>1 DEF TableTypes
    <3>2. 1..Len(tables) \subseteq 1..(Len(tables) + 1)
      BY <3>1
    <3> QED BY <1>9, <3>1, <3>2
  <2> QED BY <1>9, <1>10, <1>11, <2>1 DEF TableTypes
<1> QED BY <1>4, <1>5, <1>12

\* A step that changes one table.
LEMMA OneTable ==
    ASSUME TableTypes, NEW n \in DOMAIN tables, NEW t \in Table,
           t.seats = tables[n].seats,
           tables' = [tables EXCEPT ![n] = t], tableOf' = tableOf, stuck' = stuck
    PROVE  TableTypes'
<1>1. IsInjective(t.seats)
  BY DEF TableTypes
<1>2. /\ tables' \in Seq(Table) /\ Len(tables') = Len(tables)
      /\ \A k \in DOMAIN tables' : IsInjective(tables'[k].seats)
  BY <1>1, PutTable DEF TableTypes
<1>3. DOMAIN tables' = DOMAIN tables
  BY DEF TableTypes
<1> QED BY <1>2, <1>3 DEF TableTypes

\* MarkBet adds to one position of the user.
LEMMA BetIsAdded ==
    ASSUME NEW bets \in [Positions -> Nat], NEW position \in Positions, NEW bet \in Nat
    PROVE  [bets EXCEPT ![position] = @ + bet] \in [Positions -> Nat]
  OBVIOUS

LEMMA BetType ==
    ASSUME NEW table \in Table, NEW u \in Users, NEW after \in [Positions -> Nat],
           NEW t, t = [table EXCEPT !.bets[u] = after]
    PROVE  t \in Table /\ t.seats = table.seats
<1> PICK seats, stage, bets, hands :
      /\ table = [seats |-> seats, stage |-> stage, bets |-> bets, hands |-> hands]
      /\ seats \in Seq(Users) /\ stage \in INIT..SETTLEMENT
      /\ bets \in [Users -> [Positions -> Nat]] /\ hands \in Deals
  BY TableParts
<1> PICK bets2 : bets2 = [bets EXCEPT ![u] = after]
  OBVIOUS
<1>1. bets2 \in [Users -> [Positions -> Nat]]
  OBVIOUS
<1>2. t = [table EXCEPT !.bets = bets2]
  OBVIOUS
<1>3. t = [seats |-> seats, stage |-> stage, bets |-> bets2, hands |-> hands]
  BY <1>2
<1>4. [seats |-> seats, stage |-> stage, bets |-> bets2, hands |-> hands] \in Table
  BY <1>1, TableOf, Zenon
<1>5. t.seats = seats /\ table.seats = seats
  BY <1>3
<1> QED BY <1>3, <1>4, <1>5, Zenon

LEMMA SumsAreInts == \A x, y, z \in Int : x + y - z \in Int
  OBVIOUS

\* Commit in the room server saves a copy.
LEMMA RoomCommitKeeps ==
    ASSUME GoldTypes, FlagTypes, DatabaseInv, NEW u \in Users, NEW isDirty \in BOOLEAN,
           NEW amount \in Int, RoomCommit(u, isDirty, amount), gold' = gold, cached' = cached
    PROVE  /\ copy' \in [Users -> Int] /\ stored' \in [Users -> Int]
           /\ copyDirty' \in [Users -> BOOLEAN] /\ overwritten' \in [Users -> BOOLEAN]
           /\ DatabaseInv'
<1>1. /\ copy' = [copy EXCEPT ![u] = amount]
      /\ copyDirty' = [copyDirty EXCEPT ![u] = FALSE]
      /\ IF isDirty THEN Save(u, amount, TRUE)
         ELSE stored' = stored /\ answers' = answers /\ overwritten' = overwritten
  BY DEF RoomCommit, database
<1>2. copy' \in [Users -> Int] /\ copyDirty' \in [Users -> BOOLEAN]
  BY <1>1 DEF GoldTypes, FlagTypes
<1>3. CASE isDirty
  <2>1. Save(u, amount, TRUE) /\ TRUE \in BOOLEAN
    BY <1>1, <1>3
  <2>2. stored' \in [Users -> Int] /\ overwritten' \in [Users -> BOOLEAN] /\ DatabaseInv'
    BY <2>1, SaveKeeps DEF GoldTypes, FlagTypes
  <2> QED BY <1>2, <2>2
<1>4. CASE ~isDirty
  <2>1. stored' = stored /\ answers' = answers /\ overwritten' = overwritten
    BY <1>1, <1>4
  <2> QED BY <1>2, <2>1 DEF DatabaseInv, IsCurrent, StoredUnlessOverwritten, GoldTypes, FlagTypes
<1> QED BY <1>3, <1>4

LEMMA ClientBetKeeps ==
    ASSUME RoomInv, NEW u \in Users, NEW position \in BetPositions, NEW bet \in Bets,
           ClientBet(u, position, bet)
    PROVE  RoomInv'
<1> USE DEF RoomInv
<1>1. /\ UNCHANGED <<gold, cached, dirty, toRoom, toLogic, present, tableOf, stuck>>
      /\ tableOf[u] # 0
      /\ RoomCommit(u, copyDirty[u], copy[u])
      /\ used' = [used EXCEPT !.bets = @ + 1]
  BY DEF ClientBet, logic
<1>2. MessageTypes' /\ UsedTypes'
  <2>1. MessageTypes'
    BY <1>1 DEF MessageTypes
  <2>2. UsedTypes'
    BY <1>1 DEF UsedTypes
  <2> QED BY <2>1, <2>2
<1> PICK n, table : n = tableOf[u] /\ table = tables[n]
  OBVIOUS
<1>3. n \in DOMAIN tables /\ table \in Table
  BY <1>1 DEF TableTypes
<1>4. TableTypes' /\ ledger' \in [Users -> Int]
  <2> PICK mine : mine = table.bets[u]
    OBVIOUS
  <2> PICK after : after = [mine EXCEPT ![position] = @ + bet]
    OBVIOUS
  <2> PICK t : t = [table EXCEPT !.bets[u] = after]
    OBVIOUS
  <2> PICK a, b : a = Change(after, table.hands) /\ b = Change(mine, table.hands)
    OBVIOUS
  <2>1. \/ /\ position \in Positions
           /\ tables' = [tables EXCEPT ![n].bets[u] = after]
           /\ ledger' = [ledger EXCEPT ![u] = @ + a - b]
        \/ UNCHANGED <<tables, ledger>>
    BY Zenon DEF ClientBet
  <2>2. CASE UNCHANGED <<tables, ledger>>
    BY <1>1, <2>2 DEF TableTypes, GoldTypes
  <2>3. CASE /\ position \in Positions
             /\ tables' = [tables EXCEPT ![n].bets[u] = after]
             /\ ledger' = [ledger EXCEPT ![u] = @ + a - b]
    <3>1. bet \in Nat
      BY RoomAssumption
    <3>2. mine \in [Positions -> Nat]
      BY <1>3 DEF Table
    <3>3. after \in [Positions -> Nat]
      BY <2>3, <3>1, <3>2, BetIsAdded
    <3>4. t \in Table /\ t.seats = table.seats
      BY <1>3, <3>3, BetType
    <3>5. tables' = [tables EXCEPT ![n] = t]
      BY <2>3
    <3>6. TableTypes'
      BY <1>1, <1>3, <3>4, <3>5, OneTable
    <3>7. a \in Int /\ b \in Int
      BY <3>2, <3>3, ChangeIsInt
    <3>8. ledger \in [Users -> Int]
      BY DEF GoldTypes
    <3>9. ledger' \in [Users -> Int]
      <4>1. ledger[u] + a - b \in Int
        <5>1. ledger[u] \in Int
          BY <3>8
        <5> QED BY <3>7, <5>1, SumsAreInts, Zenon
      <4>2. ledger' = [ledger EXCEPT ![u] = ledger[u] + a - b]
        BY <2>3, Zenon
      <4> QED BY <3>8, <4>1, <4>2, Zenon
    <3> QED BY <3>6, <3>9
  <2> QED BY <2>1, <2>2, <2>3
<1>5. copy[u] \in Int /\ copyDirty[u] \in BOOLEAN
  BY DEF GoldTypes, FlagTypes
<1>6. /\ copy' \in [Users -> Int] /\ stored' \in [Users -> Int]
      /\ copyDirty' \in [Users -> BOOLEAN] /\ overwritten' \in [Users -> BOOLEAN]
      /\ DatabaseInv'
  BY <1>1, <1>5, RoomCommitKeeps
<1>7. GoldTypes' /\ FlagTypes'
  BY <1>1, <1>4, <1>6 DEF GoldTypes, FlagTypes
<1> QED BY <1>2, <1>4, <1>6, <1>7

LEMMA ClientBetRaisesKeeps ==
    ASSUME RoomInv, NEW u \in Users, NEW bet \in Bets, ClientBetRaises(u, bet)
    PROVE  RoomInv'
<1> USE DEF RoomInv
<1>1. /\ UNCHANGED <<gold, cached, dirty, stored, answers, overwritten, toRoom, toLogic>>
      /\ UNCHANGED <<present, copy, copyDirty, tables, tableOf, stuck, ledger>>
      /\ used' = [used EXCEPT !.bets = @ + 1]
  BY DEF ClientBetRaises, logic, database, room
<1>2. UsedTypes'
  BY <1>1 DEF UsedTypes
<1>3. GoldTypes' /\ FlagTypes' /\ MessageTypes' /\ TableTypes' /\ DatabaseInv'
  BY <1>1 DEF GoldTypes, FlagTypes, MessageTypes, TableTypes, DatabaseInv, IsCurrent,
              StoredUnlessOverwritten
<1> QED BY <1>2, <1>3

LEMMA RoomSetGoldKeeps ==
    ASSUME RoomInv, NEW u \in Users, NEW amount \in Amounts, RoomSetGold(u, amount)
    PROVE  RoomInv'
<1> USE DEF RoomInv
<1>1. /\ UNCHANGED <<gold, cached, dirty, toRoom, toLogic, present, tables, tableOf, stuck, ledger>>
      /\ RoomCommit(u, TRUE, amount) /\ used' = [used EXCEPT !.changes = @ + 1]
  BY DEF RoomSetGold, logic
<1>2. amount \in Int /\ TRUE \in BOOLEAN
  BY RoomAssumption
<1>3. /\ copy' \in [Users -> Int] /\ stored' \in [Users -> Int]
      /\ copyDirty' \in [Users -> BOOLEAN] /\ overwritten' \in [Users -> BOOLEAN]
      /\ DatabaseInv'
  BY <1>1, <1>2, RoomCommitKeeps
<1>4. GoldTypes' /\ FlagTypes'
  BY <1>1, <1>3 DEF GoldTypes, FlagTypes
<1>5. MessageTypes' /\ TableTypes'
  BY <1>1 DEF MessageTypes, TableTypes
<1>6. UsedTypes'
  BY <1>1 DEF UsedTypes
<1> QED BY <1>3, <1>4, <1>5, <1>6

LEMMA RoomReleaseKeeps ==
    ASSUME RoomInv, NEW u \in Users, RoomRelease(u)
    PROVE  RoomInv'
<1> USE DEF RoomInv
<1>1. /\ UNCHANGED <<gold, cached, dirty, stored, answers, overwritten, toRoom, toLogic>>
      /\ UNCHANGED <<tables, tableOf, stuck, ledger>>
      /\ present' = [present EXCEPT ![u] = FALSE]
      /\ copy' = [copy EXCEPT ![u] = 0] /\ copyDirty' = [copyDirty EXCEPT ![u] = FALSE]
      /\ used' = [used EXCEPT !.releases = @ + 1]
  BY DEF RoomRelease, logic, database
<1>2. GoldTypes' /\ FlagTypes'
  BY <1>1 DEF GoldTypes, FlagTypes
<1>3. UsedTypes'
  BY <1>1 DEF UsedTypes
<1>4. MessageTypes' /\ TableTypes' /\ DatabaseInv'
  BY <1>1 DEF MessageTypes, TableTypes, DatabaseInv, IsCurrent, StoredUnlessOverwritten
<1> QED BY <1>2, <1>3, <1>4

LEMMA FreeTimerOverKeeps ==
    ASSUME RoomInv, NEW n \in DOMAIN tables, FreeTimerOver(n)
    PROVE  RoomInv'
<1> USE DEF RoomInv
<1>1. /\ UNCHANGED <<gold, cached, dirty, stored, answers, overwritten, toRoom, toLogic>>
      /\ UNCHANGED <<present, copy, copyDirty, tableOf, stuck, ledger, used>>
      /\ tables[n].stage = FREE /\ tables' = [tables EXCEPT ![n].stage = @ + 1]
  BY DEF FreeTimerOver, logic, database
<1> PICK t : t = [tables[n] EXCEPT !.stage = BET]
  OBVIOUS
<1>2. tables[n] \in Table
  BY DEF TableTypes
<1>3. BET \in INIT..SETTLEMENT /\ FREE + 1 = BET
  BY DEF INIT, FREE, BET, SETTLEMENT
<1>4. t \in Table /\ t.seats = tables[n].seats
  BY <1>2, <1>3, StageType
<1>5. tables' = [tables EXCEPT ![n] = t]
  BY <1>1, <1>3
<1>6. TableTypes'
  BY <1>1, <1>4, <1>5, OneTable
<1>7. GoldTypes' /\ FlagTypes' /\ MessageTypes' /\ UsedTypes' /\ DatabaseInv'
  BY <1>1 DEF GoldTypes, FlagTypes, MessageTypes, UsedTypes, DatabaseInv, IsCurrent,
              StoredUnlessOverwritten
<1> QED BY <1>6, <1>7

LEMMA BetTimerOverKeeps ==
    ASSUME RoomInv, NEW n \in DOMAIN tables, BetTimerOver(n)
    PROVE  RoomInv'
<1> USE DEF RoomInv
<1> PICK record : record = Record(tables[n])
  OBVIOUS
<1> PICK made : made = Made(record, present)
  OBVIOUS
<1>1. /\ UNCHANGED <<gold, cached, dirty, stored, answers, overwritten, toRoom>>
      /\ UNCHANGED <<present, tableOf, ledger, used>> /\ tables[n].stage = BET
      /\ \/ /\ tables' = [tables EXCEPT ![n].stage = @ + 1] /\ stuck' = stuck
            /\ toLogic' = toLogic \/ toLogic' = Append(toLogic, record)
         \/ stuck' = stuck \cup {n} /\ UNCHANGED <<toLogic, tables>>
  BY DEF BetTimerOver, logic, database
<1>2. /\ copy' = [u \in Users |-> copy[u] + ChangeOf(record, u, made)]
      /\ copyDirty' = [u \in Users |-> copyDirty[u] \/ ChangeOf(record, u, made) # 0]
  BY DEF BetTimerOver
<1> PICK t : t = [tables[n] EXCEPT !.stage = SETTLEMENT]
  OBVIOUS
<1>3. tables[n] \in Table
  BY DEF TableTypes
<1>4. SETTLEMENT \in INIT..SETTLEMENT /\ BET + 1 = SETTLEMENT
  BY DEF INIT, BET, SETTLEMENT
<1>5. t \in Table /\ t.seats = tables[n].seats
  BY <1>3, <1>4, StageType
<1>6. record \in Seq(Entry)
  BY <1>3, RecordType
<1>7. TableTypes' /\ MessageTypes'
  <2>1. CASE /\ tables' = [tables EXCEPT ![n].stage = @ + 1] /\ stuck' = stuck
             /\ toLogic' = toLogic \/ toLogic' = Append(toLogic, record)
    <3>1. tables' = [tables EXCEPT ![n] = t]
      BY <1>1, <1>4, <2>1
    <3>2. TableTypes'
      BY <1>1, <1>5, <2>1, <3>1, OneTable
    <3>3. MessageTypes'
      <4>1. Append(toLogic, record) \in Seq(Seq(Entry))
        BY <1>6, AppendProperties DEF MessageTypes
      <4> QED BY <1>1, <2>1, <4>1 DEF MessageTypes
    <3> QED BY <3>2, <3>3
  <2>2. CASE stuck' = stuck \cup {n} /\ UNCHANGED <<toLogic, tables>>
    BY <1>1, <2>2 DEF TableTypes, MessageTypes
  <2> QED BY <1>1, <2>1, <2>2
<1>10. copy' \in [Users -> Int]
  <2>1. made \in SUBSET DOMAIN record
    BY DEF Entries, Made
  <2>2. \A u \in Users : ChangeOf(record, u, made) \in Int
    BY <1>6, <2>1, ChangeOfEntries
  <2>3. \A u \in Users : copy[u] + ChangeOf(record, u, made) \in Int
    BY <2>2 DEF GoldTypes
  <2> QED BY <1>2, <2>3
<1>11. copyDirty' \in [Users -> BOOLEAN]
  BY <1>2
<1>12. GoldTypes' /\ FlagTypes' /\ UsedTypes' /\ DatabaseInv'
  BY <1>1, <1>10, <1>11 DEF GoldTypes, FlagTypes, UsedTypes, DatabaseInv, IsCurrent,
                            StoredUnlessOverwritten
<1> QED BY <1>7, <1>12

LEMMA SettlementOverKeeps ==
    ASSUME RoomInv, NEW n \in DOMAIN tables, NEW deal \in Deals, SettlementOver(n, deal)
    PROVE  RoomInv'
<1> USE DEF RoomInv
<1> PICK t : t = SettlementTimerOver(tables[n], deal)
  OBVIOUS
<1>1. /\ UNCHANGED <<gold, cached, dirty, stored, answers, overwritten, toRoom, toLogic>>
      /\ UNCHANGED <<present, copy, copyDirty, tableOf, stuck, ledger, used>>
      /\ tables' = [tables EXCEPT ![n] = t]
  BY DEF SettlementOver, logic, database
<1>2. tables[n] \in Table
  BY DEF TableTypes
<1>3. t \in Table /\ t.seats = tables[n].seats
  BY <1>2, SettlementTimerOverType
<1>4. TableTypes'
  BY <1>1, <1>3, OneTable
<1>5. GoldTypes' /\ FlagTypes' /\ MessageTypes' /\ UsedTypes' /\ DatabaseInv'
  BY <1>1 DEF GoldTypes, FlagTypes, MessageTypes, UsedTypes, DatabaseInv, IsCurrent,
              StoredUnlessOverwritten
<1> QED BY <1>4, <1>5
-----------------------------------------------------------------------------
LEMMA RoomInitially == Init => RoomInv
<1> SUFFICES ASSUME Init PROVE RoomInv
  OBVIOUS
<1>1. StartGold \in Int
  BY RoomAssumption
<1>2. GoldTypes /\ FlagTypes
  BY <1>1 DEF Init, GoldTypes, FlagTypes
<1>3. MessageTypes /\ TableTypes /\ UsedTypes
  <2>1. /\ toRoom = <<>> /\ toLogic = <<>> /\ tables = <<>> /\ stuck = {}
        /\ tableOf = [u \in Users |-> 0]
    BY DEF Init
  <2>2. Len(tables) = 0 /\ DOMAIN tables = {} /\ tables \in Seq(Table)
    BY <2>1
  <2>3. tableOf \in [Users -> 0..0]
    BY <2>1
  <2>4. UsedTypes
    BY DEF Init, UsedTypes
  <2> QED BY <2>1, <2>2, <2>3, <2>4 DEF MessageTypes, TableTypes
<1>4. DatabaseInv
  <2>1. answers = <<>> /\ DOMAIN answers = {} /\ answers \in Seq(Answer)
    BY DEF Init
  <2> QED BY <2>1 DEF Init, DatabaseInv, IsCurrent, StoredUnlessOverwritten
<1> QED BY <1>2, <1>3, <1>4 DEF RoomInv

LEMMA RoomInductive == RoomInv /\ [Next]_vars => RoomInv'
<1> SUFFICES ASSUME RoomInv, [Next]_vars PROVE RoomInv'
  OBVIOUS
<1>1. ASSUME NEW u \in Users, EnterRoom(u) PROVE RoomInv'
  BY <1>1, EnterRoomKeeps
<1>2. ASSUME NEW u \in Users, BuyRoomCard(u) PROVE RoomInv'
  BY <1>2, BuyRoomCardKeeps
<1>3. ASSUME NEW u \in Users, Request(u) PROVE RoomInv'
  BY <1>3, RequestKeeps
<1>4. ASSUME NEW u \in Users, FriendSaves(u) PROVE RoomInv'
  BY <1>4, FriendSavesKeeps
<1>5. ASSUME NEW u \in Users, NEW amount \in Amounts, SetGold(u, amount) PROVE RoomInv'
  BY <1>5, SetGoldKeeps
<1>6. ASSUME NEW u \in Users, Release(u) PROVE RoomInv'
  BY <1>6, ReleaseKeeps
<1>7. ASSUME NEW u \in Users, NEW for \in {"enter", "friend"}, GetValue(u, for) PROVE RoomInv'
  BY <1>7, GetValueKeeps
<1>8. CASE OnResponseEnterHallEvent
  BY <1>8, EnterHallKeeps
<1>9. CASE FriendAnswer
  BY <1>9, FriendAnswerKeeps
<1>10. CASE GameSettlement
  BY <1>10, GameSettlementKeeps
<1>11. ASSUME NEW u \in Users, NEW p \in BetPositions, NEW b \in Bets, ClientBet(u, p, b)
       PROVE  RoomInv'
  BY <1>11, ClientBetKeeps
<1>12. ASSUME NEW u \in Users, NEW b \in Bets, ClientBetRaises(u, b) PROVE RoomInv'
  BY <1>12, ClientBetRaisesKeeps
<1>13. ASSUME NEW u \in Users, NEW amount \in Amounts, RoomSetGold(u, amount) PROVE RoomInv'
  BY <1>13, RoomSetGoldKeeps
<1>14. ASSUME NEW u \in Users, RoomRelease(u) PROVE RoomInv'
  BY <1>14, RoomReleaseKeeps
<1>15. CASE RoomReads
  BY <1>15, ClientEnterRoomKeeps DEF RoomReads
<1>16. ASSUME NEW n \in DOMAIN tables, FreeTimerOver(n) PROVE RoomInv'
  BY <1>16, FreeTimerOverKeeps
<1>17. ASSUME NEW n \in DOMAIN tables, BetTimerOver(n) PROVE RoomInv'
  BY <1>17, BetTimerOverKeeps
<1>18. ASSUME NEW n \in DOMAIN tables, NEW deal \in Deals, SettlementOver(n, deal)
       PROVE  RoomInv'
  BY <1>18, SettlementOverKeeps
<1>19. CASE UNCHANGED vars
  <2>1. /\ UNCHANGED <<gold, cached, dirty, stored, answers, overwritten, toRoom, toLogic>>
        /\ UNCHANGED <<present, copy, copyDirty, tables, tableOf, stuck, ledger, used>>
    BY <1>19 DEF vars, logic, database, room
  <2> QED BY <2>1 DEF RoomInv, GoldTypes, FlagTypes, MessageTypes, TableTypes, UsedTypes,
                      DatabaseInv, IsCurrent, StoredUnlessOverwritten
<1> QED BY <1>1, <1>2, <1>3, <1>4, <1>5, <1>6, <1>7, <1>8, <1>9, <1>10, <1>11, <1>12, <1>13,
           <1>14, <1>15, <1>16, <1>17, <1>18, <1>19 DEF Next, TimerOver

LEMMA RoomAlways == Spec => []RoomInv
<1> QED BY RoomInitially, RoomInductive, PTL DEF Spec

\* Every request, timer and message keeps users, copies, tables, records and
\* the gold of both servers well typed, and a user has one seat at a table.
THEOREM RoomTypeCorrect == Spec => []TypeOK
<1>1. RoomInv => TypeOK
  BY TypesAreTypeOK DEF RoomInv, DatabaseInv
<1> QED BY <1>1, RoomAlways, PTL

\* The database has the gold of the logic server's object (UserManager:Commit,
\* SaveUserData), however fetches overlap (OnResponseEnterHallEvent), friends save
\* what they fetched and settlements come, unless the room server's Commit has
\* saved a copy since or an answer that a save has overtaken was cached or saved.
THEOREM DatabaseHasTheGold == Spec => []StoredUnlessOverwritten
<1>1. RoomInv => StoredUnlessOverwritten
  BY DEF RoomInv, DatabaseInv
<1> QED BY <1>1, RoomAlways, PTL
-----------------------------------------------------------------------------
(* Sums.  What a recursive function comes to needs an induction over its
   argument.  The induction is part of the invariant: the lengths of the
   sequences are counted up by the steps of the specification, and Counted(n)
   says that what holds at 0 and for the next number holds up to n. *)

Counted(n) ==
    \A S : 0 \in S /\ (\A k \in 1..n : k - 1 \in S => k \in S) => 0..n \subseteq S

LEMMA CountedZero == Counted(0)
  BY DEF Counted

LEMMA CountedNext ==
    ASSUME NEW n \in Nat, Counted(n)
    PROVE  Counted(n + 1)
<1> SUFFICES ASSUME NEW S, 0 \in S, \A k \in 1..(n + 1) : k - 1 \in S => k \in S
             PROVE  0..(n + 1) \subseteq S
  BY DEF Counted
<1>1. 0..n \subseteq S
  <2>1. \A k \in 1..n : k - 1 \in S => k \in S
    OBVIOUS
  <2> QED BY <2>1, Zenon DEF Counted
<1>2. n + 1 \in S
  <2>1. n \in S /\ n + 1 \in 1..(n + 1) /\ (n + 1) - 1 = n
    BY <1>1
  <2> QED BY <2>1
<1>3. \A k \in 0..(n + 1) : k \in 0..n \/ k = n + 1
  OBVIOUS
<1> QED BY <1>1, <1>2, <1>3

LEMMA CountedLess ==
    ASSUME NEW n \in Nat, Counted(n + 1)
    PROVE  Counted(n)
<1> SUFFICES ASSUME NEW S, 0 \in S, \A k \in 1..n : k - 1 \in S => k \in S
             PROVE  0..n \subseteq S
  BY DEF Counted
<1> PICK T : T = S \cup {n + 1}
  OBVIOUS
<1>1. 0 \in T
  OBVIOUS
<1>2. \A k \in 1..(n + 1) : k - 1 \in T => k \in T
  <2> SUFFICES ASSUME NEW k \in 1..(n + 1), k - 1 \in T PROVE k \in T
    OBVIOUS
  <2>1. CASE k = n + 1
    BY <2>1
  <2>2. CASE k # n + 1
    <3>1. k \in 1..n /\ k - 1 # n + 1
      BY <2>2
    <3> QED BY <3>1
  <2> QED BY <2>1, <2>2
<1>3. 0..(n + 1) \subseteq T
  BY <1>1, <1>2, Zenon DEF Counted
<1>4. \A k \in 0..n : k \in 0..(n + 1) /\ k # n + 1
  OBVIOUS
<1> QED BY <1>3, <1>4

\* Running sums of numbers, at their beginning and from one to the next.
AreSums(p, s) ==
    /\ p \in [0..Len(s) -> Int] /\ p[0] = 0
    /\ \A k \in 1..Len(s) : p[k] = p[k - 1] + s[k]

SumOn(s, p, k) ==
    /\ p \in [0..k -> Int] /\ p[0] = 0
    /\ \A i \in 1..k : p[i] = p[i - 1] + s[i]

LEMMA SumsExist ==
    ASSUME NEW s \in Seq(Int), Counted(Len(s))
    PROVE  \E p : AreSums(p, s)
<1> PICK n \in Nat : n = Len(s)
  OBVIOUS
<1> PICK S : S = {k \in 0..n : \E p : SumOn(s, p, k)}
  OBVIOUS
<1>1. 0 \in S
  <2> PICK p : p = [i \in 0..0 |-> 0]
    OBVIOUS
  <2>1. SumOn(s, p, 0)
    BY DEF SumOn
  <2> QED BY <2>1
<1>2. \A k \in 1..n : k - 1 \in S => k \in S
  <2> SUFFICES ASSUME NEW k \in 1..n, k - 1 \in S PROVE k \in S
    OBVIOUS
  <2> PICK q : SumOn(s, q, k - 1)
    OBVIOUS
  <2> PICK p : p = [i \in 0..k |-> IF i = k THEN q[k - 1] + s[k] ELSE q[i]]
    OBVIOUS
  <2>1. /\ q \in [0..(k - 1) -> Int] /\ q[0] = 0
        /\ \A i \in 1..(k - 1) : q[i] = q[i - 1] + s[i]
    BY DEF SumOn
  <2>2. s[k] \in Int /\ q[k - 1] \in Int
    BY <2>1
  <2>3. \A i \in 0..k : i # k => i \in 0..(k - 1)
    OBVIOUS
  <2>4. p \in [0..k -> Int]
    BY <2>1, <2>2, <2>3
  <2>5. p[0] = 0 /\ p[k] = q[k - 1] + s[k] /\ \A i \in 0..(k - 1) : p[i] = q[i]
    BY <2>1
  <2>6. \A i \in 1..k : p[i] = p[i - 1] + s[i]
    <3> TAKE i \in 1..k
    <3>1. CASE i = k
      BY <2>5, <3>1
    <3>2. CASE i # k
      <4>1. i \in 1..(k - 1) /\ i \in 0..(k - 1) /\ i - 1 \in 0..(k - 1)
        BY <3>2
      <4> QED BY <2>1, <2>5, <4>1
    <3> QED BY <3>1, <3>2
  <2>7. SumOn(s, p, k)
    BY <2>4, <2>5, <2>6 DEF SumOn
  <2> QED BY <2>7
<1>3. 0..n \subseteq S
  BY <1>1, <1>2, Zenon DEF Counted
<1>4. \E p : SumOn(s, p, n)
  BY <1>3
<1> QED BY <1>4 DEF SumOn, AreSums

LEMMA SumsAre ==
    ASSUME NEW s \in Seq(Int), Counted(Len(s))
    PROVE  AreSums(Sums(s), s) /\ Total(s) = Sums(s)[Len(s)] /\ Total(s) \in Int
<1> DEFINE Q(f) == f = [k \in 0..Len(s) |-> IF k = 0 THEN 0 ELSE f[k - 1] + s[k]]
<1>1. Len(s) \in Nat
  OBVIOUS
<1>2. \E p : Q(p)
  <2> PICK p : AreSums(p, s)
    BY SumsExist
  <2>1. p \in [0..Len(s) -> Int] /\ p[0] = 0 /\ \A k \in 1..Len(s) : p[k] = p[k - 1] + s[k]
    BY DEF AreSums
  <2>2. \A k \in 0..Len(s) : p[k] = IF k = 0 THEN 0 ELSE p[k - 1] + s[k]
    <3> TAKE k \in 0..Len(s)
    <3>1. CASE k = 0
      BY <2>1, <3>1
    <3>2. CASE k # 0
      <4>1. k \in 1..Len(s)
        BY <1>1, <3>2
      <4> QED BY <2>1, <3>2, <4>1
    <3> QED BY <3>1, <3>2
  <2>3. Q(p)
    BY <2>1, <2>2
  <2> QED BY <2>3
<1>3. Sums(s) = CHOOSE f : Q(f)
  BY DEF Sums
<1> HIDE DEF Q
<1>4. Q(CHOOSE f : Q(f))
  BY <1>2, Zenon
<1>5. Q(Sums(s))
  BY <1>3, <1>4, Zenon
<1> PICK p : p = Sums(s)
  OBVIOUS
<1>6. p = [k \in 0..Len(s) |-> IF k = 0 THEN 0 ELSE p[k - 1] + s[k]]
  BY <1>5 DEF Q
<1>7. p[0] = 0 /\ \A k \in 1..Len(s) : p[k] = p[k - 1] + s[k]
  BY <1>1, <1>6
<1> PICK S : S = {k \in 0..Len(s) : p[k] \in Int}
  OBVIOUS
<1>8. 0..Len(s) \subseteq S
  <2>1. 0 \in S
    BY <1>1, <1>7
  <2>2. \A k \in 1..Len(s) : k - 1 \in S => k \in S
    <3> SUFFICES ASSUME NEW k \in 1..Len(s), k - 1 \in S PROVE k \in S
      OBVIOUS
    <3>1. p[k - 1] \in Int /\ s[k] \in Int /\ p[k] = p[k - 1] + s[k]
      BY <1>7
    <3>2. p[k] \in Int /\ k \in 0..Len(s)
      BY <3>1
    <3> QED BY <3>2
  <2> QED BY <2>1, <2>2, Zenon DEF Counted
<1>9. p \in [0..Len(s) -> Int]
  BY <1>6, <1>8
<1>10. AreSums(p, s)
  BY <1>7, <1>9 DEF AreSums
<1>11. Total(s) = p[Len(s)]
  BY DEF Total
<1> QED BY <1>1, <1>9, <1>10, <1>11

\* The total of nothing, of one more, of one less, and of one that changes.
LEMMA TotalOfNone == Total(<<>>) = 0
<1> PICK s : s = <<>>
  OBVIOUS
<1>1. s \in Seq(Int) /\ Len(s) = 0 /\ Counted(Len(s))
  BY CountedZero
<1>2. AreSums(Sums(s), s) /\ Total(s) = Sums(s)[Len(s)]
  BY <1>1, SumsAre
<1> QED BY <1>1, <1>2 DEF AreSums

LEMMA TotalAppend ==
    ASSUME NEW s \in Seq(Int), NEW x \in Int, Counted(Len(s))
    PROVE  Total(Append(s, x)) = Total(s) + x
<1> PICK n \in Nat : n = Len(s)
  OBVIOUS
<1> PICK s2 : s2 = Append(s, x)
  OBVIOUS
<1>1. /\ s2 \in Seq(Int) /\ Len(s2) = n + 1 /\ s2[n + 1] = x
      /\ \A k \in 1..n : s2[k] = s[k]
  BY AppendProperties
<1>2. Counted(Len(s2))
  BY <1>1, CountedNext
<1> PICK p, q : p = Sums(s) /\ q = Sums(s2)
  OBVIOUS
<1>3. /\ AreSums(p, s) /\ AreSums(q, s2)
      /\ Total(s) = p[n] /\ Total(s2) = q[Len(s2)] /\ Total(s) \in Int
  BY <1>1, <1>2, SumsAre
<1>4. Total(s2) = q[n + 1] /\ q[n + 1] = q[n] + x
  <2>1. Total(s2) = q[n + 1]
    BY <1>1, <1>3
  <2>2. \A k \in 1..(n + 1) : q[k] = q[k - 1] + s2[k]
    BY <1>1, <1>3 DEF AreSums
  <2>3. n + 1 \in 1..(n + 1) /\ (n + 1) - 1 = n
    OBVIOUS
  <2> QED BY <1>1, <2>1, <2>2, <2>3
<1> PICK S : S = {k \in 0..n : q[k] = p[k]}
  OBVIOUS
<1>5. 0..n \subseteq S
  <2>1. 0 \in S
    BY <1>3 DEF AreSums
  <2>2. \A k \in 1..n : k - 1 \in S => k \in S
    <3> SUFFICES ASSUME NEW k \in 1..n, k - 1 \in S PROVE k \in S
      OBVIOUS
    <3>1. p[k] = p[k - 1] + s[k]
      BY <1>3 DEF AreSums
    <3>2. k \in 1..(n + 1)
      OBVIOUS
    <3>3. q[k] = q[k - 1] + s2[k]
      BY <1>1, <1>3, <3>2 DEF AreSums
    <3>4. s2[k] = s[k] /\ q[k - 1] = p[k - 1]
      BY <1>1
    <3> QED BY <3>1, <3>3, <3>4
  <2> QED BY <2>1, <2>2, Zenon DEF Counted
<1>6. q[n] = p[n]
  BY <1>5
<1> QED BY <1>3, <1>4, <1>6

LEMMA TotalTail ==
    ASSUME NEW s \in Seq(Int), s # <<>>, Counted(Len(s))
    PROVE  Total(s) = Head(s) + Total(Tail(s))
<1> PICK n \in Nat : Len(s) = n + 1
  <2>1. Len(s) \in Nat /\ Len(s) # 0
    OBVIOUS
  <2>2. Len(s) - 1 \in Nat /\ Len(s) = (Len(s) - 1) + 1
    BY <2>1
  <2> QED BY <2>2
<1> PICK s2, x : s2 = Tail(s) /\ x = Head(s)
  OBVIOUS
<1>1. /\ s2 \in Seq(Int) /\ Len(s2) = n /\ x \in Int /\ x = s[1]
      /\ \A k \in 1..n : s2[k] = s[k + 1]
  BY HeadTailProperties
<1>2. Counted(Len(s2))
  BY <1>1, CountedLess
<1> PICK p, q : p = Sums(s) /\ q = Sums(s2)
  OBVIOUS
<1>3. /\ AreSums(p, s) /\ AreSums(q, s2)
      /\ Total(s) = p[Len(s)] /\ Total(s2) = q[Len(s2)]
      /\ Total(s) \in Int /\ Total(s2) \in Int
  BY <1>1, <1>2, SumsAre
<1>4. /\ p \in [0..(n + 1) -> Int] /\ p[0] = 0
      /\ \A k \in 1..(n + 1) : p[k] = p[k - 1] + s[k]
      /\ q \in [0..n -> Int] /\ q[0] = 0
      /\ \A k \in 1..n : q[k] = q[k - 1] + s2[k]
  BY <1>1, <1>3 DEF AreSums
<1> PICK S : S = {k \in 0..n : p[k + 1] = x + q[k]}
  OBVIOUS
<1>5. 0..n \subseteq S
  <2>1. 0 \in S
    <3>1. 1 \in 1..(n + 1) /\ 1 - 1 = 0 /\ 0 + 1 = 1 /\ 0 \in 0..n
      OBVIOUS
    <3>2. p[1] = p[0] + s[1]
      BY <1>4, <3>1
    <3>3. p[0] = 0 /\ q[0] = 0 /\ s[1] = x /\ x \in Int
      BY <1>1, <1>4
    <3>4. p[0 + 1] = x + q[0]
      BY <3>1, <3>2, <3>3
    <3> QED BY <3>1, <3>4
  <2>2. \A k \in 1..n : k - 1 \in S => k \in S
    <3> SUFFICES ASSUME NEW k \in 1..n, k - 1 \in S PROVE k \in S
      OBVIOUS
    <3>1. k + 1 \in 1..(n + 1) /\ (k + 1) - 1 = k /\ (k - 1) + 1 = k
          /\ k \in 0..n /\ k - 1 \in 0..n
      OBVIOUS
    <3>2. p[k + 1] = p[k] + s[k + 1]
      BY <1>4, <3>1
    <3>3. q[k] = q[k - 1] + s2[k] /\ s2[k] = s[k + 1] /\ s2[k] \in Int
      <4>1. s2[k] \in Int
        BY <1>1
      <4> QED BY <1>1, <1>4, <4>1
    <3>4. p[k] = x + q[k - 1]
      BY <3>1
    <3>5. q[k - 1] \in Int
      BY <1>4, <3>1
    <3>6. p[k + 1] = x + q[k]
      BY <1>1, <3>2, <3>3, <3>4, <3>5
    <3> QED BY <3>1, <3>6
  <2>3. Counted(n)
    BY <1>1, <1>2
  <2> QED BY <2>1, <2>2, <2>3, Zenon DEF Counted
<1>6. p[n + 1] = x + q[n]
  BY <1>5
<1> QED BY <1>1, <1>3, <1>6

LEMMA TotalPut ==
    ASSUME NEW s \in Seq(Int), NEW n \in 1..Len(s), NEW x \in Int, Counted(Len(s))
    PROVE  Total([s EXCEPT ![n] = x]) = Total(s) + x - s[n]
<1> PICK m \in Nat : m = Len(s)
  OBVIOUS
<1> PICK s2, d : s2 = [s EXCEPT ![n] = x] /\ d = x - s[n]
  OBVIOUS
<1>1. /\ s2 \in Seq(Int) /\ Len(s2) = m /\ s[n] \in Int /\ d \in Int /\ x = s[n] + d
      /\ s2[n] = x /\ \A k \in 1..m : k # n => s2[k] = s[k]
      /\ \A k \in 1..m : s[k] \in Int
  OBVIOUS
<1>2. Counted(Len(s2)) /\ Counted(m)
  BY <1>1
<1> PICK p, q : p = Sums(s) /\ q = Sums(s2)
  OBVIOUS
<1>3. /\ AreSums(p, s) /\ AreSums(q, s2)
      /\ Total(s) = p[m] /\ Total(s2) = q[Len(s2)] /\ Total(s) \in Int
  BY <1>1, <1>2, SumsAre
<1>4. /\ p \in [0..m -> Int] /\ p[0] = 0
      /\ \A k \in 1..m : p[k] = p[k - 1] + s[k]
      /\ q \in [0..m -> Int] /\ q[0] = 0
      /\ \A k \in 1..m : q[k] = q[k - 1] + s2[k]
  BY <1>1, <1>3 DEF AreSums
<1> PICK S : S = {k \in 0..m : q[k] = IF k < n THEN p[k] ELSE p[k] + d}
  OBVIOUS
<1>5. 0..m \subseteq S
  <2>1. 0 \in S
    BY <1>4
  <2>2. \A k \in 1..m : k - 1 \in S => k \in S
    <3> SUFFICES ASSUME NEW k \in 1..m, k - 1 \in S PROVE k \in S
      OBVIOUS
    <3>1. k \in 0..m /\ k - 1 \in 0..m
      OBVIOUS
    <3>2. p[k] = p[k - 1] + s[k] /\ q[k] = q[k - 1] + s2[k]
      BY <1>4
    <3>3. p[k - 1] \in Int /\ s[k] \in Int /\ d \in Int
      BY <1>1, <1>4, <3>1
    <3>4. q[k - 1] = IF k - 1 < n THEN p[k - 1] ELSE p[k - 1] + d
      OBVIOUS
    <3>5. CASE k < n
      <4>1. s2[k] = s[k] /\ q[k - 1] = p[k - 1]
        BY <1>1, <3>4, <3>5
      <4> QED BY <3>1, <3>2, <3>5, <4>1
    <3>6. CASE k = n
      <4>1. s2[k] = s[k] + d /\ q[k - 1] = p[k - 1]
        BY <1>1, <3>4, <3>6
      <4>2. q[k] = p[k] + d
        BY <3>2, <3>3, <4>1
      <4> QED BY <3>1, <3>6, <4>2
    <3>7. CASE k > n
      <4>1. s2[k] = s[k] /\ q[k - 1] = p[k - 1] + d /\ ~(k < n)
        BY <1>1, <3>4, <3>7
      <4>2. q[k] = p[k] + d
        BY <3>2, <3>3, <4>1
      <4> QED BY <3>1, <4>1, <4>2
    <3> QED BY <3>5, <3>6, <3>7
  <2> QED BY <1>2, <2>1, <2>2, Zenon DEF Counted
<1>6. q[m] = p[m] + d
  <2>1. m \in 0..m /\ ~(m < n)
    OBVIOUS
  <2> QED BY <1>5, <2>1
<1> QED BY <1>1, <1>3, <1>6
-----------------------------------------------------------------------------
(* What bets come to. *)

IsSeated(table, u) == \E k \in DOMAIN table.seats : table.seats[k] = u

\* Only who sits at a table has bets there, from the bets to the settlement.
BetsAreSeated(table) ==
    \A u \in Users : \/ IsSeated(table, u) /\ table.stage \in {BET, SETTLEMENT}
                     \/ table.bets[u] = NoBets[u]

OneEntryEach(record) == \A a, b \in DOMAIN record : record[a].user = record[b].user => a = b

LEMMA NoBetsNoChange ==
    ASSUME NEW u \in Users, NEW hands
    PROVE  Change(NoBets[u], hands) = 0
<1> PICK bets : bets = NoBets[u]
  OBVIOUS
<1>1. \A p \in Positions : bets[p] = 0
  BY DEF NoBets
<1>2. Commission \in Nat
  BY RoomAssumption
<1> DEFINE result(p) == IF Wins[hands][p] THEN bets[p] - (bets[p] * Commission) \div 100
                        ELSE -bets[p]
<1>3. \A p \in Positions : result(p) = 0
  <2> TAKE p \in Positions
  <2> PICK w : w = Wins[hands][p]
    OBVIOUS
  <2>1. result(p) = IF w THEN 0 - (0 * Commission) \div 100 ELSE -0
    BY <1>1, Zenon
  <2>2. 0 * Commission = 0 /\ 0 \div 100 = 0
    BY <1>2
  <2> QED BY <2>1, <2>2
<1>4. 1 \in Positions /\ 2 \in Positions /\ 3 \in Positions /\ 4 \in Positions
  BY DEF Positions
<1>5. Change(bets, hands) = result(1) + result(2) + result(3) + result(4)
  BY DEF Change
<1> HIDE DEF result
<1> QED BY <1>3, <1>4, <1>5

LEMMA ChangeOfTheEntry ==
    ASSUME NEW record \in Seq(Entry), OneEntryEach(record),
           NEW ns \in SUBSET DOMAIN record, NEW n \in ns
    PROVE  ChangeOf(record, record[n].user, ns) = record[n].change
<1> PICK u : u = record[n].user
  OBVIOUS
<1> PICK m : m = CHOOSE k \in ns : record[k].user = u
  OBVIOUS
<1>1. m \in ns /\ record[m].user = u
  OBVIOUS
<1>2. m = n
  BY <1>1 DEF OneEntryEach
<1>3. ChangeOf(record, u, ns) = record[m].change
  BY DEF ChangeOf
<1> QED BY <1>2, <1>3

\* A record changes a user by what is made of it and by what is lost.
LEMMA ChangeSplits ==
    ASSUME NEW record \in Seq(Entry), OneEntryEach(record),
           NEW made \in SUBSET Entries(record), NEW u
    PROVE  ChangeOf(record, u, Entries(record)) =
             ChangeOf(record, u, made) + ChangeOf(record, u, Entries(record) \ made)
<1> PICK all, lost : all = Entries(record) /\ lost = Entries(record) \ made
  OBVIOUS
<1>1. all \in SUBSET DOMAIN record /\ made \in SUBSET DOMAIN record
      /\ lost \in SUBSET DOMAIN record /\ made \subseteq all /\ lost \subseteq all
  BY DEF Entries
<1>2. /\ ChangeOf(record, u, all) \in Int /\ ChangeOf(record, u, made) \in Int
      /\ ChangeOf(record, u, lost) \in Int
  BY <1>1, ChangeOfEntries
<1>3. ASSUME NEW n \in made, record[n].user = u
      PROVE  ChangeOf(record, u, all) = ChangeOf(record, u, made) + ChangeOf(record, u, lost)
  <2>1. ChangeOf(record, u, all) = record[n].change
    BY <1>1, <1>3, ChangeOfTheEntry
  <2>2. ChangeOf(record, u, made) = record[n].change
    BY <1>1, <1>3, ChangeOfTheEntry
  <2>3. u \notin {record[k].user : k \in lost}
    <3> SUFFICES ASSUME NEW k \in lost, record[k].user = u PROVE FALSE
      OBVIOUS
    <3>1. k = n
      BY <1>1, <1>3 DEF OneEntryEach
    <3> QED BY <3>1
  <2>4. ChangeOf(record, u, lost) = 0
    BY <1>1, <2>3, ChangeOfEntries
  <2> QED BY <1>2, <2>1, <2>2, <2>4
<1>4. ASSUME NEW n \in lost, record[n].user = u
      PROVE  ChangeOf(record, u, all) = ChangeOf(record, u, made) + ChangeOf(record, u, lost)
  <2>1. ChangeOf(record, u, all) = record[n].change
    BY <1>1, <1>4, ChangeOfTheEntry
  <2>2. ChangeOf(record, u, lost) = record[n].change
    BY <1>1, <1>4, ChangeOfTheEntry
  <2>3. u \notin {record[k].user : k \in made}
    <3> SUFFICES ASSUME NEW k \in made, record[k].user = u PROVE FALSE
      OBVIOUS
    <3>1. k = n
      BY <1>1, <1>4 DEF OneEntryEach
    <3> QED BY <3>1
  <2>4. ChangeOf(record, u, made) = 0
    BY <1>1, <2>3, ChangeOfEntries
  <2> QED BY <1>2, <2>1, <2>2, <2>4
<1>5. ASSUME \A n \in all : record[n].user # u
      PROVE  ChangeOf(record, u, all) = ChangeOf(record, u, made) + ChangeOf(record, u, lost)
  <2>1. /\ u \notin {record[k].user : k \in all}
        /\ u \notin {record[k].user : k \in made}
        /\ u \notin {record[k].user : k \in lost}
    BY <1>1, <1>5
  <2>2. /\ ChangeOf(record, u, all) = 0 /\ ChangeOf(record, u, made) = 0
        /\ ChangeOf(record, u, lost) = 0
    BY <1>1, <2>1, ChangeOfEntries
  <2> QED BY <2>2
<1>6. \A n \in all : n \in made \/ n \in lost
  OBVIOUS
<1> QED BY <1>3, <1>4, <1>5, <1>6

\* The record of a table has one entry for each user, who gets what the bets come to.
LEMMA RecordPays ==
    ASSUME NEW table \in Table, IsInjective(table.seats), BetsAreSeated(table)
    PROVE  /\ OneEntryEach(Record(table))
           /\ \A u \in Users : ChangeOf(Record(table), u, Entries(Record(table))) =
                                 Change(table.bets[u], table.hands)
<1>1. /\ table.seats \in Seq(Users) /\ table.bets \in [Users -> [Positions -> Nat]]
  BY DEF Table
<1> PICK seats, bets, hands : seats = table.seats /\ bets = table.bets /\ hands = table.hands
  OBVIOUS
<1> PICK record : record = Record(table)
  OBVIOUS
<1>2. /\ DOMAIN record = DOMAIN seats
      /\ \A n \in DOMAIN seats : /\ record[n].user = seats[n]
                                 /\ record[n].change = Change(bets[seats[n]], hands)
  BY DEF Record
<1>3. record \in Seq(Entry)
  BY RecordType
<1>4. \A a, b \in DOMAIN seats : seats[a] = seats[b] => a = b
  BY DEF IsInjective
<1>5. OneEntryEach(record)
  BY <1>2, <1>4 DEF OneEntryEach
<1>6. Entries(record) \in SUBSET DOMAIN record
  BY DEF Entries
<1>7. ASSUME NEW u \in Users
      PROVE  ChangeOf(record, u, Entries(record)) = Change(bets[u], hands)
  <2>1. CASE \E n \in Entries(record) : record[n].user = u
    <3> PICK n \in Entries(record) : record[n].user = u
      BY <2>1
    <3>1. ChangeOf(record, u, Entries(record)) = record[n].change
      BY <1>3, <1>5, <1>6, ChangeOfTheEntry
    <3>2. n \in DOMAIN seats
      BY <1>2, <1>6
    <3> QED BY <1>2, <3>1, <3>2
  <2>2. CASE \A n \in Entries(record) : record[n].user # u
    <3>1. ChangeOf(record, u, Entries(record)) = 0
      <4>1. u \notin {record[k].user : k \in Entries(record)}
        BY <2>2
      <4> QED BY <1>3, <1>6, <4>1, ChangeOfEntries
    <3>2. CASE IsSeated(table, u)
      <4> PICK k \in DOMAIN seats : seats[k] = u
        BY <3>2 DEF IsSeated
      <4>1. k \in DOMAIN record /\ record[k].user = u /\ record[k].change = Change(bets[u], hands)
        BY <1>2
      <4>2. k \notin Entries(record)
        BY <2>2, <4>1
      <4>3. record[k].change = 0
        BY <4>1, <4>2 DEF Entries
      <4> QED BY <3>1, <4>1, <4>3
    <3>3. CASE ~IsSeated(table, u)
      <4>1. bets[u] = NoBets[u]
        BY <3>3 DEF BetsAreSeated
      <4>2. Change(NoBets[u], hands) = 0
        BY NoBetsNoChange
      <4> QED BY <3>1, <4>1, <4>2
    <3> QED BY <3>2, <3>3
  <2> QED BY <2>1, <2>2
<1> QED BY <1>5, <1>7
-----------------------------------------------------------------------------
(* What is pending at tables and under way in records, and how it changes. *)

LEMMA IsSeqOf ==
    ASSUME NEW n \in Nat, NEW s \in [1..n -> Int]
    PROVE  s \in Seq(Int) /\ Len(s) = n
  OBVIOUS

LEMMA OutcomesType ==
    ASSUME NEW ts \in Seq(Table), NEW u \in Users
    PROVE  /\ Outcomes(ts, u) \in Seq(Int) /\ Len(Outcomes(ts, u)) = Len(ts)
           /\ \A n \in 1..Len(ts) : Outcomes(ts, u)[n] = Outcome(ts[n], u)
<1>1. DOMAIN ts = 1..Len(ts) /\ Len(ts) \in Nat
  OBVIOUS
<1>2. ASSUME NEW table \in Table PROVE Outcome(table, u) \in Int
  <2>1. table.bets[u] \in [Positions -> Nat]
    BY DEF Table
  <2>2. Change(table.bets[u], table.hands) \in Int
    BY <2>1, ChangeIsInt
  <2> QED BY <2>2 DEF Outcome
<1>3. Outcomes(ts, u) = [n \in 1..Len(ts) |-> Outcome(ts[n], u)]
  BY <1>1 DEF Outcomes
<1>4. \A n \in 1..Len(ts) : Outcome(ts[n], u) \in Int
  <2> TAKE n \in 1..Len(ts)
  <2>1. ts[n] \in Table
    BY <1>1
  <2> QED BY <1>2, <2>1
<1>5. Outcomes(ts, u) \in [1..Len(ts) -> Int]
  BY <1>3, <1>4
<1>6. Outcomes(ts, u) \in Seq(Int)
  BY <1>1, <1>5, SeqDef
<1> QED BY <1>1, <1>3, <1>5, <1>6

LEMMA ChangesType ==
    ASSUME NEW records \in Seq(Seq(Entry)), NEW u \in Users
    PROVE  /\ Changes(records, u) \in Seq(Int) /\ Len(Changes(records, u)) = Len(records)
           /\ \A m \in 1..Len(records) :
                Changes(records, u)[m] = ChangeOf(records[m], u, Entries(records[m]))
<1>1. DOMAIN records = 1..Len(records) /\ Len(records) \in Nat
  OBVIOUS
<1>2. ASSUME NEW record \in Seq(Entry) PROVE ChangeOf(record, u, Entries(record)) \in Int
  <2>1. Entries(record) \in SUBSET DOMAIN record
    BY DEF Entries
  <2> QED BY <2>1, ChangeOfEntries
<1> PICK s : s = Changes(records, u)
  OBVIOUS
<1>3. s = [m \in 1..Len(records) |-> ChangeOf(records[m], u, Entries(records[m]))]
  BY <1>1 DEF Changes
<1>4. \A m \in 1..Len(records) : ChangeOf(records[m], u, Entries(records[m])) \in Int
  <2> TAKE m \in 1..Len(records)
  <2>1. records[m] \in Seq(Entry)
    BY <1>1
  <2> QED BY <1>2, <2>1
<1>5. s \in [1..Len(records) -> Int]
  BY <1>3, <1>4
<1>6. s \in Seq(Int) /\ Len(s) = Len(records)
  BY <1>1, <1>5, IsSeqOf
<1>7. \A m \in 1..Len(records) : s[m] = ChangeOf(records[m], u, Entries(records[m]))
  BY <1>3
<1> QED BY <1>6, <1>7

LEMMA PendingIsInt ==
    ASSUME NEW ts \in Seq(Table), Counted(Len(ts)), NEW u \in Users
    PROVE  Total(Outcomes(ts, u)) \in Int
<1>1. Outcomes(ts, u) \in Seq(Int) /\ Counted(Len(Outcomes(ts, u)))
  BY OutcomesType
<1> QED BY <1>1, SumsAre

LEMMA InFlightIsInt ==
    ASSUME NEW records \in Seq(Seq(Entry)), Counted(Len(records)), NEW u \in Users
    PROVE  Total(Changes(records, u)) \in Int
<1>1. Changes(records, u) \in Seq(Int) /\ Counted(Len(Changes(records, u)))
  BY ChangesType
<1> QED BY <1>1, SumsAre

\* A sequence is one more than another, or the other with one changed.
LEMMA IsAppend ==
    ASSUME NEW s \in Seq(Int), NEW s2 \in Seq(Int), NEW x \in Int,
           Len(s2) = Len(s) + 1, s2[Len(s) + 1] = x,
           \A k \in 1..Len(s) : s2[k] = s[k]
    PROVE  s2 = Append(s, x)
<1> PICK n \in Nat : n = Len(s)
  OBVIOUS
<1> PICK s3 : s3 = Append(s, x)
  OBVIOUS
<1>1. /\ s3 \in Seq(Int) /\ Len(s3) = n + 1 /\ s3[n + 1] = x
      /\ \A k \in 1..n : s3[k] = s[k]
  BY AppendProperties
<1>2. \A k \in 1..(n + 1) : s2[k] = s3[k]
  <2> TAKE k \in 1..(n + 1)
  <2>1. k \in 1..n \/ k = n + 1
    OBVIOUS
  <2> QED BY <1>1, <2>1
<1>3. Len(s2) = n + 1
  OBVIOUS
<1> QED BY <1>1, <1>2, <1>3, SeqEqual

LEMMA TotalMoves ==
    ASSUME NEW s \in Seq(Int), NEW s2 \in Seq(Int), NEW n \in 1..Len(s), Counted(Len(s)),
           Len(s2) = Len(s), \A k \in 1..Len(s) : k # n => s2[k] = s[k]
    PROVE  Total(s2) = Total(s) + s2[n] - s[n]
<1> PICK x : x = s2[n]
  OBVIOUS
<1>1. x \in Int
  OBVIOUS
<1>2. s2 = [s EXCEPT ![n] = x]
  OBVIOUS
<1> QED BY <1>1, <1>2, TotalPut

\* A table is added.
LEMMA PendingAppend ==
    ASSUME NEW ts \in Seq(Table), Counted(Len(ts)), NEW t \in Table, NEW u \in Users
    PROVE  Total(Outcomes(Append(ts, t), u)) = Total(Outcomes(ts, u)) + Outcome(t, u)
<1> PICK ts2 : ts2 = Append(ts, t)
  OBVIOUS
<1> PICK s, s2, x : s = Outcomes(ts, u) /\ s2 = Outcomes(ts2, u) /\ x = Outcome(t, u)
  OBVIOUS
<1> PICK n \in Nat : n = Len(ts)
  OBVIOUS
<1>1. /\ ts2 \in Seq(Table) /\ Len(ts2) = n + 1 /\ ts2[n + 1] = t
      /\ \A k \in 1..n : ts2[k] = ts[k]
  BY AppendProperties
<1>2. s \in Seq(Int) /\ Len(s) = n /\ \A k \in 1..n : s[k] = Outcome(ts[k], u)
  BY OutcomesType
<1>3. s2 \in Seq(Int) /\ Len(s2) = n + 1 /\ \A k \in 1..(n + 1) : s2[k] = Outcome(ts2[k], u)
  BY <1>1, OutcomesType
<1>4. n + 1 \in 1..(n + 1) /\ \A k \in 1..n : k \in 1..(n + 1)
  OBVIOUS
<1>5. s2[n + 1] = x /\ x \in Int
  BY <1>1, <1>3, <1>4
<1>6. \A k \in 1..n : s2[k] = s[k]
  BY <1>1, <1>2, <1>3, <1>4
<1>7. s2 = Append(s, x)
  BY <1>2, <1>3, <1>5, <1>6, IsAppend
<1>8. Counted(Len(s))
  BY <1>2
<1> QED BY <1>2, <1>5, <1>7, <1>8, TotalAppend

\* A table goes on to another state.
LEMMA PendingMoves ==
    ASSUME NEW ts \in Seq(Table), NEW ts2 \in Seq(Table), NEW n \in 1..Len(ts),
           Counted(Len(ts)), Len(ts2) = Len(ts),
           \A k \in 1..Len(ts) : k # n => ts2[k] = ts[k], NEW u \in Users
    PROVE  /\ Total(Outcomes(ts2, u)) =
                Total(Outcomes(ts, u)) + Outcome(ts2[n], u) - Outcome(ts[n], u)
           /\ Outcome(ts2[n], u) \in Int /\ Outcome(ts[n], u) \in Int
<1> PICK s, s2 : s = Outcomes(ts, u) /\ s2 = Outcomes(ts2, u)
  OBVIOUS
<1> PICK m \in Nat : m = Len(ts)
  OBVIOUS
<1>1. s \in Seq(Int) /\ Len(s) = m /\ \A k \in 1..m : s[k] = Outcome(ts[k], u)
  BY OutcomesType
<1>2. s2 \in Seq(Int) /\ Len(s2) = m /\ \A k \in 1..m : s2[k] = Outcome(ts2[k], u)
  BY OutcomesType
<1>3. s[n] = Outcome(ts[n], u) /\ s2[n] = Outcome(ts2[n], u)
  BY <1>1, <1>2
<1>4. s[n] \in Int /\ s2[n] \in Int
  BY <1>1, <1>2
<1>5. \A k \in 1..m : k # n => s2[k] = s[k]
  BY <1>1, <1>2
<1>6. Counted(Len(s)) /\ n \in 1..Len(s) /\ Len(s2) = Len(s)
  BY <1>1, <1>2
<1>7. Total(s2) = Total(s) + s2[n] - s[n]
  BY <1>1, <1>2, <1>5, <1>6, TotalMoves
<1> QED BY <1>3, <1>4, <1>7

LEMMA PendingPut ==
    ASSUME NEW ts \in Seq(Table), Counted(Len(ts)), NEW n \in DOMAIN ts, NEW t \in Table,
           NEW u \in Users
    PROVE  /\ Total(Outcomes([ts EXCEPT ![n] = t], u)) =
                Total(Outcomes(ts, u)) + Outcome(t, u) - Outcome(ts[n], u)
           /\ Outcome(t, u) \in Int /\ Outcome(ts[n], u) \in Int
<1> DEFINE ts2 == [ts EXCEPT ![n] = t]
<1>1. /\ ts2 \in Seq(Table) /\ Len(ts2) = Len(ts) /\ ts2[n] = t /\ n \in 1..Len(ts)
      /\ \A k \in 1..Len(ts) : k # n => ts2[k] = ts[k]
  OBVIOUS
<1> HIDE DEF ts2
<1>2. /\ Total(Outcomes(ts2, u)) =
           Total(Outcomes(ts, u)) + Outcome(ts2[n], u) - Outcome(ts[n], u)
      /\ Outcome(ts2[n], u) \in Int /\ Outcome(ts[n], u) \in Int
  BY <1>1, PendingMoves
<1> QED BY <1>1, <1>2 DEF ts2

\* A record is sent, or is the first to arrive.
LEMMA InFlightAppend ==
    ASSUME NEW records \in Seq(Seq(Entry)), Counted(Len(records)),
           NEW record \in Seq(Entry), NEW u \in Users
    PROVE  Total(Changes(Append(records, record), u)) =
             Total(Changes(records, u)) + ChangeOf(record, u, Entries(record))
<1> PICK ts2 : ts2 = Append(records, record)
  OBVIOUS
<1> PICK s, s2, x : /\ s = Changes(records, u) /\ s2 = Changes(ts2, u)
                    /\ x = ChangeOf(record, u, Entries(record))
  OBVIOUS
<1> PICK n \in Nat : n = Len(records)
  OBVIOUS
<1>1. /\ ts2 \in Seq(Seq(Entry)) /\ Len(ts2) = n + 1 /\ ts2[n + 1] = record
      /\ \A k \in 1..n : ts2[k] = records[k]
  BY AppendProperties
<1>2. /\ s \in Seq(Int) /\ Len(s) = n
      /\ \A k \in 1..n : s[k] = ChangeOf(records[k], u, Entries(records[k]))
  BY ChangesType
<1>3. /\ s2 \in Seq(Int) /\ Len(s2) = n + 1
      /\ \A k \in 1..(n + 1) : s2[k] = ChangeOf(ts2[k], u, Entries(ts2[k]))
  BY <1>1, ChangesType
<1>4. n + 1 \in 1..(n + 1) /\ \A k \in 1..n : k \in 1..(n + 1)
  OBVIOUS
<1>5. s2[n + 1] = x /\ x \in Int
  <2>1. s2[n + 1] = ChangeOf(ts2[n + 1], u, Entries(ts2[n + 1]))
    BY <1>3, <1>4
  <2>2. s2[n + 1] = x
    BY <1>1, <2>1
  <2>3. s2[n + 1] \in Int
    BY <1>3, <1>4
  <2> QED BY <2>2, <2>3
<1>6. \A k \in 1..n : s2[k] = s[k]
  BY <1>1, <1>2, <1>3, <1>4
<1>7. s2 = Append(s, x)
  BY <1>2, <1>3, <1>5, <1>6, IsAppend
<1>8. Counted(Len(s))
  BY <1>2
<1> QED BY <1>2, <1>5, <1>7, <1>8, TotalAppend

LEMMA InFlightTail ==
    ASSUME NEW records \in Seq(Seq(Entry)), Counted(Len(records)), records # <<>>,
           NEW u \in Users
    PROVE  Total(Changes(records, u)) =
             ChangeOf(Head(records), u, Entries(Head(records))) + Total(Changes(Tail(records), u))
<1> PICK rest : rest = Tail(records)
  OBVIOUS
<1> PICK s, s2 : s = Changes(records, u) /\ s2 = Changes(rest, u)
  OBVIOUS
<1> PICK n \in Nat : Len(records) = n + 1
  <2>1. Len(records) \in Nat /\ Len(records) # 0
    OBVIOUS
  <2>2. Len(records) - 1 \in Nat /\ Len(records) = (Len(records) - 1) + 1
    BY <2>1
  <2> QED BY <2>2
<1>1. /\ rest \in Seq(Seq(Entry)) /\ Len(rest) = n /\ Head(records) = records[1]
      /\ \A k \in 1..n : rest[k] = records[k + 1]
  BY HeadTailProperties
<1>2. /\ s \in Seq(Int) /\ Len(s) = n + 1
      /\ \A k \in 1..(n + 1) : s[k] = ChangeOf(records[k], u, Entries(records[k]))
  BY ChangesType
<1>3. /\ s2 \in Seq(Int) /\ Len(s2) = n
      /\ \A k \in 1..n : s2[k] = ChangeOf(rest[k], u, Entries(rest[k]))
  BY <1>1, ChangesType
<1>4. s # <<>> /\ Counted(Len(s))
  BY <1>2
<1>5. /\ Head(s) = s[1] /\ Tail(s) \in Seq(Int) /\ Len(Tail(s)) = n
      /\ \A k \in 1..n : Tail(s)[k] = s[k + 1]
  BY <1>2, <1>4, HeadTailProperties
<1>6. 1 \in 1..(n + 1) /\ \A k \in 1..n : k + 1 \in 1..(n + 1)
  OBVIOUS
<1>7. \A k \in 1..n : Tail(s)[k] = s2[k]
  BY <1>1, <1>2, <1>3, <1>5, <1>6
<1>8. Tail(s) = s2
  BY <1>3, <1>5, <1>7, SeqEqual
<1>9. Head(s) = ChangeOf(Head(records), u, Entries(Head(records)))
  BY <1>1, <1>2, <1>5, <1>6
<1> QED BY <1>2, <1>4, <1>8, <1>9, TotalTail
-----------------------------------------------------------------------------
(* The gold is accounted for.  The bets of a table are those of the users who
   sit there, every record has one entry for a user, and who has no object has
   no gold. *)

SeatsInv ==
    /\ \A u \in Users : tableOf[u] # 0 => IsSeated(tables[tableOf[u]], u)
    /\ \A n \in DOMAIN tables : BetsAreSeated(tables[n])
    /\ \A m \in DOMAIN toLogic : OneEntryEach(toLogic[m])

NoObjectNoGold == \A u \in Users : ~cached[u] => gold[u] = 0

AccountInv ==
    /\ Counted(Len(tables)) /\ Counted(Len(toLogic))
    /\ SeatsInv /\ NoObjectNoGold /\ GoldIsAccountedFor

\* What a step that leaves tables and records alone changes is in the ledger.
LEMMA GoldMoves ==
    ASSUME RoomInv, AccountInv, tables' = tables, tableOf' = tableOf, toLogic' = toLogic,
           \A u \in Users : gold'[u] - gold[u] = ledger'[u] - ledger[u],
           RoomInv', NoObjectNoGold'
    PROVE  AccountInv'
<1>1. SeatsInv' /\ Counted(Len(tables))' /\ Counted(Len(toLogic))'
  BY DEF AccountInv, SeatsInv
<1>2. ASSUME NEW u \in Users
      PROVE  gold'[u] + Pending(u)' + InFlight(u)' = ledger'[u]
  <2>1. Pending(u)' = Pending(u) /\ InFlight(u)' = InFlight(u)
    BY DEF Pending, InFlight
  <2>2. Total(Outcomes(tables, u)) \in Int /\ Total(Changes(toLogic, u)) \in Int
    BY PendingIsInt, InFlightIsInt DEF AccountInv, RoomInv, TableTypes, MessageTypes
  <2>3. Pending(u) \in Int /\ InFlight(u) \in Int
    BY <2>2 DEF Pending, InFlight
  <2>4. gold[u] \in Int /\ ledger[u] \in Int /\ gold'[u] \in Int /\ ledger'[u] \in Int
    BY DEF RoomInv, GoldTypes
  <2>5. gold[u] + Pending(u) + InFlight(u) = ledger[u]
    BY DEF AccountInv, GoldIsAccountedFor
  <2> QED BY <2>1, <2>3, <2>4, <2>5
<1>3. GoldIsAccountedFor'
  BY <1>2 DEF GoldIsAccountedFor
<1> QED BY <1>1, <1>3 DEF AccountInv

\* So is a step that changes no gold.
LEMMA NothingMoves ==
    ASSUME RoomInv, AccountInv, UNCHANGED <<gold, cached, toLogic, tables, tableOf, ledger>>
    PROVE  AccountInv'
  BY DEF AccountInv, SeatsInv, NoObjectNoGold, GoldIsAccountedFor, Pending, InFlight

LEMMA EnterRoomAccounts ==
    ASSUME RoomInv, AccountInv, NEW u \in Users, EnterRoom(u), RoomInv'
    PROVE  AccountInv'
<1>1. UNCHANGED <<cached, toLogic, tables, tableOf, ledger>> /\ Commit(u, dirty[u], gold[u])
  BY DEF EnterRoom, room
<1>2. gold' = gold
  BY <1>1 DEF Commit, RoomInv, GoldTypes
<1>3. \A v \in Users : gold'[v] - gold[v] = ledger'[v] - ledger[v]
  <2>1. \A v \in Users : gold[v] \in Int /\ ledger[v] \in Int
    BY DEF RoomInv, GoldTypes
  <2> QED BY <1>1, <1>2, <2>1
<1>4. NoObjectNoGold'
  BY <1>1, <1>2 DEF AccountInv, NoObjectNoGold
<1> QED BY <1>1, <1>3, <1>4, GoldMoves

\* The ledger has what a request makes of the gold.
LEMMA SetsGoldAccounts ==
    ASSUME RoomInv, AccountInv, NEW u \in Users, cached[u], NEW amount \in Int,
           gold' = [gold EXCEPT ![u] = amount],
           ledger' = [ledger EXCEPT ![u] = @ + amount - gold[u]],
           UNCHANGED <<cached, toLogic, tables, tableOf>>, RoomInv'
    PROVE  AccountInv'
<1>1. \A v \in Users : gold[v] \in Int /\ ledger[v] \in Int
  BY DEF RoomInv, GoldTypes
<1>2. \A v \in Users : gold'[v] - gold[v] = ledger'[v] - ledger[v]
  BY <1>1 DEF RoomInv, GoldTypes
<1>3. NoObjectNoGold'
  <2>1. \A v \in Users : v # u => gold'[v] = gold[v]
    BY DEF RoomInv, GoldTypes
  <2> QED BY <2>1 DEF AccountInv, NoObjectNoGold
<1> QED BY <1>2, <1>3, GoldMoves

LEMMA BuyRoomCardAccounts ==
    ASSUME RoomInv, AccountInv, NEW u \in Users, BuyRoomCard(u), RoomInv'
    PROVE  AccountInv'
<1>1. UNCHANGED <<cached, toLogic, tables, tableOf>> /\ cached[u]
  BY DEF BuyRoomCard, room
<1>2. gold[u] \in Int /\ ledger[u] \in Int /\ Price \in Int
  BY RoomAssumption DEF RoomInv, GoldTypes
<1>3. \/ /\ gold' = [gold EXCEPT ![u] = gold[u] - Price]
         /\ ledger' = [ledger EXCEPT ![u] = @ - Price]
      \/ gold' = [gold EXCEPT ![u] = gold[u]] /\ ledger' = ledger
  BY Zenon DEF BuyRoomCard, Commit
<1>4. CASE /\ gold' = [gold EXCEPT ![u] = gold[u] - Price]
           /\ ledger' = [ledger EXCEPT ![u] = @ - Price]
  <2> PICK amount \in Int : amount = gold[u] - Price
    BY <1>2
  <2>1. ledger[u] - Price = ledger[u] + amount - gold[u]
    BY <1>2
  <2>2. ledger' = [ledger EXCEPT ![u] = @ + amount - gold[u]] /\ gold' = [gold EXCEPT ![u] = amount]
    BY <1>4, <2>1
  <2> QED BY <1>1, <2>2, SetsGoldAccounts
<1>5. CASE gold' = [gold EXCEPT ![u] = gold[u]] /\ ledger' = ledger
  <2>1. gold' = gold
    BY <1>5 DEF RoomInv, GoldTypes
  <2> QED BY <1>1, <1>5, <2>1, NothingMoves
<1> QED BY <1>3, <1>4, <1>5

LEMMA SetGoldAccounts ==
    ASSUME RoomInv, AccountInv, NEW u \in Users, NEW amount \in Amounts, SetGold(u, amount),
           RoomInv'
    PROVE  AccountInv'
<1>1. /\ UNCHANGED <<cached, toLogic, tables, tableOf>> /\ cached[u]
      /\ gold' = [gold EXCEPT ![u] = amount]
      /\ ledger' = [ledger EXCEPT ![u] = @ + amount - gold[u]]
  BY DEF SetGold, Commit, room
<1>2. amount \in Int
  BY RoomAssumption
<1> QED BY <1>1, <1>2, SetsGoldAccounts

LEMMA RequestAccounts ==
    ASSUME RoomInv, AccountInv, NEW u \in Users, Request(u), RoomInv'
    PROVE  AccountInv'
<1>1. UNCHANGED <<cached, toLogic, tables, tableOf, ledger>> /\ gold' = [gold EXCEPT ![u] = gold[u]]
  BY DEF Request, Commit, room
<1>2. gold' = gold
  BY <1>1 DEF RoomInv, GoldTypes
<1> QED BY <1>1, <1>2, NothingMoves

LEMMA FriendSavesAccounts ==
    ASSUME RoomInv, AccountInv, NEW u \in Users, FriendSaves(u), RoomInv'
    PROVE  AccountInv'
  BY NothingMoves DEF FriendSaves, room

LEMMA ReleaseAccounts ==
    ASSUME RoomInv, AccountInv, NEW u \in Users, Release(u), RoomInv'
    PROVE  AccountInv'
<1>1. /\ UNCHANGED <<toLogic, tables, tableOf>>
      /\ cached' = [cached EXCEPT ![u] = FALSE]
      /\ gold' = [gold EXCEPT ![u] = 0]
      /\ ledger' = [ledger EXCEPT ![u] = @ - gold[u]]
  BY DEF Release, room
<1>2. \A v \in Users : gold[v] \in Int /\ ledger[v] \in Int
  BY DEF RoomInv, GoldTypes
<1>3. \A v \in Users : gold'[v] - gold[v] = ledger'[v] - ledger[v]
  BY <1>1, <1>2 DEF RoomInv, GoldTypes
<1>4. NoObjectNoGold'
  <2> SUFFICES ASSUME NEW v \in Users, ~cached'[v] PROVE gold'[v] = 0
    BY DEF NoObjectNoGold
  <2>1. CASE v = u
    BY <1>1, <2>1 DEF RoomInv, GoldTypes
  <2>2. CASE v # u
    <3>1. ~cached[v] /\ gold'[v] = gold[v]
      BY <1>1, <2>2 DEF RoomInv, GoldTypes, FlagTypes
    <3> QED BY <3>1 DEF AccountInv, NoObjectNoGold
  <2> QED BY <2>1, <2>2
<1> QED BY <1>1, <1>3, <1>4, GoldMoves

LEMMA GetValueAccounts ==
    ASSUME RoomInv, AccountInv, NEW u \in Users, NEW for \in {"enter", "friend"},
           GetValue(u, for), RoomInv'
    PROVE  AccountInv'
  BY NothingMoves DEF GetValue, logic, room

\* The ledger has what an answer makes of the gold, whatever object there was.
LEMMA EnterHallAccounts ==
    ASSUME RoomInv, AccountInv, OnResponseEnterHallEvent, RoomInv'
    PROVE  AccountInv'
<1> PICK u, amount : u = Head(answers).user /\ amount = Head(answers).gold
  OBVIOUS
<1>1. /\ UNCHANGED <<toLogic, tables, tableOf>> /\ answers # <<>>
      /\ cached' = [cached EXCEPT ![u] = TRUE]
      /\ gold' = [gold EXCEPT ![u] = amount]
      /\ ledger' = [ledger EXCEPT ![u] = @ + amount - gold[u]]
  BY DEF OnResponseEnterHallEvent, room
<1>2. u \in Users /\ amount \in Int
  <2>1. Head(answers) \in Answer
    BY <1>1, TailIsCurrent DEF RoomInv, DatabaseInv
  <2> QED BY <2>1 DEF Answer
<1>3. \A v \in Users : gold[v] \in Int /\ ledger[v] \in Int
  BY DEF RoomInv, GoldTypes
<1>4. \A v \in Users : gold'[v] - gold[v] = ledger'[v] - ledger[v]
  <2> SUFFICES ASSUME NEW v \in Users PROVE gold'[v] - gold[v] = ledger'[v] - ledger[v]
    OBVIOUS
  <2>1. CASE v = u
    <3>1. gold'[u] = amount /\ ledger'[u] = ledger[u] + amount - gold[u]
      BY <1>1, <1>2 DEF RoomInv, GoldTypes
    <3> QED BY <1>2, <1>3, <2>1, <3>1
  <2>2. CASE v # u
    <3>1. gold'[v] = gold[v] /\ ledger'[v] = ledger[v]
      BY <1>1, <2>2 DEF RoomInv, GoldTypes
    <3> QED BY <1>3, <3>1
  <2> QED BY <2>1, <2>2
<1>5. NoObjectNoGold'
  <2> SUFFICES ASSUME NEW v \in Users, ~cached'[v] PROVE gold'[v] = 0
    BY DEF NoObjectNoGold
  <2>1. v # u
    BY <1>1 DEF RoomInv, FlagTypes
  <2>2. ~cached[v] /\ gold'[v] = gold[v]
    BY <1>1, <2>1 DEF RoomInv, GoldTypes, FlagTypes
  <2> QED BY <2>2 DEF AccountInv, NoObjectNoGold
<1> QED BY <1>1, <1>4, <1>5, GoldMoves

LEMMA FriendAnswerAccounts ==
    ASSUME RoomInv, AccountInv, FriendAnswer, RoomInv'
    PROVE  AccountInv'
  BY NothingMoves DEF FriendAnswer, logic, room

\* What arrives is made or lost, and has been on its way.
LEMMA GameSettlementAccounts ==
    ASSUME RoomInv, AccountInv, GameSettlement, RoomInv'
    PROVE  AccountInv'
<1> PICK record : record = Head(toLogic)
  OBVIOUS
<1> PICK made : made = Made(record, cached)
  OBVIOUS
<1>1. /\ UNCHANGED <<cached, tables, tableOf>>
      /\ toLogic # <<>> /\ toLogic' = Tail(toLogic)
  BY DEF GameSettlement, room
<1>2. /\ gold' = [u \in Users |-> gold[u] + ChangeOf(record, u, made)]
      /\ ledger' = [u \in Users |->
                     ledger[u] - ChangeOf(record, u, Entries(record) \ made)]
  BY DEF GameSettlement
<1>3. toLogic \in Seq(Seq(Entry)) /\ record \in Seq(Entry)
  BY <1>1, HeadTailProperties DEF RoomInv, MessageTypes
<1>4. Len(toLogic') \in Nat /\ Len(toLogic) = Len(toLogic') + 1
      /\ 1 \in DOMAIN toLogic /\ record = toLogic[1]
      /\ \A m \in DOMAIN toLogic' : m + 1 \in DOMAIN toLogic /\ toLogic'[m] = toLogic[m + 1]
  BY <1>1, <1>3, HeadTailProperties
<1>5. Counted(Len(toLogic))
  BY DEF AccountInv
<1>6. Counted(Len(toLogic')) /\ Counted(Len(tables'))
  BY <1>1, <1>4, <1>5, CountedLess DEF AccountInv
<1>7. OneEntryEach(record)
  BY <1>4 DEF AccountInv, SeatsInv
<1>8. SeatsInv'
  BY <1>1, <1>4 DEF AccountInv, SeatsInv
<1>9. /\ made \in SUBSET DOMAIN record /\ Entries(record) \ made \in SUBSET DOMAIN record
      /\ Entries(record) \in SUBSET DOMAIN record /\ made \in SUBSET Entries(record)
  BY DEF Entries, Made
<1>10. NoObjectNoGold'
  <2> SUFFICES ASSUME NEW u \in Users, ~cached'[u] PROVE gold'[u] = 0
    BY DEF NoObjectNoGold
  <2>1. gold[u] = 0 /\ ~cached[u]
    BY <1>1 DEF AccountInv, NoObjectNoGold
  <2>2. u \notin {record[k].user : k \in made}
    <3> SUFFICES ASSUME NEW k \in made, record[k].user = u PROVE FALSE
      OBVIOUS
    <3>1. k \in Nat
      BY <1>3, <1>9
    <3>2. k <= k
      BY <3>1
    <3> QED BY <2>1, <3>2 DEF Made
  <2>3. ChangeOf(record, u, made) = 0
    BY <1>3, <1>9, <2>2, ChangeOfEntries
  <2> QED BY <1>2, <2>1, <2>3
<1>11. ASSUME NEW u \in Users
       PROVE  gold'[u] + Pending(u)' + InFlight(u)' = ledger'[u]
  <2>p. PICK all, done, lost :
        /\ all = ChangeOf(record, u, Entries(record))
        /\ done = ChangeOf(record, u, made)
        /\ lost = ChangeOf(record, u, Entries(record) \ made)
    OBVIOUS
  <2>1. done \in Int /\ lost \in Int
    BY <2>p, <1>3, <1>9, ChangeOfEntries
  <2>2. all = done + lost
    BY <2>p, <1>3, <1>7, <1>9, ChangeSplits
  <2>q. PICK p, p2, f, f2 : /\ p = Pending(u) /\ p2 = Pending(u)'
                            /\ f = InFlight(u) /\ f2 = InFlight(u)'
    OBVIOUS
  <2>3. p2 = p
    BY <2>q, <1>1 DEF Pending
  <2>4. p \in Int
    BY <2>q, PendingIsInt DEF Pending, AccountInv, RoomInv, TableTypes
  <2>5. f2 \in Int
    <3>1. Tail(toLogic) \in Seq(Seq(Entry)) /\ Counted(Len(Tail(toLogic)))
      BY <1>1, <1>3, <1>6, HeadTailProperties
    <3>2. Total(Changes(Tail(toLogic), u)) \in Int
      BY <3>1, InFlightIsInt
    <3> QED BY <2>q, <1>1, <3>2 DEF InFlight
  <2>6. f = all + f2
    <3>1. Total(Changes(toLogic, u)) = all + Total(Changes(Tail(toLogic), u))
      BY <2>p, <1>1, <1>3, <1>5, InFlightTail
    <3>2. f = Total(Changes(toLogic, u)) /\ f2 = Total(Changes(Tail(toLogic), u))
      BY <2>q, <1>1, Zenon DEF InFlight
    <3> QED BY <3>1, <3>2, Zenon
  <2>7. gold[u] \in Int /\ ledger[u] \in Int /\ gold[u] + p + f = ledger[u]
    BY <2>q DEF RoomInv, GoldTypes, AccountInv, GoldIsAccountedFor
  <2>8. gold'[u] = gold[u] + done /\ ledger'[u] = ledger[u] - lost
    BY <2>p, <1>2
  <2>9. gold'[u] + p2 + f2 = ledger'[u]
    BY <2>1, <2>2, <2>3, <2>4, <2>5, <2>6, <2>7, <2>8
  <2> QED BY <2>q, <2>9
<1>12. GoldIsAccountedFor'
  BY <1>11 DEF GoldIsAccountedFor
<1> QED BY <1>6, <1>8, <1>10, <1>12 DEF AccountInv
\* A table begins without bets.
LEMMA NewTableHasNoBets ==
    ASSUME NEW table \in Table, table.bets = NoBets, table.stage = INIT, NEW deal \in Deals
    PROVE  /\ BetsAreSeated(CheckState(table, deal))
           /\ \A u \in Users : Outcome(CheckState(table, deal), u) = 0
<1> PICK t : t = CheckState(table, deal)
  OBVIOUS
<1>1. t.bets = NoBets /\ t.stage # BET
  <2>1. INIT # BET /\ INIT + 1 # BET
    BY DEF INIT, BET
  <2>2. InitGame(table, deal).bets = NoBets /\ InitGame(table, deal).stage = INIT + 1
    BY DEF InitGame, Table
  <2> QED BY <2>1, <2>2 DEF CheckState
<1> QED BY <1>1 DEF BetsAreSeated, Outcome

LEMMA ClientEnterRoomAccounts ==
    ASSUME RoomInv, AccountInv, NEW deal \in Deals, ClientEnterRoom(deal), RoomInv'
    PROVE  AccountInv'
<1> PICK v : v = Head(toRoom).user
  OBVIOUS
<1> PICK table : table = [seats |-> <<v>>, stage |-> INIT, bets |-> NoBets, hands |-> deal]
  OBVIOUS
<1> PICK t : t = CheckState(table, deal)
  OBVIOUS
<1> PICK n \in Nat : n = Len(tables)
  BY DEF RoomInv, TableTypes
<1>1. /\ UNCHANGED <<gold, cached, toLogic, ledger>> /\ toRoom # <<>>
      /\ tables' = Append(tables, t)
      /\ tableOf' = [tableOf EXCEPT ![v] = n + 1]
  BY DEF ClientEnterRoom, logic
<1>2. tables \in Seq(Table) /\ tableOf \in [Users -> 0..n] /\ DOMAIN tables = 1..n
  BY DEF RoomInv, TableTypes
<1>3. v \in Users
  <2>1. Head(toRoom) \in Asked
    BY <1>1, HeadTailProperties DEF RoomInv, MessageTypes
  <2> QED BY <2>1 DEF Asked
<1>4. table \in Table /\ table.bets = NoBets /\ table.stage = INIT /\ table.seats = <<v>>
  <2>1. <<v>> \in Seq(Users) /\ NoBets \in [Users -> [Positions -> Nat]]
    BY <1>3 DEF NoBets
  <2>2. INIT \in INIT..SETTLEMENT
    BY DEF INIT, SETTLEMENT
  <2>3. table \in Table
    BY <2>1, <2>2, TableOf
  <2> QED BY <2>3
<1>5. t \in Table /\ t.seats = <<v>>
  BY <1>4, CheckStateType
<1>6. BetsAreSeated(t) /\ \A u \in Users : Outcome(t, u) = 0
  BY <1>4, NewTableHasNoBets
<1>7. /\ Len(tables') = n + 1 /\ tables'[n + 1] = t /\ DOMAIN tables' = 1..(n + 1)
      /\ \A k \in 1..n : tables'[k] = tables[k]
  BY <1>1, <1>2, <1>5, AppendProperties
<1>8. Counted(n) /\ Counted(Len(tables')) /\ Counted(Len(toLogic'))
  BY <1>1, <1>7, CountedNext DEF AccountInv
<1>9. SeatsInv'
  <2>1. ASSUME NEW u \in Users, tableOf'[u] # 0
        PROVE  IsSeated(tables'[tableOf'[u]], u)
    <3>1. CASE u = v
      <4>1. tableOf'[u] = n + 1 /\ tables'[tableOf'[u]] = t
        BY <1>1, <1>2, <1>7, <3>1
      <4>2. 1 \in DOMAIN t.seats /\ t.seats[1] = v
        BY <1>5
      <4> QED BY <3>1, <4>1, <4>2 DEF IsSeated
    <3>2. CASE u # v
      <4>1. tableOf'[u] = tableOf[u] /\ tableOf[u] # 0 /\ tableOf[u] \in 1..n
        BY <1>1, <1>2, <2>1, <3>2
      <4>2. tables'[tableOf'[u]] = tables[tableOf[u]]
        BY <1>7, <4>1
      <4> QED BY <4>1, <4>2 DEF AccountInv, SeatsInv
    <3> QED BY <3>1, <3>2
  <2>2. ASSUME NEW k \in DOMAIN tables' PROVE BetsAreSeated(tables'[k])
    <3>1. k \in 1..n \/ k = n + 1
      BY <1>7
    <3>2. CASE k \in 1..n
      <4>1. BetsAreSeated(tables[k])
        BY <1>2, <3>2 DEF AccountInv, SeatsInv
      <4> QED BY <1>7, <3>2, <4>1
    <3>3. CASE k = n + 1
      BY <1>6, <1>7, <3>3
    <3> QED BY <3>1, <3>2, <3>3
  <2>3. \A m \in DOMAIN toLogic' : OneEntryEach(toLogic'[m])
    BY <1>1 DEF AccountInv, SeatsInv
  <2> QED BY <2>1, <2>2, <2>3 DEF SeatsInv
<1>10. NoObjectNoGold'
  BY <1>1 DEF AccountInv, NoObjectNoGold
<1>11. ASSUME NEW u \in Users
       PROVE  gold'[u] + Pending(u)' + InFlight(u)' = ledger'[u]
  <2>1. Total(Outcomes(Append(tables, t), u)) = Total(Outcomes(tables, u)) + Outcome(t, u)
    BY <1>2, <1>5, <1>8, PendingAppend
  <2>2. Total(Outcomes(tables, u)) \in Int /\ Outcome(t, u) = 0
    BY <1>2, <1>6, <1>8, PendingIsInt
  <2>3. Total(Outcomes(tables', u)) = Total(Outcomes(tables, u))
    BY <1>1, <2>1, <2>2
  <2>4. Pending(u)' = Pending(u) /\ InFlight(u)' = InFlight(u)
    BY <1>1, <2>3 DEF Pending, InFlight
  <2>5. gold[u] + Pending(u) + InFlight(u) = ledger[u]
    BY DEF AccountInv, GoldIsAccountedFor
  <2> QED BY <1>1, <2>4, <2>5
<1>12. GoldIsAccountedFor'
  BY <1>11 DEF GoldIsAccountedFor
<1> QED BY <1>8, <1>9, <1>10, <1>12 DEF AccountInv

\* A step of one table, whose users keep their seats.
LEMMA OneTableSeats ==
    ASSUME RoomInv, AccountInv, NEW n \in DOMAIN tables, NEW t \in Table,
           t.seats = tables[n].seats, BetsAreSeated(t),
           tables' = [tables EXCEPT ![n] = t], tableOf' = tableOf
    PROVE  /\ Counted(Len(tables'))
           /\ \A u \in Users : tableOf'[u] # 0 => IsSeated(tables'[tableOf'[u]], u)
           /\ \A k \in DOMAIN tables' : BetsAreSeated(tables'[k])
<1>1. tables \in Seq(Table) /\ tableOf \in [Users -> 0..Len(tables)]
  BY DEF RoomInv, TableTypes
<1>2. /\ Len(tables') = Len(tables) /\ DOMAIN tables' = DOMAIN tables
      /\ DOMAIN tables = 1..Len(tables)
      /\ \A k \in DOMAIN tables : tables'[k] = IF k = n THEN t ELSE tables[k]
  BY <1>1
<1>3. Counted(Len(tables'))
  BY <1>2 DEF AccountInv
<1>4. ASSUME NEW u \in Users, tableOf'[u] # 0 PROVE IsSeated(tables'[tableOf'[u]], u)
  <2> PICK k \in DOMAIN tables : k = tableOf[u]
    BY <1>1, <1>2, <1>4
  <2>1. IsSeated(tables[k], u)
    BY <1>4 DEF AccountInv, SeatsInv
  <2>2. tables'[k].seats = tables[k].seats
    BY <1>2
  <2> QED BY <2>1, <2>2 DEF IsSeated
<1>5. ASSUME NEW k \in DOMAIN tables' PROVE BetsAreSeated(tables'[k])
  <2>1. k # n => BetsAreSeated(tables[k])
    BY <1>2 DEF AccountInv, SeatsInv
  <2> QED BY <1>2, <2>1
<1> QED BY <1>3, <1>4, <1>5

\* The timers of a table that does not pay: what is pending stays.
LEMMA OneTableAccounts ==
    ASSUME RoomInv, AccountInv, NEW n \in DOMAIN tables, NEW t \in Table,
           t.seats = tables[n].seats, BetsAreSeated(t),
           tables' = [tables EXCEPT ![n] = t], tableOf' = tableOf,
           UNCHANGED <<gold, cached, toLogic, ledger>>,
           \A u \in Users : Outcome(t, u) = Outcome(tables[n], u)
    PROVE  AccountInv'
<1>1. SeatsInv' /\ Counted(Len(tables'))
  <2>1. \A m \in DOMAIN toLogic' : OneEntryEach(toLogic'[m])
    BY DEF AccountInv, SeatsInv
  <2> QED BY <2>1, OneTableSeats DEF SeatsInv
<1>2. Counted(Len(toLogic')) /\ NoObjectNoGold'
  BY DEF AccountInv, NoObjectNoGold
<1>3. ASSUME NEW u \in Users
      PROVE  gold'[u] + Pending(u)' + InFlight(u)' = ledger'[u]
  <2>1. tables \in Seq(Table) /\ Counted(Len(tables))
    BY DEF RoomInv, TableTypes, AccountInv
  <2> PICK p, a : p = Total(Outcomes(tables, u)) /\ a = Outcome(t, u)
    OBVIOUS
  <2>2. /\ Total(Outcomes([tables EXCEPT ![n] = t], u)) = p + a - Outcome(tables[n], u)
        /\ a \in Int
    BY <2>1, PendingPut
  <2>3. p \in Int
    BY <2>1, PendingIsInt
  <2>4. Total(Outcomes([tables EXCEPT ![n] = t], u)) = p
    BY <2>2, <2>3
  <2>5. Pending(u)' = Pending(u) /\ InFlight(u)' = InFlight(u)
    BY <2>4 DEF Pending, InFlight
  <2>6. gold[u] + Pending(u) + InFlight(u) = ledger[u]
    BY DEF AccountInv, GoldIsAccountedFor
  <2> QED BY <2>5, <2>6
<1>4. GoldIsAccountedFor'
  BY <1>3 DEF GoldIsAccountedFor
<1> QED BY <1>1, <1>2, <1>4 DEF AccountInv
LEMMA PendingMovesTo ==
    ASSUME tables \in Seq(Table), Counted(Len(tables)),
           NEW n \in DOMAIN tables, NEW table, table = tables[n], NEW t \in Table,
           tables' = [tables EXCEPT ![n] = t], NEW u \in Users
    PROVE  /\ Pending(u)' = Pending(u) + Outcome(t, u) - Outcome(table, u)
           /\ Outcome(t, u) \in Int /\ Outcome(table, u) \in Int
<1>1. /\ Total(Outcomes([tables EXCEPT ![n] = t], u)) =
           Total(Outcomes(tables, u)) + Outcome(t, u) - Outcome(tables[n], u)
      /\ Outcome(t, u) \in Int /\ Outcome(tables[n], u) \in Int
  BY PendingPut
<1> QED BY <1>1 DEF Pending

LEMMA FreeTimerOverAccounts ==
    ASSUME RoomInv, AccountInv, NEW n \in DOMAIN tables, FreeTimerOver(n), RoomInv'
    PROVE  AccountInv'
<1> PICK table : table = tables[n]
  OBVIOUS
<1> PICK t : t = [table EXCEPT !.stage = BET]
  OBVIOUS
<1>1. /\ UNCHANGED <<gold, cached, toLogic, tableOf, ledger>>
      /\ table.stage = FREE /\ tables' = [tables EXCEPT ![n].stage = @ + 1]
  BY DEF FreeTimerOver, logic
<1>2. table \in Table /\ BetsAreSeated(table)
  BY DEF RoomInv, TableTypes, AccountInv, SeatsInv
<1>3. BET \in INIT..SETTLEMENT /\ FREE + 1 = BET /\ FREE \notin {BET, SETTLEMENT}
  BY DEF INIT, FREE, BET, SETTLEMENT
<1>4. t \in Table /\ t.seats = table.seats
  BY <1>2, <1>3, StageType
<1>5. t.bets = table.bets /\ t.hands = table.hands
  BY <1>2 DEF Table
<1>6. \A u \in Users : table.bets[u] = NoBets[u]
  BY <1>1, <1>2, <1>3 DEF BetsAreSeated
<1>7. BetsAreSeated(t)
  BY <1>5, <1>6 DEF BetsAreSeated
<1>8. \A u \in Users : Outcome(t, u) = Outcome(table, u)
  <2> TAKE u \in Users
  <2>1. Outcome(table, u) = 0
    BY <1>1, <1>3 DEF Outcome
  <2>2. Change(t.bets[u], t.hands) = 0
    BY <1>5, <1>6, NoBetsNoChange
  <2>3. Outcome(t, u) = 0
    BY <2>2 DEF Outcome
  <2> QED BY <2>1, <2>3
<1>9. tables' = [tables EXCEPT ![n] = t]
  BY <1>1, <1>3
<1> QED BY <1>1, <1>4, <1>7, <1>8, <1>9, OneTableAccounts

LEMMA SettlementOverAccounts ==
    ASSUME RoomInv, AccountInv, NEW n \in DOMAIN tables, NEW deal \in Deals,
           SettlementOver(n, deal), RoomInv'
    PROVE  AccountInv'
<1> PICK table : table = tables[n]
  OBVIOUS
<1> PICK t : t = SettlementTimerOver(table, deal)
  OBVIOUS
<1>1. /\ UNCHANGED <<gold, cached, toLogic, tableOf, ledger>>
      /\ table.stage = SETTLEMENT /\ tables' = [tables EXCEPT ![n] = t]
  BY DEF SettlementOver, logic
<1>2. table \in Table /\ BetsAreSeated(table)
  BY DEF RoomInv, TableTypes, AccountInv, SeatsInv
<1>3. t \in Table /\ t.seats = table.seats
  BY <1>2, SettlementTimerOverType
<1>4. /\ INIT \in INIT..SETTLEMENT /\ INIT + 1 = FREE
      /\ FREE # BET /\ SETTLEMENT # BET
  BY DEF INIT, FREE, BET, SETTLEMENT
<1>5. \A u \in Users : Outcome(table, u) = 0
  BY <1>1, <1>4 DEF Outcome
<1>6. BetsAreSeated(t) /\ \A u \in Users : Outcome(t, u) = 0
  <2>1. CASE table.seats = <<>>
    <3>1. t = table
      BY <2>1 DEF SettlementTimerOver
    <3> QED BY <1>2, <1>5, <3>1
  <2>2. CASE table.seats # <<>>
    <3> PICK old : old = [table EXCEPT !.stage = INIT]
      OBVIOUS
    <3>1. old \in Table /\ old.seats = table.seats
      BY <1>2, <1>4, StageType
    <3>2. old.stage = INIT
      BY <1>2 DEF Table
    <3>3. t = InitGame(old, deal)
      BY <2>2, <3>1, <3>2 DEF SettlementTimerOver, CheckState
    <3>4. t.bets = NoBets /\ t.stage = FREE
      BY <1>4, <3>1, <3>2, <3>3 DEF InitGame, Table
    <3> QED BY <1>4, <3>4 DEF BetsAreSeated, Outcome
  <2> QED BY <2>1, <2>2
<1> QED BY <1>1, <1>3, <1>5, <1>6, OneTableAccounts

\* What was pending at the table is on its way.
SettlesBets(n) ==
    /\ tables[n].stage = BET /\ tables' = [tables EXCEPT ![n].stage = @ + 1]
    /\ toLogic' = IF Entries(Record(tables[n])) = {} THEN toLogic
                  ELSE Append(toLogic, Record(tables[n]))
    /\ UNCHANGED <<gold, cached, tableOf, ledger>>

LEMMA BetsAreSettled ==
    ASSUME RoomInv, AccountInv, RoomInv', NEW n \in DOMAIN tables, SettlesBets(n)
    PROVE  AccountInv'
<1> PICK table : table = tables[n]
  OBVIOUS
<1> PICK t : t = [table EXCEPT !.stage = SETTLEMENT]
  OBVIOUS
<1> PICK record : record = Record(table)
  OBVIOUS
<1>1. /\ UNCHANGED <<gold, cached, tableOf, ledger>>
      /\ table.stage = BET /\ tables' = [tables EXCEPT ![n].stage = @ + 1]
      /\ toLogic' = IF Entries(record) = {} THEN toLogic ELSE Append(toLogic, record)
  BY DEF SettlesBets
<1>2. /\ table \in Table /\ BetsAreSeated(table) /\ IsInjective(table.seats)
      /\ tables \in Seq(Table) /\ toLogic \in Seq(Seq(Entry))
      /\ Counted(Len(tables)) /\ Counted(Len(toLogic))
  BY DEF RoomInv, TableTypes, MessageTypes, AccountInv, SeatsInv
<1>3. SETTLEMENT \in INIT..SETTLEMENT /\ BET + 1 = SETTLEMENT /\ SETTLEMENT # BET
  BY DEF INIT, BET, SETTLEMENT
<1>4. t \in Table /\ t.seats = table.seats
  BY <1>2, <1>3, StageType
<1>5. t.bets = table.bets /\ t.hands = table.hands /\ t.stage = SETTLEMENT
  BY <1>2 DEF Table
<1>6. BetsAreSeated(t)
  BY <1>2, <1>4, <1>5 DEF BetsAreSeated, IsSeated
<1>7. tables' = [tables EXCEPT ![n] = t]
  BY <1>1, <1>3
<1>8. record \in Seq(Entry) /\ OneEntryEach(record)
  BY <1>2, RecordType, RecordPays
<1>9. ASSUME NEW u \in Users
      PROVE  /\ Outcome(t, u) = 0
             /\ Outcome(table, u) = ChangeOf(record, u, Entries(record))
  <2>1. ChangeOf(record, u, Entries(record)) = Change(table.bets[u], table.hands)
    BY <1>2, RecordPays
  <2> QED BY <1>1, <1>3, <1>5, <2>1 DEF Outcome
<1>10. Counted(Len(toLogic')) /\ \A m \in DOMAIN toLogic' : OneEntryEach(toLogic'[m])
  <2>1. \A m \in DOMAIN toLogic : OneEntryEach(toLogic[m])
    BY DEF AccountInv, SeatsInv
  <2>2. CASE Entries(record) = {}
    BY <1>1, <1>2, <2>1, <2>2
  <2>3. CASE Entries(record) # {}
    <3> PICK k \in Nat : k = Len(toLogic)
      BY <1>2
    <3>1. /\ Len(toLogic') = k + 1 /\ toLogic'[k + 1] = record
          /\ \A m \in 1..k : toLogic'[m] = toLogic[m]
          /\ DOMAIN toLogic' = 1..(k + 1) /\ DOMAIN toLogic = 1..k
      BY <1>1, <1>2, <1>8, <2>3, AppendProperties
    <3>2. Counted(Len(toLogic'))
      BY <1>2, <3>1, CountedNext
    <3>3. \A m \in 1..(k + 1) : m \in 1..k \/ m = k + 1
      OBVIOUS
    <3> QED BY <1>8, <2>1, <3>1, <3>2, <3>3
  <2> QED BY <2>2, <2>3
<1>11. SeatsInv' /\ Counted(Len(tables'))
  BY <1>1, <1>4, <1>6, <1>7, <1>10, OneTableSeats DEF SeatsInv
<1>12. NoObjectNoGold'
  BY <1>1 DEF AccountInv, NoObjectNoGold
<1>13. \A u \in Users : Pending(u)' = Pending(u) + Outcome(t, u) - Outcome(table, u)
  BY <1>2, <1>4, <1>7, PendingMovesTo
<1>14. ASSUME NEW u \in Users
       PROVE  gold'[u] + Pending(u)' + InFlight(u)' = ledger'[u]
  <2> PICK p, p2, f, f2 : /\ p = Pending(u) /\ p2 = Pending(u)'
                          /\ f = InFlight(u) /\ f2 = InFlight(u)'
    OBVIOUS
  <2> PICK c : c = ChangeOf(record, u, Entries(record))
    OBVIOUS
  <2>1. Entries(record) \in SUBSET DOMAIN record
    BY DEF Entries
  <2>2. c \in Int
    BY <1>8, <2>1, ChangeOfEntries
  <2>3. p \in Int /\ f \in Int
    BY <1>2, PendingIsInt, InFlightIsInt DEF Pending, InFlight
  <2>4. p2 = p - c
    <3>1. p2 = p + Outcome(t, u) - Outcome(table, u)
      BY <1>13, <2>3
    <3> QED BY <1>9, <2>2, <2>3, <3>1
  <2>5. f2 = f + c
    <3>1. CASE Entries(record) = {}
      <4>1. c = 0
        BY <3>1 DEF ChangeOf
      <4>2. f2 = f
        BY <1>1, <3>1 DEF InFlight
      <4> QED BY <2>3, <4>1, <4>2
    <3>2. CASE Entries(record) # {}
      <4>1. Total(Changes(Append(toLogic, record), u)) = Total(Changes(toLogic, u)) + c
        BY <1>2, <1>8, InFlightAppend
      <4> QED BY <1>1, <3>2, <4>1 DEF InFlight
    <3> QED BY <3>1, <3>2
  <2>6. gold[u] \in Int /\ ledger[u] \in Int /\ gold[u] + p + f = ledger[u]
    BY DEF RoomInv, GoldTypes, AccountInv, GoldIsAccountedFor
  <2>7. gold'[u] + p2 + f2 = ledger'[u]
    BY <1>1, <2>2, <2>3, <2>4, <2>5, <2>6
  <2> QED BY <2>7
<1>15. GoldIsAccountedFor'
  BY <1>14 DEF GoldIsAccountedFor
<1> QED BY <1>10, <1>11, <1>12, <1>15 DEF AccountInv

\* At a table that is stuck it stays pending.
LEMMA BetTimerOverAccounts ==
    ASSUME RoomInv, AccountInv, NEW n \in DOMAIN tables, BetTimerOver(n), RoomInv'
    PROVE  AccountInv'
<1> PICK record : record = Record(tables[n])
  OBVIOUS
<1> PICK made : made = Made(record, present)
  OBVIOUS
<1>1. tables[n].stage = BET /\ UNCHANGED <<gold, cached, tableOf, ledger>>
  BY DEF BetTimerOver, logic
<1>2. \/ /\ made = Entries(record) /\ tables' = [tables EXCEPT ![n].stage = @ + 1]
         /\ toLogic' = IF made = {} THEN toLogic ELSE Append(toLogic, record)
      \/ UNCHANGED <<toLogic, tables>>
  BY DEF BetTimerOver
<1>3. CASE /\ made = Entries(record) /\ tables' = [tables EXCEPT ![n].stage = @ + 1]
           /\ toLogic' = IF made = {} THEN toLogic ELSE Append(toLogic, record)
  <2>1. SettlesBets(n)
    BY <1>1, <1>3 DEF SettlesBets
  <2> QED BY <2>1, BetsAreSettled
<1>4. CASE UNCHANGED <<toLogic, tables>>
  BY <1>1, <1>4, NothingMoves
<1> QED BY <1>2, <1>3, <1>4

\* A bet that is taken is pending, and in the ledger, with what it comes to.
TakesBet(v, n, t) ==
    LET table == tables[n]
    IN  /\ IsSeated(table, v) /\ table.stage = BET
        /\ t.seats = table.seats /\ t.stage = BET /\ t.hands = table.hands
        /\ \A u \in Users : u # v => t.bets[u] = table.bets[u]
        /\ Change(t.bets[v], t.hands) \in Int /\ Change(table.bets[v], table.hands) \in Int
        /\ tables' = [tables EXCEPT ![n] = t]
        /\ ledger' = [ledger EXCEPT ![v] = @ + Change(t.bets[v], t.hands)
                                             - Change(table.bets[v], table.hands)]
        /\ UNCHANGED <<gold, cached, toLogic, tableOf>>

LEMMA TakenBetAccounts ==
    ASSUME RoomInv, AccountInv, NEW v \in Users, NEW n \in DOMAIN tables,
           NEW t \in Table, TakesBet(v, n, t)
    PROVE  AccountInv'
<1> PICK table, a, b : /\ table = tables[n] /\ a = Change(t.bets[v], t.hands)
                       /\ b = Change(table.bets[v], table.hands)
  OBVIOUS
<1>1. /\ IsSeated(table, v) /\ table.stage = BET
      /\ t.seats = table.seats /\ t.stage = BET /\ t.hands = table.hands
      /\ \A u \in Users : u # v => t.bets[u] = table.bets[u]
      /\ a \in Int /\ b \in Int
      /\ tables' = [tables EXCEPT ![n] = t] /\ ledger' = [ledger EXCEPT ![v] = @ + a - b]
      /\ UNCHANGED <<gold, cached, toLogic, tableOf>>
  BY DEF TakesBet
<1>2. BetsAreSeated(table) /\ tables \in Seq(Table) /\ Counted(Len(tables))
  BY DEF RoomInv, TableTypes, AccountInv, SeatsInv
<1>3. BetsAreSeated(t)
  <2> SUFFICES ASSUME NEW u \in Users
               PROVE  \/ IsSeated(t, u) /\ t.stage \in {BET, SETTLEMENT}
                      \/ t.bets[u] = NoBets[u]
    BY DEF BetsAreSeated
  <2>1. IsSeated(table, u) => IsSeated(t, u)
    BY <1>1 DEF IsSeated
  <2> QED BY <1>1, <1>2, <2>1 DEF BetsAreSeated
<1>4. SeatsInv' /\ Counted(Len(tables'))
  <2>1. \A m \in DOMAIN toLogic' : OneEntryEach(toLogic'[m])
    BY <1>1 DEF AccountInv, SeatsInv
  <2> QED BY <1>1, <1>3, <2>1, OneTableSeats DEF SeatsInv
<1>5. Counted(Len(toLogic')) /\ NoObjectNoGold'
  BY <1>1 DEF AccountInv, NoObjectNoGold
<1>6. ASSUME NEW u \in Users
      PROVE  gold'[u] + Pending(u)' + InFlight(u)' = ledger'[u]
  <2> PICK p, p2, f : p = Pending(u) /\ p2 = Pending(u)' /\ f = InFlight(u)
    OBVIOUS
  <2>1. p \in Int
    BY <1>2, PendingIsInt DEF Pending
  <2>2. f \in Int
    BY InFlightIsInt DEF InFlight, RoomInv, MessageTypes, AccountInv
  <2>3. InFlight(u)' = f
    BY <1>1 DEF InFlight
  <2>4. gold[u] \in Int /\ ledger[u] \in Int /\ gold[u] + p + f = ledger[u]
    BY DEF RoomInv, GoldTypes, AccountInv, GoldIsAccountedFor
  <2>5. /\ p2 = p + Outcome(t, u) - Outcome(table, u)
        /\ Outcome(t, u) \in Int /\ Outcome(table, u) \in Int
    BY <1>1, <1>2, PendingMovesTo
  <2>6. CASE u = v
    <3>1. Outcome(t, u) = a /\ Outcome(table, u) = b
      BY <1>1, <2>6 DEF Outcome
    <3>2. ledger'[u] = ledger[u] + a - b
      BY <1>1, <2>6 DEF RoomInv, GoldTypes
    <3>3. p2 = p + a - b
      BY <2>5, <3>1
    <3>4. gold'[u] + p2 + f = ledger'[u]
      BY <1>1, <2>1, <2>2, <2>4, <3>2, <3>3
    <3> QED BY <2>3, <3>4
  <2>7. CASE u # v
    <3>1. Outcome(t, u) = Outcome(table, u)
      BY <1>1, <2>7 DEF Outcome
    <3>2. ledger'[u] = ledger[u]
      BY <1>1, <2>7 DEF RoomInv, GoldTypes
    <3>3. p2 = p
      BY <2>1, <2>5, <3>1
    <3> QED BY <1>1, <2>3, <2>4, <3>2, <3>3
  <2> QED BY <2>6, <2>7
<1>7. GoldIsAccountedFor'
  BY <1>6 DEF GoldIsAccountedFor
<1> QED BY <1>4, <1>5, <1>7 DEF AccountInv

LEMMA ClientBetAccounts ==
    ASSUME RoomInv, AccountInv, NEW v \in Users, NEW position \in BetPositions,
           NEW bet \in Bets, ClientBet(v, position, bet), RoomInv'
    PROVE  AccountInv'
<1>p. PICK n, table : n = tableOf[v] /\ table = tables[n]
  OBVIOUS
<1>q. PICK mine, after : /\ mine = table.bets[v]
                         /\ after = [mine EXCEPT ![position] = @ + bet]
  OBVIOUS
<1>r. PICK t : t = [table EXCEPT !.bets[v] = after]
  OBVIOUS
<1>s. PICK a, b : a = Change(after, table.hands) /\ b = Change(mine, table.hands)
  OBVIOUS
<1>1. UNCHANGED <<gold, cached, toLogic, tableOf>> /\ tableOf[v] # 0
  BY DEF ClientBet, logic
<1>2. \/ /\ position \in Positions /\ table.stage = BET
         /\ tables' = [tables EXCEPT ![n].bets[v] = after]
         /\ ledger' = [ledger EXCEPT ![v] = @ + a - b]
      \/ UNCHANGED <<tables, ledger>>
  BY <1>p, <1>q, <1>s, Zenon DEF ClientBet, MayBet
<1>3. CASE UNCHANGED <<tables, ledger>>
  BY <1>1, <1>3 DEF AccountInv, SeatsInv, NoObjectNoGold, GoldIsAccountedFor, Pending, InFlight
<1>4. CASE /\ position \in Positions /\ table.stage = BET
           /\ tables' = [tables EXCEPT ![n].bets[v] = after]
           /\ ledger' = [ledger EXCEPT ![v] = @ + a - b]
  <2>1. /\ n \in DOMAIN tables /\ table \in Table /\ BetsAreSeated(table) /\ IsSeated(table, v)
        /\ tables \in Seq(Table) /\ Counted(Len(tables))
    <3>1. tables \in Seq(Table) /\ Counted(Len(tables))
      BY DEF RoomInv, TableTypes, AccountInv
    <3>2. n \in DOMAIN tables
      BY <1>p, <1>1 DEF RoomInv, TableTypes
    <3>3. table \in Table
      BY <1>p, <3>1, <3>2
    <3>4. BetsAreSeated(table) /\ IsSeated(table, v)
      BY <1>p, <1>1, <3>2 DEF AccountInv, SeatsInv
    <3> QED BY <3>1, <3>2, <3>3, <3>4
  <2>2. mine \in [Positions -> Nat] /\ bet \in Nat
    BY <1>q, <2>1, RoomAssumption DEF Table
  <2>3. after \in [Positions -> Nat]
    BY <1>q, <1>4, <2>2, BetIsAdded
  <2>4. t \in Table /\ t.seats = table.seats
    BY <1>r, <2>1, <2>3, BetType
  <2>5. /\ t.stage = BET /\ t.hands = table.hands /\ t.bets[v] = after
        /\ \A u \in Users : u # v => t.bets[u] = table.bets[u]
    BY <1>r, <1>4, <2>1 DEF Table
  <2>6. a \in Int /\ b \in Int
    BY <1>s, <2>2, <2>3, ChangeIsInt
  <2>7. TakesBet(v, n, t)
    <3>1. tables' = [tables EXCEPT ![n] = t]
      <4>1. t = [tables[n] EXCEPT !.bets[v] = after]
        BY <1>p, <1>r
      <4> QED BY <1>4, <4>1
    <3>2. a = Change(t.bets[v], t.hands) /\ b = Change(table.bets[v], table.hands)
      BY <1>q, <1>s, <2>5
    <3>3. ledger' = [ledger EXCEPT ![v] = @ + Change(t.bets[v], t.hands)
                                             - Change(table.bets[v], table.hands)]
      BY <1>q, <1>s, <1>4, <3>2
    <3>4. /\ Change(t.bets[v], t.hands) \in Int
          /\ Change(table.bets[v], table.hands) \in Int
      BY <2>6, <3>2
    <3>5. /\ IsSeated(table, v) /\ table.stage = BET
          /\ t.seats = table.seats /\ t.stage = BET /\ t.hands = table.hands
          /\ \A u \in Users : u # v => t.bets[u] = table.bets[u]
          /\ UNCHANGED <<gold, cached, toLogic, tableOf>>
      BY <1>1, <1>4, <2>1, <2>4, <2>5
    <3> QED BY <1>p, <3>1, <3>3, <3>4, <3>5, Zenon DEF TakesBet
  <2> QED BY <1>p, <2>1, <2>4, <2>7, TakenBetAccounts
<1> QED BY <1>2, <1>3, <1>4

\* The other requests at the room server change no gold of the logic server.
LEMMA ClientBetRaisesAccounts ==
    ASSUME RoomInv, AccountInv, NEW u \in Users, NEW bet \in Bets, ClientBetRaises(u, bet),
           RoomInv'
    PROVE  AccountInv'
  BY NothingMoves DEF ClientBetRaises, logic, room

LEMMA RoomSetGoldAccounts ==
    ASSUME RoomInv, AccountInv, NEW u \in Users, NEW amount \in Amounts,
           RoomSetGold(u, amount), RoomInv'
    PROVE  AccountInv'
  BY NothingMoves DEF RoomSetGold, logic

LEMMA RoomReleaseAccounts ==
    ASSUME RoomInv, AccountInv, NEW u \in Users, RoomRelease(u), RoomInv'
    PROVE  AccountInv'
  BY NothingMoves DEF RoomRelease, logic
-----------------------------------------------------------------------------
LEMMA AccountInitially == Init => AccountInv
<1> SUFFICES ASSUME Init PROVE AccountInv
  OBVIOUS
<1>1. /\ gold = [u \in Users |-> StartGold] /\ ledger = gold
      /\ cached = [u \in Users |-> TRUE]
      /\ toLogic = <<>> /\ tables = <<>> /\ tableOf = [u \in Users |-> 0]
  BY DEF Init
<1>2. Counted(Len(tables)) /\ Counted(Len(toLogic))
  BY <1>1, CountedZero
<1>3. SeatsInv /\ NoObjectNoGold
  BY <1>1 DEF SeatsInv, NoObjectNoGold
<1>4. GoldIsAccountedFor
  <2> SUFFICES ASSUME NEW u \in Users PROVE gold[u] + Pending(u) + InFlight(u) = ledger[u]
    BY DEF GoldIsAccountedFor
  <2>1. Outcomes(tables, u) = <<>> /\ Changes(toLogic, u) = <<>>
    BY <1>1 DEF Outcomes, Changes
  <2>2. Pending(u) = 0 /\ InFlight(u) = 0
    BY <2>1, TotalOfNone DEF Pending, InFlight
  <2>3. gold[u] \in Int
    BY <1>1, RoomAssumption
  <2> QED BY <1>1, <2>2, <2>3
<1> QED BY <1>2, <1>3, <1>4 DEF AccountInv

LEMMA AccountInductive == RoomInv /\ RoomInv' /\ AccountInv /\ [Next]_vars => AccountInv'
<1> SUFFICES ASSUME RoomInv, RoomInv', AccountInv, [Next]_vars PROVE AccountInv'
  OBVIOUS
<1>1. ASSUME NEW u \in Users, EnterRoom(u) PROVE AccountInv'
  BY <1>1, EnterRoomAccounts
<1>2. ASSUME NEW u \in Users, BuyRoomCard(u) PROVE AccountInv'
  BY <1>2, BuyRoomCardAccounts
<1>3. ASSUME NEW u \in Users, Request(u) PROVE AccountInv'
  BY <1>3, RequestAccounts
<1>4. ASSUME NEW u \in Users, FriendSaves(u) PROVE AccountInv'
  BY <1>4, FriendSavesAccounts
<1>5. ASSUME NEW u \in Users, NEW amount \in Amounts, SetGold(u, amount) PROVE AccountInv'
  BY <1>5, SetGoldAccounts
<1>6. ASSUME NEW u \in Users, Release(u) PROVE AccountInv'
  BY <1>6, ReleaseAccounts
<1>7. ASSUME NEW u \in Users, NEW for \in {"enter", "friend"}, GetValue(u, for) PROVE AccountInv'
  BY <1>7, GetValueAccounts
<1>8. CASE OnResponseEnterHallEvent
  BY <1>8, EnterHallAccounts
<1>9. CASE FriendAnswer
  BY <1>9, FriendAnswerAccounts
<1>10. CASE GameSettlement
  BY <1>10, GameSettlementAccounts
<1>11. ASSUME NEW u \in Users, NEW p \in BetPositions, NEW b \in Bets, ClientBet(u, p, b)
       PROVE  AccountInv'
  BY <1>11, ClientBetAccounts
<1>12. ASSUME NEW u \in Users, NEW b \in Bets, ClientBetRaises(u, b) PROVE AccountInv'
  BY <1>12, ClientBetRaisesAccounts
<1>13. ASSUME NEW u \in Users, NEW amount \in Amounts, RoomSetGold(u, amount) PROVE AccountInv'
  BY <1>13, RoomSetGoldAccounts
<1>14. ASSUME NEW u \in Users, RoomRelease(u) PROVE AccountInv'
  BY <1>14, RoomReleaseAccounts
<1>15. CASE RoomReads
  BY <1>15, ClientEnterRoomAccounts DEF RoomReads
<1>16. ASSUME NEW n \in DOMAIN tables, FreeTimerOver(n) PROVE AccountInv'
  BY <1>16, FreeTimerOverAccounts
<1>17. ASSUME NEW n \in DOMAIN tables, BetTimerOver(n) PROVE AccountInv'
  BY <1>17, BetTimerOverAccounts
<1>18. ASSUME NEW n \in DOMAIN tables, NEW deal \in Deals, SettlementOver(n, deal)
       PROVE  AccountInv'
  BY <1>18, SettlementOverAccounts
<1>19. CASE UNCHANGED vars
  BY <1>19, NothingMoves DEF vars, logic, room
<1> QED BY <1>1, <1>2, <1>3, <1>4, <1>5, <1>6, <1>7, <1>8, <1>9, <1>10, <1>11, <1>12, <1>13,
           <1>14, <1>15, <1>16, <1>17, <1>18, <1>19 DEF Next, TimerOver

\* Between taking a bet (BullFightingTable:MarkBet) and paying it
\* (RoomService:GameSettlement) what it comes to is pending at one table or in
\* one record, and the gold changes by it once: the logic server's gold, what is
\* pending and what is on its way are the ledger, for any users, deals, odds,
\* prices and commission, and however often users come, go and enter again.
THEOREM GoldIsAccounted == Spec => []GoldIsAccountedFor
<1>1. AccountInv => GoldIsAccountedFor
  BY DEF AccountInv
<1>2. RoomInv /\ AccountInv /\ [Next]_vars => (RoomInv /\ AccountInv)'
  BY RoomInductive, AccountInductive
<1>3. Init => RoomInv /\ AccountInv
  BY RoomInitially, AccountInitially
<1> QED BY <1>1, <1>2, <1>3, PTL DEF Spec
=============================================================================
