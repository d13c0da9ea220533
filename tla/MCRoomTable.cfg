\* One user, who may enter twice; bets that are taken and bets that are not.
CONSTANTS
    Users = {u1}
    StartGold = 200
    EnterMin = 100
    EnterMax = 1000
    Price = 60
    MaxOdds = 2
    Commission = 5
    Bets = {60}
    BetPositions = {1, 4}
    Amounts = {300}
    Deals <- MCDeals
    MaxTables = 2
    MaxBets = 2
    MaxChanges = 1
    MaxReleases = 1
    MaxFetches = 2
SPECIFICATION Spec
INVARIANTS TypeOK GoldIsAccountedFor StoredUnlessOverwritten
PROPERTIES EveryBetIsPaid
