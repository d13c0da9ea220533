CONSTANTS
    Keys = {k1, h1}
    Hashed = {h1}
    Tabled = {k1}
    Ops = {"set", "get", "gets", "del", "hset", "expire"}
    None = None
    MaxRequests = 2
    MaxWrites = 2
    MaxLosses = 1
    MaxCrashes = 1
SPECIFICATION FairSpec
INVARIANTS TypeOK NoUseAfterFree AnswersInOrder ReadsLastWrite StoresAgreeWhenIdle
PROPERTIES ImplementsSerialDatabase MysqlNeverGoesBack EveryRequestAnswered
CHECK_DEADLOCK FALSE
