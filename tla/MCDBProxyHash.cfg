CONSTANTS
    Keys = {h1}
    Hashed = {h1}
    Tabled = {h1}
    Ops = {"hset", "hget", "hdel", "expire"}
    None = None
    MaxRequests = 3
    MaxWrites = 2
    MaxLosses = 1
    MaxCrashes = 1
SPECIFICATION Spec
INVARIANTS StoresAgreeWhenIdle
PROPERTIES FallbackReadsLastWrite
CHECK_DEADLOCK FALSE
