CONSTANTS
    Keys = {k1}
    Hashed = {}
    Ops = {"set", "get"}
    Tabled = {k1}
    None = None
    MaxRequests = 2
    MaxWrites = 1
    MaxLosses = 0
    MaxCrashes = 0
SPECIFICATION Spec
INVARIANTS RequestsFreed
CHECK_DEADLOCK FALSE
