CONSTANTS
    Devices = {d1, d2}
    Handlers = {h1, h2}
    None = None
    MaxRequests = 4
    MaxUsers = 4
    MaxCrashes = 2
SPECIFICATION Spec
INVARIANTS TypeOK IdsBelowGlobal UsersAreDistinct GlobalLoadedFirst RepliesDurable RepliesMatch
CHECK_DEADLOCK FALSE
