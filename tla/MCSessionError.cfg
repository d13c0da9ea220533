CONSTANTS
    Users = {u1, u2}
    Registered = {u1}
    Handlers = {h1, h2}
    Gateway = Gateway
    None = None
    MaxRequests = 4
    MaxVersions = 2
    MaxTrips = 4
    MaxDisconnects = 2
SPECIFICATION Spec
INVARIANTS FailedIsRemoved
CHECK_DEADLOCK FALSE
