CONSTANTS
    Users = {u1, u2}
    Registered = {u1}
    Handlers = {h1, h2}
    Gateway = Gateway
    None = None
    MaxRequests = 4
    MaxVersions = 2
    MaxTrips = 4
    MaxDisconnects = 2
SPECIFICATION Spec
INVARIANTS TypeOK HandlerMapsAgree OnlineIsReachable RepliesMatch CacheNotStale
CHECK_DEADLOCK FALSE
