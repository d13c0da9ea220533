CONSTANTS
    Devices = {d1}
    Handlers = {h1}
    None = None
    MaxRequests = 3
    MaxUsers = 3
    MaxCrashes = 0
SPECIFICATION Spec
INVARIANTS BadParametersAnswered
CHECK_DEADLOCK FALSE
