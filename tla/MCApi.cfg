CONSTANTS
    r1 = r1
    r2 = r2
    h1 = h1
    h2 = h2
    u1 = u1
    u2 = u2
    w1 = w1
    w2 = w2
    Requests = {r1, r2}
    Workers = {w1, w2}
    Hosts = {h1, h2}
    Users = {u1, u2}
    None = None
    Traffic <- MCTraffic
    Limit <- MCLimit
SPECIFICATION Spec
INVARIANTS
    LimitHolds
    ConnectionsOutliveRequests
    RedisTakesDownOnlyItsOwn
PROPERTIES
    RefusedForOwnUploads
    EveryRequestEnds
    ShutdownEnds
CHECK_DEADLOCK FALSE
