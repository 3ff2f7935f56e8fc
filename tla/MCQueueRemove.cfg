CONSTANTS
    p = p
    q = q
    o = o
    u = u
    t = t
    Files = {p, u}
    Unsupported = {t}
    Unusable = {u}
    Near <- MCNear
    Stored = {}
    MAX_PHOTOS = 2
    UPLOAD_CONCURRENCY = 1
    MaxPicks = 2
    PickSize = 2
    MaxAgain = 0
    Faults = FALSE
    Removals = TRUE
SPECIFICATION Safety
PROPERTY NothingLandsOnRemoved
CHECK_DEADLOCK FALSE
