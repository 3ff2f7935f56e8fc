CONSTANTS
    p = p
    q = q
    o = o
    u = u
    t = t
    Files = {p, q}
    Unsupported = {t}
    Unusable = {u}
    Near <- MCNear
    Stored = {}
    MAX_PHOTOS = 2
    UPLOAD_CONCURRENCY = 1
    MaxPicks = 2
    PickSize = 2
    MaxAgain = 1
    Faults = TRUE
    Removals = TRUE
SPECIFICATION Spec
PROPERTY QueueDrains
CHECK_DEADLOCK FALSE
