CONSTANTS
    p = p
    q = q
    o = o
    u = u
    t = t
    Files = {p, q, o, u, t}
    Unsupported = {t}
    Unusable = {u}
    Near <- MCNear
    Stored = {o}
    MAX_PHOTOS = 3
    UPLOAD_CONCURRENCY = 1
    MaxPicks = 4
    PickSize = 2
    MaxAgain = 0
    Faults = FALSE
    Removals = FALSE
SPECIFICATION Safety
INVARIANTS
    PickOrderWins
    DuplicateIsVisible
    AcceptedIsStored
PROPERTIES
    NothingErased
    PickingFits
CHECK_DEADLOCK FALSE
