CONSTANTS
    Jobs = {j1}
    Workers = {w1, w2}
    Concurrency = 2
    MaxStalled = 1
    Nobody = Nobody
SPECIFICATION Spec
INVARIANTS
    OneMailPerClaim
    DoneMeansMailed
PROPERTIES
    CleanExitDropsNothing
    ShutdownEnds
    EveryMailSettles
