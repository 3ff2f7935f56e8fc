CONSTANTS
    Keys = {k1, k2}
    Calls = {c1, c2, c3}
    Entries = {e1, e2, e3}
    NoEntry = NoEntry
    NoKey = NoKey
SPECIFICATION Spec
INVARIANTS
    MutualExclusion
    NoLeak
PROPERTIES
    EveryCallReturns
    ImplementsLock
