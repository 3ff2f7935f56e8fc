CONSTANTS
    Reads = {r1, r2}
    MaxGrants = 3
SPECIFICATION Spec
INVARIANT SessionKeptFresh
CHECK_DEADLOCK FALSE
