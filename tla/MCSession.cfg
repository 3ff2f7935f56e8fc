CONSTANTS
    Reads = {r1}
    MaxGrants = 3
SPECIFICATION Spec
INVARIANTS
    SessionKeptFresh
PROPERTY SignOutHasCause
CHECK_DEADLOCK FALSE
