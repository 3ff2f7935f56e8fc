CONSTANTS
    Requests = {r1, r2, r3}
    Emails = {e1}
    None = None
SPECIFICATION OperatedSpec
INVARIANTS
    OneAccountPerEmail
    GivenTokenIsKnown
    SpentTokenIsGone
PROPERTY EveryRequestEnds
CHECK_DEADLOCK FALSE
