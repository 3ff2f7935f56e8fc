CONSTANTS
    Requests = {r1, r2}
    Emails = {e1}
    None = None
SPECIFICATION Spec
PROPERTY RegistrationAnswers
CHECK_DEADLOCK FALSE
