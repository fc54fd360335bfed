SPECIFICATION Spec
CONSTANTS
    MaxId = 2
    MaxCited = 2
    Statuses = {"Assumed"}
    Ahead = FALSE
INVARIANTS
    LogTypeOK
    DerivationsAreGrounded
CHECK_DEADLOCK FALSE
