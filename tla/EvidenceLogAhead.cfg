SPECIFICATION Spec
CONSTANTS
    MaxId = 1
    MaxCited = 2
    Statuses = {"Assumed"}
    Ahead = TRUE
INVARIANTS
    ProvenanceIsPrior
CHECK_DEADLOCK FALSE
