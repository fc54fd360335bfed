SPECIFICATION Spec
CONSTANTS
    MaxObjects = 3
    MaxKids = 2
    MutablePayloads = TRUE
INVARIANTS
    NothingMutableHeld
CHECK_DEADLOCK FALSE
