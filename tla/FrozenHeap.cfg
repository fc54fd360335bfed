SPECIFICATION Spec
CONSTANTS
    MaxObjects = 3
    MaxKids = 2
    MutablePayloads = FALSE
INVARIANTS
    TypeOK
    RecordsStayValid
PROPERTIES
    RecordsStayFrozen
CHECK_DEADLOCK FALSE
