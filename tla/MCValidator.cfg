SPECIFICATION Spec
CONSTANTS
    n1 = n1
    n2 = n2
    n3 = n3
    Nodes = {n1, n2, n3}
    MaxKids = 2
    MaxDepth = 3
    Roots = {n1}
    Unprintable = {n2}
    AtomKinds = {"leaf", "named"}
    Objects <- GivenObjects
INVARIANTS
    TypeOK
    SeenSound
    OnPathIsStack
    VerdictCorrect
    PathLeadsToOffender
PROPERTIES
    NoRevisit
    Decides
CHECK_DEADLOCK FALSE
