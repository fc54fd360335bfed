SPECIFICATION Spec
CONSTANTS
    c1 = c1
    c2 = c2
    plain = plain
    name1 = name1
    name2 = name2
    Classes = {c1, c2, plain}
    FrozenDataclasses = {c1, c2}
    Names = {name1, name2}
    NameOf <- OneName
    MaxVersion = 3
    odd = odd
    Layouts <- GivenLayouts
    LayoutsOf <- GivenLayoutsOf
    Received <- GivenReceived
    NoVersion = NoVersion
    NoClass = NoClass
    Docs = {d}
INVARIANTS
    TypeOK
    TablesAgree
    FollowsTheChain
    OnlyMigrationsMisread
PROPERTIES
    StaysReachable
    DecodeEnds
CHECK_DEADLOCK FALSE
