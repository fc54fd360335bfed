SPECIFICATION NestedSpec
CONSTANTS
    whole = whole
    part = part
    d = d
    e = e
    g = g
    Classes = {whole, part}
    FrozenDataclasses = {whole, part}
    Names = {whole, part}
    NameOf <- OwnNames
    MaxVersion = 2
    Layouts <- GivenLayouts
    LayoutsOf <- GivenLayoutsOf
    Received <- GivenReceived
    NoVersion = NoVersion
    NoClass = NoClass
    Docs = {d, e, g}
    PartsOf <- GivenParts
    PartIn <- GivenPartIn
    MaxParts = 2
    NoDoc = NoDoc
    MaxDepth = 2
    Held <- GivenHeld
    Asks <- GivenAsks
INVARIANTS
    NestedTypeOK
    PartsAreRead
    NothingGoesStale
PROPERTIES
    NestedDecodeEnds
    DecodableIsDecoded
CHECK_DEADLOCK FALSE
