SPECIFICATION Spec
CONSTANTS
    Schema <- GivenSchema
    Members <- GivenMembers
    Accepts <- GivenAccepts
    Same <- PythonEqual
    Base64 <- GivenBase64
    Unbase64 <- GivenUnbase64
    Unwritable <- GivenUnwritable
    Values <- GivenValues
    Typed <- GivenTyped
    Annotations <- NestedUnions
    Fragments <- GivenFragments
INVARIANTS
    RoundTrip
