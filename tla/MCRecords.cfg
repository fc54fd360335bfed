SPECIFICATION RecordsSpec
CONSTANTS
    Schema <- GivenSchema
    Members <- GivenMembers
    Accepts <- PostInit
    Same <- PythonEqual
    Base64 <- GivenBase64
    Unbase64 <- GivenUnbase64
    Unwritable <- GivenUnwritable
    Annotations <- GivenAnnotations
    Values <- GivenValues
    Typed <- GivenTyped
    Fragments <- GivenFragments
    Arguments <- GivenArguments
    Number <- GivenNumber
    MaxU64 <- GivenMaxU64
    Digest <- GivenDigest
INVARIANTS
    RoundTrip
    Strict
    Serializable
    EqualIsAlike
    SpansAreRanges
