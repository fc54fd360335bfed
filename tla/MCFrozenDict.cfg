SPECIFICATION Spec
CONSTANTS
    Keys = {k1, k2}
    Scalars = {zero, nan}
    NaNs = {nan}
    Zero = zero
    Lists = {l1}
    Contents = {c1, c2}
    FrozenDicts = {f, g}
    Dicts = {d, e}
    Counters = {}
    DefaultDicts = {e}
    Seeds = {s1, s2}
    MaxItems = 2
SYMMETRY Symmetry
INVARIANTS
    TypeOK
    ViewsAgree
    HashLaw
    EqIsSemantic
PROPERTIES
    SealedForever
CHECK_DEADLOCK FALSE
