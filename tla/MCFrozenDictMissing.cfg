SPECIFICATION Spec
CONSTANTS
    Keys = {k1, k2}
    Scalars = {zero, one}
    NaNs = {}
    Zero = zero
    Lists = {l1}
    Contents = {c1}
    FrozenDicts = {f}
    Dicts = {d, e}
    Counters = {d}
    DefaultDicts = {e}
    Seeds = {s1}
    MaxItems = 2
INVARIANTS
    EqAgainstAnyMapping
CHECK_DEADLOCK FALSE
