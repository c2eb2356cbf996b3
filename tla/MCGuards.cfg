SPECIFICATION Spec
CONSTANTS
    Obj = {o1, o2, o3, tmp}
    Temp = tmp
    File = {f1, f2}
    NoPath = NoPath
    NoObj = NoObj
SYMMETRY Symmetry
INVARIANTS
    OneOwner
    MovedHoldsNothing
    RetryIsWhole
PROPERTIES
    TheirsKept
