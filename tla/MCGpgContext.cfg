SPECIFICATION Spec
CONSTANTS
    KeyObj = {k1, k2, k3, k4, k5}
    NoKey = NoKey
    MaxListed = 2
    MaxSigs = 2
SYMMETRY Symmetry
INVARIANTS
    OnlyRefusedLeak
    ResultReadInTime
    OneSigner
    IInv
