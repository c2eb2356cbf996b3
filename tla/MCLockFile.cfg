SPECIFICATION FairSpec
CONSTANTS
    Proc = {p1, p2, p3}
    Inode = {i1, i2, i3, i4}
    NoInode = NoInode
INVARIANTS
    Exclusive
    NoTornRead
    DbIsWhole
    AllOrNothing
    StaleOnlyAfterCrash
    IInv
PROPERTIES
    NoLostUpdate
    LockLifted
    StoreSpec
\* Every invocation ends, and then nothing is left to happen.
CHECK_DEADLOCK FALSE
