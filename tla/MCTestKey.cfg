SPECIFICATION FairSpec
CONSTANTS
    Proc = {p1, p2, p3}
    Sem = {s1, s2, s3}
    NoSem = NoSem
INVARIANTS
    ExclusiveForTwo
    KeyOnce
    IInv
PROPERTIES
    EveryoneProceeds
\* Every program ends, and then nothing is left to happen.
CHECK_DEADLOCK FALSE
