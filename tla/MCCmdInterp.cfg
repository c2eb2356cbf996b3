SPECIFICATION Spec
CONSTANTS
    MaxLines = 5
    MaxRuns = 2
INVARIANTS
    NoLineLost
    EachEndEndsOne
    HistoryTells
PROPERTIES
    EveryRunEnds
CHECK_DEADLOCK FALSE
