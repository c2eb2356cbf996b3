SPECIFICATION Spec
CONSTANTS
    Words <- MCWords
    Options <- MCOptions
    MaxArgs = 4
INVARIANTS
    UsageAccepted
    OnlyUsageAccepted
