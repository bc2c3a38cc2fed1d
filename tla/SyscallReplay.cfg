SPECIFICATION FairSpec
CONSTANTS
    Value = {v0, v1}
    NoValue = NoValue
    ReplaySize = 3
    Tasks <- TasksDef
INVARIANTS
    TypeOK
    SyscallsExactlyOnce
    ReplayedResults
PROPERTY
    Completes
CHECK_DEADLOCK FALSE
