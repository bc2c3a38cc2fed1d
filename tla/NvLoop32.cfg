SPECIFICATION Spec
CONSTANTS
    IdBits = 16
    ComBit = 29
    TailBits = 16
    CacheSize = 4
    StackDepth = 2
    Value = {v0, v1}
    NoValue = NoValue
    None = None
    Programs <- Programs32
    MaxCrashes = 1
    MaxLaps = 0
INVARIANT
    ReplayFaithful
CHECK_DEADLOCK FALSE
