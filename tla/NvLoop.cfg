SPECIFICATION FairSpec
CONSTANTS
    IdBits = 8
    ComBit = 15
    TailBits = 16
    CacheSize = 4
    StackDepth = 2
    Value = {v0, v1}
    NoValue = NoValue
    None = None
    Programs <- ProgramsDef
    MaxCrashes = 2
    MaxLaps = 2
INVARIANTS
    IterationsOnceEach
    ReplayFaithful
PROPERTY
    LoopsEnd
CHECK_DEADLOCK FALSE
