SPECIFICATION FairSpec
CONSTANTS
    Cell = {x, y}
    Value = {v0, v1}
    InitVal = v0
    Unit = Unit
    NoResult = NoResult
    Null = Null
    JournalSize = 2
    CacheSize = 3
    Program <- MixedProgram
INVARIANTS
    TypeOK
    CrashAtomicity
    RecoverableIsStable
    ReplayFaithful
    ExactlyOnce
PROPERTIES
    RefinesAtomicTx
    Progress
