SPECIFICATION FairSpec
CONSTANTS
    TaskLimit = 4
    BootSize = 5
    PmSize = 10
    BootProgram <- BootProgramDef
    Programs <- ProgramsDef
INVARIANTS
    NothingSharedOut
    AsIfOnce
    SameAnswers
PROPERTIES
    EverythingRuns
