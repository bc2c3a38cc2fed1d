SPECIFICATION FairSpec
CONSTANTS
    a = a
    b = b
    c = c
    idle = idle
    Idle = idle
    Task <- TaskDef
    Prio <- PrioDef
    WaitList <- WaitListDef
    Program <- ProgramDef
    Builds = {"opt_list", "journal"}
    Length = 3
    Never = 4
    MaxRetries = 1
INVARIANTS
    NoLostWakeup
    TimesOutOnTime
PROPERTIES
    ImplementsFifo
    EveryCallReturns
