SPECIFICATION FairSpec
CONSTANTS
    a = a
    b = b
    c = c
    idle = idle
    Idle = idle
    Task <- TaskDef
    Prio <- PrioDef
    WaitList <- WaitListDef
    Program <- ProgramDef
    Bit = {1, 2, 3}
    Never = 2
INVARIANTS
    NobodySleepsOnItsBits
    Rendezvous
PROPERTIES
    ReleasedWaitReturns
    EveryCallReturns
