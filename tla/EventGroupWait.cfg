SPECIFICATION Spec
CONSTANTS
    a = a
    b = b
    c = c
    idle = idle
    Idle = idle
    Task <- TaskDef
    Prio <- PrioDef
    WaitList <- WaitListDef
    Program <- ProgramOneTxDef
    Bit = {1, 2, 3}
    Never = 2
PROPERTY
    LaterWaitReturns
