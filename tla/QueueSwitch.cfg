SPECIFICATION Spec
CONSTANTS
    a = a
    b = b
    c = c
    idle = idle
    Idle = idle
    Task <- TaskDef
    Prio <- PrioDef
    WaitList <- WaitListDef
    Program <- ProgramDef
    Builds = {"opt_list", "journal"}
    Length = 1
    Never = 4
    MaxRetries = 2
PROPERTY
    KeepsOnlyAlone
