SPECIFICATION Spec
CONSTANTS
    a = a
    b = b
    c = c
    idle = idle
    Idle = idle
    Task <- TaskDef
    Prio <- PrioDef
    WaitList <- WaitListDef
    Rounds <- RoundsDef
    Builds = {"opt_list", "journal"}
    Size = 1
    Never = 3
    Wait = 2
INVARIANT
    MutualExclusion
