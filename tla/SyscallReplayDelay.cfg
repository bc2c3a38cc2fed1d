SPECIFICATION Spec
CONSTANTS
    Value = {v0}
    NoValue = NoValue
    ReplaySize = 2
    Tasks <- TasksDelay
INVARIANT
    SyscallsExactlyOnce
CHECK_DEADLOCK FALSE
