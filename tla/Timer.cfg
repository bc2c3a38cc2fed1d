SPECIFICATION FairSpec
CONSTANTS
    periodic = periodic
    oneshot = oneshot
    None = None
    Timer <- TimerDef
    AutoReload <- AutoReloadDef
    FirstPeriod <- FirstPeriodDef
    Scripts <- ScriptsDef
    QueueSize = 1
    MaxLate = 1
    Wrap = 2
    Never = 3
    Avoid = {"unlisted_remove", "command_in_hand", "reload"}
INVARIANTS
    CommandsInOrder
    CallbackOncePerExpiry
    ActiveListIntact
    WakesForEveryTimer
PROPERTIES
    ActiveTimersFire
