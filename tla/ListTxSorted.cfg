SPECIFICATION Spec
CONSTANTS
    a = a  b = b  d = d  idle = idle
    None = None
    Task = {a, b, d, idle}
    Idle = idle
    Prio <- FourPrio
    Boot <- FourBoot
    Key = {1, 2}
    Ops = {"wait"}
    Avoid = {"tx_not_started", "no_container", "last_ready", "delay_removal",
             "switch_level", "boot_replay", "unblock_time",
             "group_len", "group_sorted"}
INVARIANTS
    ListsSound NobodyOversleeps
