SPECIFICATION Spec
CONSTANTS
    a = a  b = b  d = d  idle = idle
    None = None
    Task = {a, b, idle}
    Idle = idle
    Prio <- ThreePrio
    Boot <- ThreeBoot
    Key = {1}
    Ops = {"wait", "group", "delay", "pop", "set_bits"}
    Avoid = {"tx_not_started", "no_container", "last_ready", "delay_removal",
             "switch_level", "boot_commit", "boot_replay", "unblock_time",
             "group_len", "group_sorted"}
INVARIANTS
    ListsSound
PROPERTIES
    DoneTellsEffect RefinesSchedLists
