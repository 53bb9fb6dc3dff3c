CONSTANTS
    Script = {1, 2}
    None = None
    Faults = {}
    Hosts = {"posix", "bash"}
    Settings = {"unset"}
    Local <- MCLocal
    Wishes <- OwnWishes
SPECIFICATION Spec
INVARIANT LatestChosen
CHECK_DEADLOCK FALSE
