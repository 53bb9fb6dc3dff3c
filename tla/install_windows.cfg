CONSTANTS
    Script = {1, 2}
    None = None
    Faults = {"download", "tar", "start", "interrupt"}
    Hosts = {"posix", "bash"}
    Settings = {"unset", "linux"}
    Local <- MCLocal
    Wishes <- MCWishes
SPECIFICATION FairSpec
INVARIANTS
    TypeOK
    ResultIsReport
    OneServerAnswers
    ClosestChosen
PROPERTY
    CallEnds
CHECK_DEADLOCK FALSE
