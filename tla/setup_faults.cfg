CONSTANTS
    Script = {r1, r2, r3}
    None = None
    Blank = Blank
    HasFlock = TRUE
    PromptExec = TRUE
    Faults = {"download", "tar", "hollow", "interrupt", "kill"}
SPECIFICATION FairSpec
INVARIANTS
    TypeOK
    InstallerExclusive
    AtMostOneServer
    ReportCoherent
    StartsComplete
PROPERTIES
    CredentialsKept
    Terminates
    LockRecovered
    RemoteServerSpec
CHECK_DEADLOCK FALSE
