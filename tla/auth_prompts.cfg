CONSTANTS
    f1 = f1  f2 = f2  f3 = f3
    k1 = k1  k3 = k3  own = own
    File <- MCFile
    Key <- MCKey
    KeyIn <- MCKeyIn
    Disk <- MCDisk
    Agents <- MCAgents
    Preferred <- AllMethods
    MaxStages = 1
    MaxRounds = 2
SPECIFICATION FairSpec
INVARIANTS
    TypeOK
    EveryKeyTried
    AgentBeforePassphrase
    CancelIsFinal
PROPERTY
    AuthenticationEnds
CHECK_DEADLOCK FALSE
