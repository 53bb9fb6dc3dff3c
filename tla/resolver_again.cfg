CONSTANTS
    MaxAttempts = 2
    Config <- SwitchedConfig
    Quiet = TRUE
    None = None
SPECIFICATION FairSpec
INVARIANTS
    TypeOK
    ResultOnOwnConnection
    AgentSocketLives
    OwnTunnelsClosed
PROPERTIES
    AttemptSettles
    FirstChainReleased
CHECK_DEADLOCK FALSE
