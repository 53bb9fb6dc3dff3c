CONSTANTS
    MaxAttempts = 2
    Config <- ParentConfig
    Quiet = TRUE
    None = None
SPECIFICATION FairSpec
PROPERTY
    ConnectionReleased
CHECK_DEADLOCK FALSE
