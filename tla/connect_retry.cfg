CONSTANTS
    Use = {u1, u2, u3}
    ReconnectTries = 2
    MaxPromises = 4
    None = None
SPECIFICATION FairSpec
INVARIANTS
    TypeOK
    OneLiveClient
    
PROPERTY
    EveryUseSettles
CHECK_DEADLOCK FALSE
