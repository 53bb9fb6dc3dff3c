CONSTANTS
    c1 = c1  c2 = c2  c3 = c3
    n1 = n1  n2 = n2
    None = None
    Call <- MCCall
    Name <- MCName
    NameOf <- MCNameOf
    Socks <- MCSocks
    Socket = {k1, k2}
SPECIFICATION FairSpec
INVARIANTS
    TypeOK
    RegistryAgrees
PROPERTY
    CloseEnds
CHECK_DEADLOCK FALSE
