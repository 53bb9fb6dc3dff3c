CONSTANTS
    None = None
    Capital <- MCCapital
    Escape <- MCEscape
    Digit <- MCDigit
    Pair <- MCPair
    Object <- MCObject
    Pattern <- MCPattern
    Window = {w1, w2, w3}
    Path = {p1}
    Hostname <- MCHostname
    Typed <- MCTyped
    Foreign <- MCForeign
    Disk <- MCDisk
    Content <- MCContent
SPECIFICATION Spec
SYMMETRY Windows
INVARIANTS
    TypeOK
    DestinationReached
    HistoryKept
    HostsInOrder
CHECK_DEADLOCK FALSE
