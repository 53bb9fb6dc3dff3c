CONSTANTS
    None = None
    Capital <- MCCapital
    Escape <- MCEscape
    Digit <- MCDigit
    Pair <- MCPair
    Object <- MCObject
    Pattern <- MCPattern
    Window = {w1, w2}
    Path = {p1}
    Hostname <- NumberHostname
    Typed <- NumberTyped
    Foreign <- MCForeign
    Disk <- MCDisk
    Content <- MCContent
SPECIFICATION Spec
INVARIANT DestinationReached
CHECK_DEADLOCK FALSE
