CONSTANTS
    Script = {r1, r2}
    None = None
    Blank = Blank
    HasFlock = TRUE
    PromptExec = TRUE
    Faults = {"disk"}
SPECIFICATION Spec
INVARIANT StartsComplete
CHECK_DEADLOCK FALSE
