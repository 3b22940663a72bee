SPECIFICATION FairSpec
CONSTANTS
    Slot = {m1, m2}
    ToolCall = {c1, c2}
    None = None
    World <- MCWorld
INVARIANT TypeOK ResultsReachTheirTurn StoredTaskIsResumable
PROPERTY WaitsEnd
CHECK_DEADLOCK FALSE
