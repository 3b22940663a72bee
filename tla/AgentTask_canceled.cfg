SPECIFICATION FairSpec
CONSTANTS
    Slot = {m1, m2}
    ToolCall = {c1, c2}
    None = None
    World <- MCCancel
PROPERTY CanceledIsFinal
CHECK_DEADLOCK FALSE
