SPECIFICATION Spec
CONSTANTS
    b1 = b1
    b2 = b2
    b3 = b3
    Call = {1, 2, 3}
    Batch = {b1, b2}
    NoBatch = NoBatch
    BatchOf <- TwoBatchOf
    KindOf <- TwoKindOf
    Preapproved = {}
    AllowedTools = {"ls", "git"}
    Channel = {"ui", "mode", "ide"}
    HandlerRejects = FALSE
    MaxAtWork = 2
    MaxModify = 1
    MaxSwitch = 1
INVARIANTS
    ListFreeWhileFinalizing
PROPERTIES
    ResultsAreFinal
\* a session ends when no batch is left
CHECK_DEADLOCK FALSE
