SPECIFICATION Spec
CONSTANTS
    b1 = b1
    b2 = b2
    b3 = b3
    Call = {1}
    Batch = {b1}
    NoBatch = NoBatch
    BatchOf <- OneBatchOf
    KindOf <- TwoKindOf
    Preapproved = {}
    AllowedTools = {}
    Channel = {"ui", "ide"}
    HandlerRejects = FALSE
    MaxAtWork = 2
    MaxModify = 1
    MaxSwitch = 0
INVARIANTS
    ExecutesAtMostOnce
\* a session ends when no batch is left
CHECK_DEADLOCK FALSE
