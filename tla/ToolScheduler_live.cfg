SPECIFICATION FairSpec
CONSTANTS
    b1 = b1
    b2 = b2
    b3 = b3
    Call = {1, 2, 3}
    Batch = {b1, b2}
    NoBatch = NoBatch
    BatchOf <- TwoBatchOf
    KindOf <- LiveKindOf
    Preapproved = {}
    AllowedTools = {"ls"}
    Channel = {"ui"}
    HandlerRejects = FALSE
    MaxAtWork = 2
    MaxModify = 1
    MaxSwitch = 0
INVARIANTS
    NoCallLeftBehind
PROPERTIES
    RefusalsStand
    EveryCallIsReported
    
\* a session ends when no batch is left
CHECK_DEADLOCK FALSE
