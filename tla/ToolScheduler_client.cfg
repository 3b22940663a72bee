SPECIFICATION Spec
CONSTANTS
    b1 = b1
    b2 = b2
    b3 = b3
    Call = {1, 2, 3}
    Batch = {b1, b2}
    NoBatch = NoBatch
    BatchOf <- TwoBatchOf
    KindOf <- TwoKindOf
    Preapproved = {}
    AllowedTools = {}
    Channel = {"client"}
    HandlerRejects = TRUE
    MaxAtWork = 2
    MaxModify = 2
    MaxSwitch = 0
INVARIANTS
    OnlyGrantedCallsRun
\* a session ends when no batch is left
CHECK_DEADLOCK FALSE
