SPECIFICATION Spec
CONSTANTS
    b1 = b1
    b2 = b2
    b3 = b3
    Call = {1, 2, 3, 4}
    Batch = {b1, b2, b3}
    NoBatch = NoBatch
    BatchOf <- QueueBatchOf
    KindOf <- QueueKindOf
    Preapproved = {}
    AllowedTools = {"ls"}
    Channel = {"ui"}
    HandlerRejects = TRUE
    MaxAtWork = 2
    MaxModify = 0
    MaxSwitch = 0
INVARIANTS
    TypeOK
    AnsweredCallsRunOnce
    ReportedWorkIsOver
    OneBatchAtATime
PROPERTIES
    AbortedCallsStop
    ImplementsContract
\* a session ends when no batch is left
CHECK_DEADLOCK FALSE
