SPECIFICATION FairSpec
CONSTANTS
    None = None
    Request = {1, 2, 3}
    Prompt = {p1, p2}
    Chunk <- MCChunk
    World <- MCWorld
    Models = {"pro"}
    MaxAttempts = 2
    MaxTries = 2
    MaxSessionTurns = 2
    MaxTurns = 2
    LoopThreshold = 2
    LlmCheckAfter = 3
    SkipSpeakerCheck = FALSE
INVARIANT TypeOK
PROPERTY CalmRequestsArePaired ALoopStaysStopped TypedIsSubmitted
CHECK_DEADLOCK FALSE
