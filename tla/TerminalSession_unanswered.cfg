SPECIFICATION Spec
CONSTANTS
    None = None
    Request = {1, 2, 3}
    Prompt = {p1, p2}
    Chunk <- MCChunk
    World <- MCBreak
    Models = {"pro"}
    MaxAttempts = 2
    MaxTries = 2
    MaxSessionTurns = 2
    MaxTurns = 2
    LoopThreshold = 2
    LlmCheckAfter = 3
    SkipSpeakerCheck = FALSE
PROPERTY RequestsArePaired
CHECK_DEADLOCK FALSE
