SPECIFICATION Spec
CONSTANTS
    q1 = q1 q2 = q2 q3 = q3
    Requests = {q1, q2, q3}
    PromptLen <- Prompts
    MaxNewTokens <- NewTokens
    Policies <- AllPolicies
    TotalBlocks = 4
    TokensPerBlock = 2
    MaxNumRequests = 3
    MaxBatchSize = 2
    MaxNumTokens = 8
    MaxInputLen = 8
INVARIANTS TypeOK AllocationSucceeds RunToCompletion LoopPausesFewest
PROPERTIES PausesTheLatest EveryoneCompletes
CHECK_DEADLOCK FALSE
