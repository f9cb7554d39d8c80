CONSTANTS
    q1 = q1
    q2 = q2
    q3 = q3
    q4 = q4
    Requests = {q1, q2, q3, q4}
    Prompt <- SharedPrompts
    Tokens = {0, 1, 2}
    GenTokens = {2}
    Blocks = {b1, b2, b3, b4}
    TokensPerBlock = 2
    MaxLen = 7
    Configs <- AllConfigs
    NoRequest = NoRequest
SPECIFICATION Spec
SYMMETRY BlockSymmetry
CONSTRAINT StillATree
INVARIANTS RefsCounted QueueIntegrity TreeTruth StorageValid SendableWhilePinned
CHECK_DEADLOCK FALSE
