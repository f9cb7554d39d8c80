CONSTANTS
    Requests = {q1, q2}
    Ranks = {r0, r1, r2}
    Rank0 = r0
    Cancels = FALSE
    NoRequest = NoRequest
SPECIFICATION Spec
INVARIANTS LockStep SameCollective NoCrossWait
PROPERTY EveryoneAnswered
CHECK_DEADLOCK FALSE
