CONSTANTS
    Requests = {q1, q2}
    Ranks = {r0, r1}
    Rank0 = r0
    Cancels = TRUE
    NoRequest = NoRequest
SPECIFICATION Spec
PROPERTY StillHealthy
CHECK_DEADLOCK FALSE
