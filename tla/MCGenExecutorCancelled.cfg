CONSTANTS
    Requests = {q1, q2}
    Timeouts = FALSE
    LinkFails = FALSE
    ForwardFails = FALSE
    NoRequest = NoRequest
SPECIFICATION Spec
INVARIANT CancelledNotDecoded
CHECK_DEADLOCK FALSE
