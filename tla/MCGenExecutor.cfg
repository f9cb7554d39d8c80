CONSTANTS
    Requests = {q1, q2}
    Timeouts = TRUE
    LinkFails = TRUE
    ForwardFails = TRUE
    NoRequest = NoRequest
SPECIFICATION Spec
INVARIANTS TypeOK ReceiveOnlyIntoOwned FailedNotDecoded LeavesClean
PROPERTIES AnsweredOnce EventuallyAnswered
CHECK_DEADLOCK FALSE
