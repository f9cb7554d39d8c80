CONSTANTS
    Requests = {q1, q2}
    Peers = {p1, p2}
    Counterparts <- MixedCounterparts
    SendThreads = {t1}
    LinkFails = TRUE
    None = None
SPECIFICATION Spec
INVARIANTS TypeOK ReadOnlyWhileHeld FullSession
PROPERTIES AnsweredIsSettled ImplementsHandover
CHECK_DEADLOCK FALSE
