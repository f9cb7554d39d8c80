CONSTANTS
    Requests = {q1, q2}
    Peers = {p1}
    Counterparts <- MixedCounterparts
    SendThreads = {t1}
    LinkFails = FALSE
    None = None
SPECIFICATION Spec
PROPERTY AskedIsSettled
CHECK_DEADLOCK FALSE
