SPECIFICATION Spec
CONSTANTS
    Requests = {q1, q2, q3}
    Streams = {q1}
    Servers = {s1, s2}
    MaxRetries = 1
    MaxChanges = 3
    NoServer = NoServer
INVARIANTS TypeOK HeapCovers LoadIsRouted FinishedInRouter
CHECK_DEADLOCK FALSE
