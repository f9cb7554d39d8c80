SPECIFICATION Spec
CONSTANTS
    w1 = w1
    w2 = w2
    Workers = {w1, w2}
    Servers = {w1, w2}
    Deployments <- OwnOrShared
    Fragile = {w1}
    Python310 = {w1, w2}
    MaxPending = 1
    NoWorker = NoWorker
INVARIANTS TypeOK PendingAgrees RouterFollowsStorage
PROPERTIES EventuallyServed EventuallyForgotten
CHECK_DEADLOCK FALSE
