CONSTANTS
    PPSize = 4
    Requests = {q1, q2}
SPECIFICATION Spec
INVARIANTS TypeOK SingleToken ConsensusBeforeFree TakenInRankOrder
PROPERTY EventuallyFreed
