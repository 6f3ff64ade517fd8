CONSTANTS
    Writers = {w1, w2, w3}
    MaxAppends = 2
    MaxTorn = 2
    None = None
SPECIFICATION LogFairSpec
INVARIANTS
    CleanLogReads
    LossBounded
PROPERTIES
    EveryAppendEnds
CHECK_DEADLOCK FALSE
