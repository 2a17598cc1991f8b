SPECIFICATION FairSpec
CONSTANTS
    Files = {f1, f2, f3}
    MaxWorkers = 2
    QueueMax = 1
    CacheMax = 1
    MayRaise = TRUE
    MayInterrupt = FALSE
    MayKill = FALSE
INVARIANTS LossBounded
PROPERTIES RunEnds
