SPECIFICATION Spec
CONSTANTS
    Files = {f1, f2, f3}
    MaxWorkers = 2
    QueueMax = 1
    CacheMax = 2
    MayRaise = TRUE
    MayInterrupt = TRUE
    MayKill = TRUE
SYMMETRY MCSymmetry
INVARIANTS TypeOK DeliveredIsKept ReportHonest IndexMatchesDisk
