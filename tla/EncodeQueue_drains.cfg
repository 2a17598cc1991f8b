SPECIFICATION FairSpec
CONSTANTS
    f1 = f1
    f2 = f2
    p1 = p1
    p2 = p2
    p3 = p3
    Files = {f1, f2}
    SizeIn <- MCSizeIn
    HasProfile = TRUE
    Procs = {p1, p2}
    Commands <- MCEncoders
    Outputs = {f1, f2}
    OutName <- MCOutName
    EncodeOutcomes = {"ok", "unreadable"}
    NewJobs = TRUE
    AudioOnly = {}
    Queued = {f1, f2}
    MayAbort = FALSE
    NoDto = NoDto
INVARIANTS WorkingHasOwner
PROPERTIES QueueDrains StopHalts
