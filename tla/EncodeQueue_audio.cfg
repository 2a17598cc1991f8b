SPECIFICATION Spec
CONSTANTS
    f1 = f1
    f2 = f2
    p1 = p1
    p2 = p2
    p3 = p3
    Files = {f1, f2}
    SizeIn <- MCSizeIn
    HasProfile = TRUE
    Procs = {p1, p2}
    Commands <- MCEncoderAndClerk
    Outputs = {f1, f2}
    OutName <- MCOutName
    EncodeOutcomes = {"ok"}
    NewJobs = TRUE
    AudioOnly = {f1}
    Queued = {}
    MayAbort = FALSE
    NoDto = NoDto
PROPERTIES ProcessDirVisitsAll
