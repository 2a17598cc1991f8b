SPECIFICATION Spec
CONSTANTS
    f1 = f1
    f2 = f2
    p1 = p1
    p2 = p2
    p3 = p3
    Files = {f1}
    SizeIn <- MCSizeIn
    HasProfile = TRUE
    Procs = {p1, p2, p3}
    Commands <- MCOneOfEach
    Outputs = {f1}
    OutName <- MCOutName
    EncodeOutcomes = {"ok", "truncated", "unreadable", "refused"}
    NewJobs = TRUE
    AudioOnly = {}
    Queued = {}
    MayAbort = TRUE
    NoDto = NoDto
INVARIANTS RecycledVideoSurvives
