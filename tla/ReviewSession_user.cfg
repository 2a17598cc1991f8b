SPECIFICATION Spec
CONSTANTS
    f1 = f1
    f2 = f2
    f3 = f3
    Files = {f1, f2}
    SizeIn <- MCTwoSizes
    HasProfile = TRUE
    QueueMax = 2
    QueryLimit = 2
    Written <- MCApproved
    Forced = {}
    FilesChange = TRUE
    End = End
    NoDto = NoDto
PROPERTIES TerminatedByUser
CHECK_DEADLOCK FALSE
