SPECIFICATION FairSpec
CONSTANTS
    f1 = f1
    f2 = f2
    f3 = f3
    Files = {f1, f2, f3}
    SizeIn <- MCTwoSizes
    HasProfile = TRUE
    QueueMax = 1
    QueryLimit = 1
    Written = {}
    Forced = {}
    FilesChange = FALSE
    End = End
    NoDto = NoDto
PROPERTIES SessionEnds
CHECK_DEADLOCK FALSE
