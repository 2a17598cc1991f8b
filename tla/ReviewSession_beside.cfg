SPECIFICATION Spec
CONSTANTS
    f1 = f1
    f2 = f2
    f3 = f3
    Files = {f1, f2}
    SizeIn <- MCOneSize
    HasProfile = TRUE
    QueueMax = 3
    QueryLimit = 2
    Written <- MCResults
    Forced = {"PENDING", "COMPLETE"}
    FilesChange = TRUE
    End = End
    NoDto = NoDto
SYMMETRY MCSymmetry
INVARIANTS TypeOK OneObjectPerJob DecisionIsCurrent EndMarkerAlone
