SPECIFICATION Spec
CONSTANTS
    NumCalls = 2
    MaxOutput = 2
    PipeSize = 1
    MaxLines = 3
    a1 = a1
    a2 = a2
    b1 = b1
    b2 = b2
    CopyPaths <- MCCopyPaths
    FirstDir <- MCFirstDir
    NameLength <- MCNameLength
    CopySize <- MCCopySize
    TreeFiles = {"f1", "f2"}
    Names = {"v", "v720", "m", "x"}
    TreeDirs = {"root", "d", "e", "video", "unknown"}
    Root = "root"
    Parent <- MCParent
    PathLength <- MCPathLength
    Homes = {"video"}
    HomeOf <- MCHomeOf
    Stripped <- MCStripped
    UserFiles = {"u", "w"}
    Archives = {"z1", "z2"}
    MembersOf <- MCMembersOf
    Leftover = {"w", "m3"}
    Base <- MCBase
    Entry <- MCBase
    MayFail = {"z2"}
    NoExt = {"y"}
    MaxCount = 3
    Videos = {"a", "b", "c"}
    VideoListings <- MCVideoListings
    Durations = {1, 3, 4}
    DurationTolerance = 2
    KeyUnit = 2
    VideoSize <- MCVideoSize
    Audio = {"h"}
    Frame = {"i"}
    StreamFiles = {"k.mkv", "m.mp4", "n.mp4"}
    Mkv = {"k.mkv"}
    Layout <- MCLayout
    IndexPaths = {"a", "b", "c", "d"}
    Radius = 1
    Groups <- MCGroups
    Dtos <- MCDtos
    Clips <- MCClips
    ClipTolerance = 500
    Lengths <- MCLengths
    ReportListings <- MCReportListings
    Source <- MCSource
    MaxWorkers = 2
    Sources <- MCSources
    PROFILES <- MCPROFILES
INVARIANTS TypeOK AnswerHonest NoChildLeft OneCopyStays NothingLost Reorganised FilesKept Unpacked OriginalStays GroupsComplete ChosenIsDefault OthersKept LastCopyStays PairsShown NoLeftovers  ReportComplete TargetFits
PROPERTIES CommandEnds QuestionAnswered
CHECK_DEADLOCK FALSE
