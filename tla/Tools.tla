------------------------------- MODULE Tools -------------------------------
(***************************************************************************)
(* The programs that share no state, as one system: the calls of gen_utils *)
(* in a program with a question to its user, and the tools that are        *)
(* started, work on a directory and end.  The initial state chooses the    *)
(* program; its module then has the variables v1 .. v11, in the order of   *)
(* its own, and leaves those it does not need alone.  Modules with proofs  *)
(* are instantiated with them.                                             *)
(***************************************************************************)
EXTENDS Integers, Sequences, FiniteSets

CONSTANTS
    NumCalls, MaxOutput, PipeSize, MaxLines,                        \* RunCommand
    CopyPaths, FirstDir, NameLength, CopySize,                      \* DupeScripts
    TreeFiles, Names, TreeDirs, Root, Parent, PathLength,           \* DirTools
    Homes, HomeOf, Stripped,
    UserFiles, Archives, MembersOf, Leftover, Base, Entry, NoExt,   \* TypeReorg
    MayFail, MaxCount,
    Videos, VideoListings, Durations, DurationTolerance, KeyUnit,   \* VideoDupes
    VideoSize, Audio, Frame,
    StreamFiles, Mkv, Layout,                                       \* DefaultStreams
    IndexPaths, Radius, Groups, Dtos,                               \* DuplicateSearch
    Clips, ClipTolerance, Lengths,                                  \* Concat
    ReportListings, Source, MaxWorkers,                             \* DeltaReport
    Sources, PROFILES                                               \* TargetResolution

VARIABLES program, v1, v2, v3, v4, v5, v6, v7, v8, v9, v10, v11

-----------------------------------------------------------------------------

R == INSTANCE RunCommandProofs WITH
    kind <- v1, call <- v2, pc <- v3, child <- v4, listener <- v5,
    interrupt <- v6, answer <- v7, typed <- v8

D == INSTANCE DupeScriptsProofs WITH
    Paths <- CopyPaths, SizeOf <- CopySize,
    script <- v1, pc <- v2, disk <- v3, files <- v4, groups <- v5, left <- v6

U == INSTANCE DirToolsProofs WITH
    Files <- TreeFiles, Dirs <- TreeDirs,
    script <- v1, pc <- v2, at <- v3, dirs <- v4, probe <- v5, moves <- v6, old <- v7

T == INSTANCE TypeReorgProofs WITH
    pc <- v1, at <- v2, dirs <- v3, walk <- v4, pending <- v5, archive <- v6,
    out <- v7, unpacked <- v8, errors <- v9

V == INSTANCE VideoDupes WITH
    Listings <- VideoListings, Tolerance <- DurationTolerance, SizeOf <- VideoSize,
    pc <- v1, disk <- v2, video <- v3, queue <- v4, failed <- v5, groups <- v6,
    rest <- v7, pairs <- v8, told <- v9

S == INSTANCE DefaultStreams WITH
    Files <- StreamFiles,
    tool <- v1, before <- v2, flags <- v3, todo <- v4, file <- v5, seen <- v6,
    types <- v7, calls <- v8, failed <- v9, pc <- v10

I == INSTANCE DuplicateSearch WITH
    Paths <- IndexPaths,
    mode <- v1, pc <- v2, disk <- v3, groups <- v4, idx <- v5, list <- v6,
    printed <- v7, chosen <- v8, choice <- v9, named <- v10, clusters <- v11

C == INSTANCE Concat WITH
    Tolerance <- ClipTolerance,
    clips <- v1, force <- v2, mp4 <- v3, auto <- v4, pc <- v5, listFile <- v6,
    chapFile <- v7, output <- v8, chapters <- v9, result <- v10, cut <- v11

L == INSTANCE DeltaReport WITH
    Listings <- ReportListings,
    pc <- v1, installed <- v2, listing <- v3, futures <- v4, taken <- v5,
    results <- v6, report <- v7

G == INSTANCE TargetResolution WITH
    caller <- v1, source <- v2, chosen <- v3, profile <- v4, pc <- v5,
    target <- v6, tag <- v7

\* What the modules with proofs assume of their constants.
ASSUME ToolsAssumption ==
    /\ R!Bounds
    /\ FirstDir \subseteq CopyPaths
    /\ U!TreeConstants /\ U!PathLengths
    /\ T!Packing /\ T!Naming /\ T!OwnMembers /\ MaxCount \in Nat
    /\ V!VideoConstants
    /\ S!StreamConstants
    /\ I!IndexConstants
    /\ C!ClipBounds
    /\ L!ReportConstants
    /\ G!SizeConstants

-----------------------------------------------------------------------------

Programs == {"run_command", "dupe_scripts", "dir_utils", "file_type_reorg",
             "video_dupe_finder", "default_streams", "ihb_video_tools", "concan",
             "delta_calc_encode", "calc_target_resolution"}

Init ==
    \/ /\ program = "run_command" /\ R!Init
       /\ v9 = "unused" /\ v10 = "unused" /\ v11 = "unused"
    \/ /\ program = "dupe_scripts" /\ D!Init
       /\ v7 = "unused" /\ v8 = "unused" /\ v9 = "unused" /\ v10 = "unused" /\ v11 = "unused"
    \/ /\ program = "dir_utils" /\ U!Init
       /\ v8 = "unused" /\ v9 = "unused" /\ v10 = "unused" /\ v11 = "unused"
    \/ /\ program = "file_type_reorg" /\ T!Init
       /\ v10 = "unused" /\ v11 = "unused"
    \/ /\ program = "video_dupe_finder" /\ V!Init
       /\ v10 = "unused" /\ v11 = "unused"
    \/ /\ program = "default_streams" /\ S!Init
       /\ v11 = "unused"
    \/ /\ program = "ihb_video_tools" /\ I!Init
    \/ /\ program = "concan" /\ C!Init
    \/ /\ program = "delta_calc_encode" /\ L!Init
       /\ v8 = "unused" /\ v9 = "unused" /\ v10 = "unused" /\ v11 = "unused"
    \/ /\ program = "calc_target_resolution" /\ G!Init
       /\ v8 = "unused" /\ v9 = "unused" /\ v10 = "unused" /\ v11 = "unused"

RunCommandNext == program = "run_command" /\ R!Next /\ UNCHANGED <<program, v9, v10, v11>>
DupeScriptsNext == program = "dupe_scripts" /\ D!Next /\ UNCHANGED <<program, v7, v8, v9, v10, v11>>
DirToolsNext == program = "dir_utils" /\ U!Next /\ UNCHANGED <<program, v8, v9, v10, v11>>
TypeReorgNext == program = "file_type_reorg" /\ T!Next /\ UNCHANGED <<program, v10, v11>>
VideoDupesNext == program = "video_dupe_finder" /\ V!Next /\ UNCHANGED <<program, v10, v11>>
DefaultStreamsNext == program = "default_streams" /\ S!Next /\ UNCHANGED <<program, v11>>
DuplicateSearchNext == program = "ihb_video_tools" /\ I!Next /\ UNCHANGED program
ConcatNext == program = "concan" /\ C!Next /\ UNCHANGED program
DeltaReportNext == program = "delta_calc_encode" /\ L!Next /\ UNCHANGED <<program, v8, v9, v10, v11>>
TargetResolutionNext == program = "calc_target_resolution" /\ G!Next /\ UNCHANGED <<program, v8, v9, v10, v11>>

Next ==
    \/ RunCommandNext \/ DupeScriptsNext \/ DirToolsNext \/ TypeReorgNext
    \/ VideoDupesNext \/ DefaultStreamsNext \/ DuplicateSearchNext \/ ConcatNext
    \/ DeltaReportNext \/ TargetResolutionNext

vars == <<program, v1, v2, v3, v4, v5, v6, v7, v8, v9, v10, v11>>

\* Fairness of RunCommand, which the other programs meet by not being it.
Fairness ==
    /\ WF_vars(program = "run_command" /\ R!ThreadStep /\ UNCHANGED <<program, v9, v10, v11>>)
    /\ \A c \in R!Calls :
          /\ WF_vars(program = "run_command" /\ R!Listen(c) /\ UNCHANGED <<program, v9, v10, v11>>)
          /\ WF_vars(program = "run_command" /\ R!ChildStep(c) /\ UNCHANGED <<program, v9, v10, v11>>)

Spec == Init /\ [][Next]_vars /\ Fairness

-----------------------------------------------------------------------------
(* The properties of the modules, each for its program.                    *)

\* Every variable has its type, in the module of the program.
TypeOK ==
    /\ program \in Programs
    /\ program = "run_command" => R!TypeOK
    /\ program = "dupe_scripts" => D!TypeOK
    /\ program = "dir_utils" => U!TypeOK
    /\ program = "file_type_reorg" => T!TypeOK
    /\ program = "video_dupe_finder" => V!TypeOK
    /\ program = "default_streams" => S!TypeOK
    /\ program = "ihb_video_tools" => I!TypeOK
    /\ program = "concan" => C!TypeOK
    /\ program = "delta_calc_encode" => L!TypeOK
    /\ program = "calc_target_resolution" => G!TypeOK

\* gen_utils: a call that reports success is about a child that succeeded, or
\* that the call has killed itself.
AnswerHonest == program = "run_command" => R!AnswerHonest

\* gen_utils: a call that has returned leaves no child it did not signal.
NoChildLeft == program = "run_command" => R!NoChildLeft

RunCommand(P) == program = "run_command" /\ P

\* gen_utils: a call returns, unless nobody reads what its child writes.
CommandEnds == \A c \in R!Calls :
    /\ RunCommand(v2 = c) ~> RunCommand(v7[c] # "unset" \/ R!Clogged(c))
    /\ RunCommand(v2 = c /\ c \in v6) ~> RunCommand(v7[c] # "unset")

\* gen_utils and its callers: the next question to the user gets its answer.
QuestionAnswered ==
    RunCommand(/\ v3 = "question" /\ v8.all = NumCalls + 1
               /\ \A c \in R!Calls : v4[c].st # "running")
    ~> RunCommand(v3 = "answered")

\* dupe_find, dupe_cleaner: a copy of each content stays.
OneCopyStays == program = "dupe_scripts" => D!OneCopyStays

\* dir_utils: no file is lost on the way.
NothingLost == program = "dir_utils" => U!NothingLost

\* dir_utils: at the end of reorg every file is at home.
Reorganised == program = "dir_utils" => U!Reorganised

\* file_type_reorg: nothing the user had outside temp_extract is lost.
FilesKept == program = "file_type_reorg" => T!FilesKept

\* file_type_reorg: an archive counts as extracted only when what it held,
\* the archives in it included, has been delivered or reported.
Unpacked == program = "file_type_reorg" => T!Unpacked

\* video_dupe_finder: what is deleted has an original that stays.
OriginalStays == program = "video_dupe_finder" => V!OriginalStays

\* video_dupe_finder: no video gets lost between the probe and the checks.
GroupsComplete == program = "video_dupe_finder" => V!GroupsComplete

\* The default stream setters: the chosen stream becomes the default, in a
\* file whose tracks have numbers below ten or that mkvtools edits.
ChosenIsDefault == program = "default_streams" => S!ChosenIsDefault

\* The default stream setters: in such a file no other stream is changed.
OthersKept == program = "default_streams" => S!OthersKept

\* ihb_video_tools: no single answer deletes the last copy of a group.
LastCopyStays == program = "ihb_video_tools" => I!LastCopyStays

\* ihb_video_tools: near durations are shown side by side.
PairsShown == program = "ihb_video_tools" => I!PairsShown

\* concan: the temporary files are removed, unless they cannot be, ffmpeg
\* cannot be started or the user ends the run.
NoLeftovers == program = "concan" => C!NoLeftovers

\* concan: every chapter is inside the output, or as far behind it as the
\* milliseconds of its start are written wrong.
ChaptersInside == program = "concan" => C!ChaptersInside

\* delta_calc_encode: the report is complete and in order.
ReportComplete == program = "delta_calc_encode" => L!ReportComplete

\* calc_target_resolution: a video is not enlarged and keeps its shape.
TargetFits == program = "calc_target_resolution" => G!TargetFits
=============================================================================
