------------------------------- MODULE Concat -------------------------------
(***************************************************************************)
(* ihb_video2/concan.py: one run of process_directory, which joins the     *)
(* clips of a directory with ffmpeg's concat demuxer and sets a chapter    *)
(* for each.  It covers the calls it makes of video_manager, ffmpeg.py,    *)
(* video_utils.py and the container tools.                                 *)
(*                                                                         *)
(* A clip is what the code looks at.  Durations are in milliseconds.       *)
(* ffmpeg asks before it replaces a file, and may leave a short output     *)
(* behind, with any exit code.                                             *)
(***************************************************************************)
EXTENDS Integers, Sequences, FiniteSets

CONSTANTS Clips,     \* lists of clips: [dur, kind, fps, rate], kind standing for
                     \* the extension, the codec and the resolution
          Tolerance, \* DURATION_TOLERANCE
          Lengths    \* durations an output may have

VARIABLES clips,    \* the videos of the directory, sorted by name
          force,    \* --force_concat
          mp4,      \* the clips are mp4 and not mkv files
          auto,     \* auto_chapter: the user is not asked about the chapters
          pc,
          listFile, \* concat_list_*.txt is there
          chapFile, \* chapters_*.txt: "none", as written, or not to its end, or
                    \* with changes of the user
          output,   \* the duration of the output, NoOutput when there is none
          chapters, \* the starts of the chapters set by this run, when they are
                    \* as it wrote them
          result,   \* what process_directory returned
          cut       \* what kept it from the removal of a file, if anything did

vars == <<clips, force, mp4, auto, pc, listFile, chapFile, output, chapters, result, cut>>

NoOutput == -1

TypeOK ==
    /\ clips \in Clips
    /\ force \in BOOLEAN /\ mp4 \in BOOLEAN /\ auto \in BOOLEAN
    /\ pc \in {"check", "list", "ask", "ffmpeg", "remove", "duration", "chapters",
               "edit", "mp4box", "ended"}
    /\ listFile \in BOOLEAN /\ chapFile \in {"none", "part", "written", "edited"}
    /\ output \in {NoOutput} \cup Lengths
    /\ chapters \in Seq(Nat)
    /\ result \in {"none", "True", "False", "raised"}
    /\ cut \in {"no", "write", "start", "user", "remove"}

\* An output of an earlier run may be there.
Init ==
    /\ clips \in Clips
    /\ force \in BOOLEAN /\ mp4 \in BOOLEAN /\ auto \in BOOLEAN
    /\ pc = "check"
    /\ listFile = FALSE /\ chapFile = "none"
    /\ output \in {NoOutput} \cup Lengths
    /\ chapters = <<>>
    /\ result = "none"
    /\ cut = "no"

\* The durations of the first n clips, one after the other.
Length(cs) == LET len[n \in 0 .. Len(cs)] == IF n = 0 THEN 0 ELSE len[n - 1] + cs[n].dur
              IN  len

Total(cs) == Length(cs)[Len(cs)]

Return(r) == pc' = "ended" /\ result' = r

\* Within PARAM_TOLERANCE, 5 per cent; a base of 0 is not compared with.
Close(x, base) == base > 0 => 20 * (x - base) <= base /\ 20 * (base - x) <= base

\* The first clip is the measure for all; of no clips the check says yes.
Compatible(cs) == cs = <<>> \/ \A i \in DOMAIN cs :
    /\ cs[i].kind = cs[1].kind
    /\ Close(cs[i].fps, cs[1].fps)
    /\ Close(cs[i].rate, cs[1].rate)

\* A clip without metadata raises; so does, further on, the lack of any clip.
ProbeClips ==
    /\ pc = "check"
    /\ \/ IF Compatible(clips) \/ force
          THEN pc' = "list" /\ UNCHANGED result
          ELSE Return("False")
       \/ Return("raised")
    /\ UNCHANGED <<clips, force, mp4, auto, listFile, chapFile, output, chapters, cut>>

\* No room on the disk, or no list: None, which the caller cannot unpack.
ListFails ==
    /\ pc = "list"
    /\ \E written \in BOOLEAN : /\ listFile' = written
                                /\ cut' = IF written THEN "write" ELSE "no"
    /\ Return("raised")
    /\ UNCHANGED <<clips, force, mp4, auto, chapFile, output, chapters>>

WriteList ==
    /\ pc = "list" /\ clips # <<>>
    /\ listFile' = TRUE
    /\ pc' = "ask"
    /\ UNCHANGED <<clips, force, mp4, auto, chapFile, output, chapters, result, cut>>

\* Mutant: the list is kept when the user does not go on.
KeepList ==
    /\ pc = "ask"
    /\ Return("raised")
    /\ UNCHANGED <<clips, force, mp4, auto, listFile, chapFile, output, chapters, cut>>

\* os.remove, of the list or of the chapters, may fail and raise.
UserDeclines ==
    /\ pc = "ask"
    /\ \/ listFile' = FALSE /\ UNCHANGED cut
       \/ cut' = "remove" /\ UNCHANGED listFile
    /\ Return("raised")
    /\ UNCHANGED <<clips, force, mp4, auto, chapFile, output, chapters>>

UserAgrees ==
    /\ pc = "ask"
    /\ pc' = "ffmpeg"
    /\ UNCHANGED <<clips, force, mp4, auto, listFile, chapFile, output, chapters, result, cut>>

\* Ctrl-C while a question waits or a command runs, or the end of the input
\* at the first question: no handler on the way removes a file.
UserEnds ==
    /\ pc \in {"ask", "ffmpeg", "edit", "mp4box"}
    /\ cut' = "user"
    /\ Return("raised")
    /\ UNCHANGED <<clips, force, mp4, auto, listFile, chapFile, output, chapters>>

\* The answer of the call is only logged.
FfmpegEnds ==
    /\ pc = "ffmpeg"
    /\ output' \in {output} \cup Lengths
    /\ pc' = "remove"
    /\ UNCHANGED <<clips, force, mp4, auto, listFile, chapFile, chapters, result, cut>>

\* _run_checked_cli_command raises when there is no ffmpeg.
FfmpegMissing ==
    /\ pc = "ffmpeg"
    /\ cut' = "start"
    /\ Return("raised")
    /\ UNCHANGED <<clips, force, mp4, auto, listFile, chapFile, output, chapters>>

RemoveList ==
    /\ pc = "remove"
    /\ listFile' = FALSE
    /\ IF output = NoOutput THEN Return("False") ELSE pc' = "duration" /\ UNCHANGED result
    /\ UNCHANGED <<clips, force, mp4, auto, chapFile, output, chapters, cut>>

RemoveFails ==
    /\ pc = "remove"
    /\ cut' = "remove"
    /\ Return("raised")
    /\ UNCHANGED <<clips, force, mp4, auto, listFile, chapFile, output, chapters>>

\* Mutant: an output that is too short passes.
CheckLonger ==
    /\ pc = "duration"
    /\ IF output - Total(clips) > Tolerance
       THEN Return("False") ELSE pc' = "chapters" /\ UNCHANGED result
    /\ UNCHANGED <<clips, force, mp4, auto, listFile, chapFile, output, chapters, cut>>

\* An output ffprobe cannot read raises.
CheckDuration ==
    /\ pc = "duration"
    /\ \/ IF output - Total(clips) > Tolerance \/ Total(clips) - output > Tolerance
          THEN Return("False") ELSE pc' = "chapters" /\ UNCHANGED result
       \/ Return("raised")
    /\ UNCHANGED <<clips, force, mp4, auto, listFile, chapFile, output, chapters, cut>>

\* mkvtools calls _build_chapter_file with the wrong arguments, and the
\* dispatcher turns the error, as any other, into None.
MkvChapters ==
    /\ pc = "chapters" /\ ~mp4
    /\ Return("True")
    /\ UNCHANGED <<clips, force, mp4, auto, listFile, chapFile, output, chapters, cut>>

Mp4Chapters ==
    /\ pc = "chapters" /\ mp4
    /\ chapFile' = "written"
    /\ pc' = IF auto THEN "mp4box" ELSE "edit"
    /\ UNCHANGED <<clips, force, mp4, auto, listFile, output, chapters, result, cut>>

\* The file could not be opened, or not be written to its end.
Mp4ChaptersFail ==
    /\ pc = "chapters" /\ mp4
    /\ \/ UNCHANGED <<chapFile, cut>>
       \/ chapFile' = "part" /\ cut' = "write"
    /\ Return("True")
    /\ UNCHANGED <<clips, force, mp4, auto, listFile, output, chapters>>

\* The user presses enter once the chapters are as he wants them.
UserEdits ==
    /\ pc = "edit"
    /\ chapFile' \in {"written", "edited"}
    /\ pc' = "mp4box"
    /\ UNCHANGED <<clips, force, mp4, auto, listFile, output, chapters, result, cut>>

\* The end of the input, which the dispatcher swallows too.
InputEnds ==
    /\ pc = "edit"
    /\ cut' = "user"
    /\ Return("True")
    /\ UNCHANGED <<clips, force, mp4, auto, listFile, chapFile, output, chapters>>

\* format_time pads the milliseconds on the right: 99 of them are written as
\* 990, 9 as 900.
Milliseconds(ms) == IF ms < 10 THEN 100 * ms ELSE IF ms < 100 THEN 10 * ms ELSE ms
Formatted(time) == 1000 * (time \div 1000) + Milliseconds(time % 1000)

\* The start of each clip in the output, as the file of chapters has it.
Starts(cs) == [i \in DOMAIN cs |-> Formatted(Length(cs)[i - 1])]

\* MP4Box may fail.
Mp4boxEnds ==
    /\ pc = "mp4box"
    /\ \/ chapFile' = "none" /\ UNCHANGED cut
       \/ cut' = "remove" /\ UNCHANGED chapFile
    /\ chapters' \in {chapters, IF chapFile = "written" THEN Starts(clips) ELSE chapters}
    /\ Return("True")
    /\ UNCHANGED <<clips, force, mp4, auto, listFile, output>>

Next ==
    \/ ProbeClips \/ ListFails \/ WriteList \/ UserDeclines \/ UserAgrees \/ UserEnds
    \/ FfmpegEnds \/ FfmpegMissing \/ RemoveList \/ RemoveFails
    \/ CheckDuration \/ MkvChapters \/ Mp4Chapters \/ Mp4ChaptersFail
    \/ UserEdits \/ InputEnds \/ Mp4boxEnds

Spec == Init /\ [][Next]_vars

-----------------------------------------------------------------------------

\* Whether ffmpeg or MP4Box succeeds or fails, whatever the user answers and
\* whatever the checks say, a run leaves neither the list for ffmpeg nor the
\* one of the chapters behind: only when the file could not be written or
\* removed, ffmpeg not be started (the list), or the user ended the run, by
\* Ctrl-C or the end of the input, is it still there.
NoLeftovers == pc = "ended" =>
    /\ listFile => cut \in {"write", "start", "user", "remove"}
    /\ chapFile # "none" => cut \in {"write", "user", "remove"}

\* The start of clip i has 1 to 99 milliseconds, which are written as more.
Shifted(i) == Length(clips)[i - 1] % 1000 \in 1 .. 99

\* No chapter written by the run starts behind the end of the output, whatever
\* ffmpeg made of the clips and whatever output was there before, but for the
\* starts that are written too late; those miss the end by less than 0.9 s.
ChaptersInside == \A i \in DOMAIN chapters :
    \/ chapters[i] < output
    \/ Shifted(i) /\ chapters[i] < output + 891

-----------------------------------------------------------------------------
(* For the proofs of the two.                                              *)

\* What is assumed of the clips: the last one is longer than what may be
\* missing in an output that is accepted.
ClipBounds ==
    /\ Tolerance \in Nat /\ Lengths \subseteq Nat
    /\ \A cs \in Clips :
          /\ cs \in Seq([dur : Nat, kind : STRING, fps : Nat, rate : Nat])
          /\ cs # <<>> => cs[Len(cs)].dur > Tolerance

\* The list is there only until it is removed, and the file of the chapters
\* only until MP4Box has run; a run that ends with one of them has been cut.
\* From the check of the duration on, the output is long enough.
Inv ==
    /\ TypeOK
    /\ listFile => pc \in {"ask", "ffmpeg", "remove"} \/ (pc = "ended" /\ cut # "no")
    /\ chapFile # "none" => \/ pc \in {"edit", "mp4box"}
                            \/ pc = "ended" /\ cut \in {"write", "user", "remove"}
    /\ pc \in {"chapters", "edit", "mp4box"} => Total(clips) - output <= Tolerance
    /\ chapters # <<>> => /\ pc = "ended" /\ chapters = Starts(clips)
                          /\ Total(clips) - output <= Tolerance
=============================================================================
