------------------------------- MODULE MCTools -------------------------------
(***************************************************************************)
(* An instance of Tools for TLC.                                           *)
(***************************************************************************)
EXTENDS Tools, TLC

CONSTANTS a1, a2, b1, b2 \* files of dupe_find and dupe_cleaner

MCCopyPaths == {a1, a2, b1, b2}
MCFirstDir == {a1, a2}
MCNameLength == a1 :> 1 @@ a2 :> 2 @@ b1 :> 2 @@ b2 :> 1
MCCopySize == 1 :> 1 @@ 2 :> 1 @@ 3 :> 2

\* d/e and d below root; a video, the same with a resolution in its name, a
\* name that is in the tables of extensions and one that is not.
MCParent == "d" :> "root" @@ "e" :> "d" @@ "video" :> "root" @@ "unknown" :> "root"
MCPathLength == "root" :> 1 @@ "d" :> 2 @@ "e" :> 3 @@ "video" :> 4 @@ "unknown" :> 5
MCHomeOf == "v" :> "video" @@ "v720" :> "video" @@ "m" :> "AV" @@ "x" :> "unknown"
MCStripped == "v" :> "v" @@ "v720" :> "v" @@ "m" :> "m" @@ "x" :> "x"

\* An archive in an archive, of one name with it, and in that two files of
\* one name, which a file of the user has too; below temp_extract one of the
\* two from an earlier run, and a file of the user without an extension.
MCMembersOf == "z1" :> {"z2"} @@ "z2" :> {"m2", "m3"}
MCBase == "u" :> "x.jpg" @@ "w" :> "y" @@ "m2" :> "x.jpg" @@ "m3" :> "x.jpg"
          @@ "z1" :> "z.zip" @@ "z2" :> "z.zip"

\* Three videos, two of one size, the first of them listed twice.
MCVideoListings == {<<"a", "b", "c", "a">>}
MCVideoSize == "a" :> 10 @@ "b" :> 10 @@ "c" :> 7

Stream(id, type, lang, hi, size) ==
    [id |-> id, type |-> type, lang |-> lang, hi |-> hi, sdh |-> FALSE, size |-> size]

\* A file for mkvtools, and two for mp4box, of which one has track 0x10 beside
\* track 10.
MCLayout ==
    "k.mkv" :> <<Stream(0, "AUDIO", "jpn", FALSE, 9), Stream(0, "AUDIO", "eng", FALSE, 9),
                 Stream(0, "SUBTITLE", "eng", FALSE, 3), Stream(0, "SUBTITLE", "eng", FALSE, 5)>>
    @@ "m.mp4" :> <<Stream(1, "AUDIO", "eng", FALSE, 9), Stream(2, "SUBTITLE", "und", TRUE, 1)>>
    @@ "n.mp4" :> <<Stream(10, "AUDIO", "und", FALSE, 9), Stream(16, "AUDIO", "eng", FALSE, 9)>>

MCGroups == {<<"a", "b", "c">>, <<"d", "d">>}
MCDtos == <<[path |-> "a", duration |-> 5], [path |-> "b", duration |-> 4],
            [path |-> "c", duration |-> 3], [path |-> "d", duration |-> 3]>>

Clip(dur, kind, fps, rate) == [dur |-> dur, kind |-> kind, fps |-> fps, rate |-> rate]

\* Nothing; a single clip; clips that are near enough, the last of them from
\* 10.099 s on, which is written as 10.990; clips whose frame rates are too far
\* apart, or unknown, or whose kinds differ.
MCClips == {<<>>, <<Clip(2000, "x", 40, 0)>>,
            <<Clip(10099, "x", 40, 100), Clip(800, "x", 41, 105)>>,
            <<Clip(2005, "x", 40, 100), Clip(3000, "x", 43, 100)>>,
            <<Clip(3000, "x", 0, 100), Clip(2000, "x", 43, 100), Clip(2000, "x", 43, 100)>>,
            <<Clip(3000, "x", 0, 100), Clip(2005, "y", 43, 100)>>}

\* Whole outputs, outputs that lack what may be missing and more, and a longer one.
MCLengths == {0, 2000, 4505, 4504, 5005, 6500, 7000, 10399, 10899, 20000}

Video(w, h, size, duration) == [w |-> w, h |-> h, size |-> size, duration |-> duration, fps |-> 30]

\* 16:9 and 4:3 and neither, at and below both heights; one not worth the
\* encode, one without a duration, two of one saving.
MCReportListings == {<<>>, <<"hd", "qhd", "dvd">>, <<"none", "sd", "tv", "ntsc">>,
                     <<"wide", "old", "low", "low">>}
MCSource ==
    "hd" :> Video(1280, 720, 9, 8) @@ "qhd" :> Video(960, 540, 8, 8)
    @@ "dvd" :> Video(720, 480, 9, 8) @@ "none" :> Video(960, 720, 5, 0)
    @@ "sd" :> Video(853, 480, 5, 2) @@ "tv" :> Video(1024, 768, 9, 2)
    @@ "ntsc" :> Video(720, 480, 1, 99) @@ "wide" :> Video(1920, 1080, 7, 3)
    @@ "old" :> Video(640, 480, 7, 5) @@ "low" :> Video(640, 360, 3, 1)

\* Sizes at and around those of the profiles, wide, high and square, some with
\* pixels that are not square, and one that is missing.
Pixels(num, den) == [num |-> num, den |-> den]
MCSources == {[w |-> w, h |-> h, num |-> r.num, den |-> r.den] :
                 w \in {0, 720, 854, 1080, 1280, 1520, 1920, 3840},
                 h \in {480, 576, 720, 848, 1080, 1920, 2160},
                 r \in {Pixels(1, 1), Pixels(8, 9), Pixels(32, 27)}}
MCPROFILES == <<1920, 1280, 854, 0>>
=============================================================================
