----------------------------- MODULE ToolsProofs -----------------------------
(***************************************************************************)
(* The properties of the programs of Tools, for any files, answers and     *)
(* failures.  Four of the programs have proof modules of their own; what   *)
(* they prove of a step is taken over here.  The others are proved about   *)
(* directly, as instances: C!Inv is Inv of Concat, and so on.              *)
(***************************************************************************)
EXTENDS Tools, FiniteSetTheorems, SequenceTheorems, WellFoundedInduction, TLAPS

-----------------------------------------------------------------------------
(* One step is a step of the program that was chosen.                      *)

LEMMA ProgramStep ==
    ASSUME [Next]_vars
    PROVE  /\ program' = program
           /\ program = "run_command" => [R!Next]_(R!vars)
           /\ program = "dupe_scripts" => [D!Next]_(D!vars)
           /\ program = "dir_utils" => [U!Next]_(U!vars)
           /\ program = "file_type_reorg" => [T!Next]_(T!vars)
           /\ program = "video_dupe_finder" => [V!Next]_(V!vars)
           /\ program = "default_streams" => [S!Next]_(S!vars)
           /\ program = "ihb_video_tools" => [I!Next]_(I!vars)
           /\ program = "concan" => [C!Next]_(C!vars)
           /\ program = "delta_calc_encode" => [L!Next]_(L!vars)
           /\ program = "calc_target_resolution" => [G!Next]_(G!vars)
<1>1. CASE UNCHANGED vars
  BY <1>1 DEF vars, R!vars, D!vars, U!vars, T!vars, V!vars, S!vars, I!vars, C!vars, L!vars,
     G!vars
<1>2. CASE Next
  BY <1>2 DEF Next, RunCommandNext, DupeScriptsNext, DirToolsNext, TypeReorgNext,
     VideoDupesNext, DefaultStreamsNext, DuplicateSearchNext, ConcatNext, DeltaReportNext,
     TargetResolutionNext
<1> QED BY <1>1, <1>2

-----------------------------------------------------------------------------
(* The programs with proof modules of their own.                           *)

LEMMA RunCommandHolds == Spec => [](program = "run_command" => R!Inv)
<1>1. Init => (program = "run_command" => R!Inv)
  BY ToolsAssumption, R!InitInv DEF Init
<1>2. (program = "run_command" => R!Inv) /\ [Next]_vars => (program = "run_command" => R!Inv)'
  BY ToolsAssumption, ProgramStep, R!StepInv
<1> QED BY <1>1, <1>2, PTL DEF Spec

LEMMA DupeScriptsHolds == Spec => [](program = "dupe_scripts" => D!Inv)
<1>1. Init => (program = "dupe_scripts" => D!Inv)
  BY D!InitInv DEF Init
<1>2. (program = "dupe_scripts" => D!Inv) /\ [Next]_vars => (program = "dupe_scripts" => D!Inv)'
  BY ProgramStep, D!StepInv
<1> QED BY <1>1, <1>2, PTL DEF Spec

LEMMA DirToolsHolds == Spec => [](program = "dir_utils" => U!Inv /\ U!ReorgInv)
<1> DEFINE P == program = "dir_utils" => U!Inv /\ U!ReorgInv
<1>1. Init => P
  BY ToolsAssumption, U!InitInv, U!ReorgStart DEF Init
<1>2. P /\ [Next]_vars => P'
  BY ToolsAssumption, ProgramStep, U!StepInv, U!ReorgStep
<1> QED BY <1>1, <1>2, PTL DEF Spec

LEMMA TypeReorgHolds == Spec => [](program = "file_type_reorg" => T!Inv /\ T!ExtractInv)
<1> DEFINE P == program = "file_type_reorg" => T!Inv /\ T!ExtractInv
<1>1. Init => P
  BY ToolsAssumption, T!InitInv, T!ExtractInit DEF Init
<1>2. P /\ [Next]_vars => P'
  BY ToolsAssumption, ProgramStep, T!StepInv, T!ExtractStep
<1> QED BY <1>1, <1>2, PTL DEF Spec

\* A call of gen_utils that reports success is about a child that succeeded, or
\* that it has killed itself.
THEOREM AnswerHonestSound == Spec => []AnswerHonest
<1>1. (program = "run_command" => R!Inv) => AnswerHonest
  BY DEF R!Inv, AnswerHonest
<1> QED BY <1>1, RunCommandHolds, PTL

\* A call of gen_utils that has returned leaves no child it did not signal.
THEOREM NoChildLeftSound == Spec => []NoChildLeft
<1>1. (program = "run_command" => R!Inv) => NoChildLeft
  BY DEF R!Inv, NoChildLeft
<1> QED BY <1>1, RunCommandHolds, PTL

\* dupe_find and dupe_cleaner keep a copy of each content.
THEOREM OneCopyStaysSound == Spec => []OneCopyStays
<1>1. (program = "dupe_scripts" => D!Inv) => OneCopyStays
  BY DEF D!Inv, D!Kept, D!OneCopyStays, OneCopyStays
<1> QED BY <1>1, DupeScriptsHolds, PTL

\* dir_utils loses no file.
THEOREM NothingLostSound == Spec => []NothingLost
<1>1. (program = "dir_utils" => U!Inv /\ U!ReorgInv) => NothingLost
  BY DEF U!Inv, NothingLost
<1> QED BY <1>1, DirToolsHolds, PTL

\* At the end of reorg every file is at home, or its name is in the way.
THEOREM ReorganisedSound == Spec => []Reorganised
<1>1. (program = "dir_utils" => U!Inv /\ U!ReorgInv) => Reorganised
  BY U!ReorgInvReorganised DEF Reorganised
<1> QED BY <1>1, DirToolsHolds, PTL

\* file_type_reorg loses nothing that the user had outside temp_extract.
THEOREM FilesKeptSound == Spec => []FilesKept
<1>1. (program = "file_type_reorg" => T!Inv /\ T!ExtractInv) => FilesKept
  BY DEF T!Inv, FilesKept
<1> QED BY <1>1, TypeReorgHolds, PTL

\* file_type_reorg takes an archive for extracted only when what it held, the
\* archives in it included, has been delivered or reported.
THEOREM UnpackedSound == Spec => []Unpacked
<1>1. (program = "file_type_reorg" => T!Inv /\ T!ExtractInv) => Unpacked
  BY DEF T!ExtractInv, Unpacked
<1> QED BY <1>1, TypeReorgHolds, PTL

-----------------------------------------------------------------------------
(* Induction over the natural numbers, for a set: it needs no theorem with *)
(* an operator for a parameter.                                            *)

LEMMA Induction ==
    ASSUME NEW N, 0 \in N, \A n \in Nat : n \in N => n + 1 \in N
    PROVE  Nat \subseteq N
<1> DEFINE F == Nat \ N
<1> SUFFICES ASSUME F # {} PROVE FALSE
  OBVIOUS
<1>1. PICK x \in F : \A y \in F : ~ (<<y, x>> \in OpToRel(<, Nat))
  <2>1. F \subseteq Nat
    OBVIOUS
  <2> HIDE DEF F
  <2> QED BY <2>1, WFMin, NatLessThanWellFounded, Zenon
<1>2. x \in Nat /\ x # 0 /\ x \notin N
  BY <1>1
<1>3. x - 1 \in F
  BY <1>2
<1>4. <<x - 1, x>> \in OpToRel(<, Nat)
  BY <1>2, <1>3 DEF OpToRel
<1> QED BY <1>1, <1>3, <1>4

-----------------------------------------------------------------------------
(* Concat.                                                                 *)

\* The recursive function that adds the durations up does so.
LEMMA LengthDef ==
    ASSUME NEW cs, Len(cs) \in Nat, \A n \in 1 .. Len(cs) : cs[n].dur \in Nat
    PROVE  /\ C!Length(cs) \in [0 .. Len(cs) -> Nat]
           /\ C!Length(cs)[0] = 0
           /\ \A n \in 1 .. Len(cs) : C!Length(cs)[n] = C!Length(cs)[n - 1] + cs[n].dur
<1> DEFINE Upto(f, k) == /\ f \in [0 .. k -> Nat] /\ f[0] = 0
                         /\ \A n \in 1 .. k : f[n] = f[n - 1] + cs[n].dur
           N == {k \in Nat : k <= Len(cs) => \E f : Upto(f, k)}
<1>1. 0 \in N
  <2>1. Upto([n \in 0 .. 0 |-> 0], 0)
    OBVIOUS
  <2> QED BY <2>1
<1>2. ASSUME NEW k \in Nat, k \in N PROVE k + 1 \in N
  <2> SUFFICES ASSUME k + 1 <= Len(cs) PROVE \E f : Upto(f, k + 1)
    <3> HIDE DEF Upto
    <3> QED OBVIOUS
  <2>1. PICK f : Upto(f, k)
    <3>1. k <= Len(cs)
      OBVIOUS
    <3> QED BY <1>2, <3>1
  <2>2. cs[k + 1].dur \in Nat
    OBVIOUS
  <2> DEFINE g == [n \in 0 .. k + 1 |-> IF n = k + 1 THEN f[k] + cs[k + 1].dur ELSE f[n]]
  <2>3. g \in [0 .. k + 1 -> Nat] /\ g[0] = 0
    BY <2>1, <2>2
  <2>4. ASSUME NEW n \in 1 .. k + 1 PROVE g[n] = g[n - 1] + cs[n].dur
    BY <2>1, <2>2, <2>4
  <2>5. Upto(g, k + 1)
    BY <2>3, <2>4
  <2> QED BY <2>5
<1>3. Len(cs) \in N
  <2> HIDE DEF N
  <2> QED BY <1>1, <1>2, Induction
<1>4. PICK f : Upto(f, Len(cs))
  BY <1>3
<1>5. f = [n \in 0 .. Len(cs) |-> IF n = 0 THEN 0 ELSE f[n - 1] + cs[n].dur]
  BY <1>4
<1>6. C!Length(cs) = [n \in 0 .. Len(cs) |->
                        IF n = 0 THEN 0 ELSE C!Length(cs)[n - 1] + cs[n].dur]
  BY <1>5 DEF C!Length
<1>7. \A k \in 0 .. Len(cs) : C!Length(cs)[k] = f[k]
  <2> DEFINE E == {k \in Nat : k <= Len(cs) => C!Length(cs)[k] = f[k]}
  <2>1. 0 \in E
    BY <1>4, <1>6
  <2>2. ASSUME NEW k \in Nat, k \in E PROVE k + 1 \in E
    BY <1>4, <1>6, <2>2
  <2>3. Nat \subseteq E
    <3> HIDE DEF E
    <3> QED BY <2>1, <2>2, Induction
  <2> QED BY <2>3
<1>8. C!Length(cs) \in [0 .. Len(cs) -> Nat]
  BY <1>4, <1>6, <1>7
<1>9. \A n \in 1 .. Len(cs) : C!Length(cs)[n] = C!Length(cs)[n - 1] + cs[n].dur
  BY <1>6
<1>10. C!Length(cs)[0] = 0
  BY <1>6
<1> QED BY <1>8, <1>9, <1>10

\* The last clip starts so far before the end as it is long, the others no
\* later than it.
LEMMA StartsBefore ==
    ASSUME NEW cs \in Clips, NEW i \in 1 .. Len(cs)
    PROVE  /\ C!Total(cs) \in Nat /\ C!Length(cs)[i - 1] \in Nat
           /\ C!Length(cs)[i - 1] + ClipTolerance < C!Total(cs)
<1> DEFINE last == Len(cs)
<1>1. /\ last \in Nat \ {0} /\ \A n \in 1 .. last : cs[n].dur \in Nat
      /\ cs[last].dur > ClipTolerance /\ ClipTolerance \in Nat
  <2> DEFINE Clip == [dur : Nat, kind : STRING, fps : Nat, rate : Nat]
  <2>1. /\ cs \in Seq(Clip) /\ ClipTolerance \in Nat
        /\ cs # <<>> => cs[last].dur > ClipTolerance
    BY ToolsAssumption DEF C!ClipBounds
  <2>2. \A c \in Clip : c.dur \in Nat
    OBVIOUS
  <2>3. last \in Nat /\ \A n \in 1 .. last : cs[n] \in Clip
    <3> HIDE DEF Clip
    <3> QED BY <2>1
  <2>4. 1 <= i /\ i <= last
    BY <2>3
  <2>5. cs # <<>>
    BY <2>4
  <2>6. last \in Nat \ {0} /\ last \in 1 .. last
    BY <2>3, <2>4
  <2>7. \A n \in 1 .. last : cs[n].dur \in Nat
    BY <2>2, <2>3
  <2> HIDE DEF last, Clip
  <2> QED BY <2>1, <2>5, <2>6, <2>7
<1> HIDE DEF last
<1> DEFINE len == C!Length(cs)
<1>2. /\ len \in [0 .. last -> Nat]
      /\ \A n \in 1 .. last : len[n] = len[n - 1] + cs[n].dur
  BY <1>1, LengthDef DEF last
<1>3. i \in 1 .. last
  BY DEF last
<1> HIDE DEF len
<1> DEFINE N == {k \in Nat : i + k <= last => len[i - 1] <= len[i + k - 1]}
<1>4. last - i \in N
  <2>1. 0 \in N
    BY <1>1, <1>2, <1>3
  <2>2. ASSUME NEW k \in Nat, k \in N PROVE k + 1 \in N
    <3>1. SUFFICES ASSUME i + k + 1 <= last PROVE len[i - 1] <= len[i + k]
      BY <2>2, <1>3
    <3>2. i - 1 \in 0 .. last /\ i + k - 1 \in 0 .. last /\ i + k \in 1 .. last
      BY <1>1, <1>3, <3>1
    <3>3. len[i + k] = len[i + k - 1] + cs[i + k].dur
      BY <1>2, <3>2
    <3>4. len[i - 1] \in Nat /\ len[i + k - 1] \in Nat /\ cs[i + k].dur \in Nat
      BY <1>1, <1>2, <3>2
    <3>5. len[i - 1] <= len[i + k - 1]
      BY <1>1, <1>3, <2>2, <3>1
    <3> QED BY <3>3, <3>4, <3>5
  <2> HIDE DEF N
  <2> QED BY <1>1, <1>3, <2>1, <2>2, Induction
<1>5. len[i - 1] <= len[last - 1] /\ len[last] = len[last - 1] + cs[last].dur
  BY <1>1, <1>2, <1>3, <1>4
<1>6. len[i - 1] \in Nat /\ len[last - 1] \in Nat /\ cs[last].dur \in Nat
  BY <1>1, <1>2, <1>3
<1> QED BY <1>1, <1>5, <1>6 DEF C!Total, len, last

\* What is assumed of the clips, one by one.
LEMMA ClipFacts ==
    /\ ClipTolerance \in Nat /\ Lengths \subseteq Nat
    /\ \A cs \in Clips : /\ DOMAIN cs = 1 .. Len(cs) /\ Len(cs) \in Nat
                         /\ C!Total(cs) \in Nat
<1>1. ClipTolerance \in Nat /\ Lengths \subseteq Nat
  BY ToolsAssumption DEF C!ClipBounds
<1>2. ASSUME NEW cs \in Clips
      PROVE  DOMAIN cs = 1 .. Len(cs) /\ Len(cs) \in Nat
  <2> DEFINE Clip == [dur : Nat, kind : STRING, fps : Nat, rate : Nat]
  <2>1. cs \in Seq(Clip)
    BY <1>2, ToolsAssumption DEF C!ClipBounds
  <2> HIDE DEF Clip
  <2> QED BY <2>1
<1>3. ASSUME NEW cs \in Clips PROVE C!Total(cs) \in Nat
  <2>1. \A n \in 1 .. Len(cs) : cs[n].dur \in Nat
    <3> DEFINE Clip == [dur : Nat, kind : STRING, fps : Nat, rate : Nat]
    <3>1. cs \in Seq(Clip)
      BY ToolsAssumption DEF C!ClipBounds
    <3>2. \A c \in Clip : c.dur \in Nat
      OBVIOUS
    <3>3. \A n \in 1 .. Len(cs) : cs[n] \in Clip
      <4> HIDE DEF Clip
      <4> QED BY <3>1
    <3> QED BY <3>2, <3>3
  <2> QED BY <1>2, <2>1, LengthDef DEF C!Total
<1> QED BY <1>1, <1>2, <1>3

\* A time is written as it is, or with 1 to 99 milliseconds as up to 891 more.
LEMMA FormattedTime ==
    ASSUME NEW time \in Nat
    PROVE  /\ C!Formatted(time) \in Nat
           /\ \/ C!Formatted(time) = time
              \/ time % 1000 \in 1 .. 99 /\ C!Formatted(time) <= time + 891
<1> DEFINE s == time \div 1000
           ms == time % 1000
<1>1. s \in Nat /\ ms \in 0 .. 999 /\ time = 1000 * s + ms
  OBVIOUS
<1>2. C!Formatted(time) = 1000 * s + C!Milliseconds(ms)
  BY DEF C!Formatted
<1>3. C!Milliseconds(ms) = IF ms < 10 THEN 100 * ms ELSE IF ms < 100 THEN 10 * ms ELSE ms
  BY DEF C!Milliseconds
<1> HIDE DEF s, ms
<1>4. CASE ms = 0
  BY <1>1, <1>2, <1>3, <1>4
<1>5. CASE ms \in 1 .. 99
  BY <1>1, <1>2, <1>3, <1>5 DEF ms
<1>6. CASE ms \in 100 .. 999
  BY <1>1, <1>2, <1>3, <1>6
<1> QED BY <1>1, <1>4, <1>5, <1>6

LEMMA StartsType ==
    ASSUME NEW cs \in Clips
    PROVE  C!Starts(cs) \in Seq(Nat)
<1>1. \A i \in 1 .. Len(cs) : C!Formatted(C!Length(cs)[i - 1]) \in Nat
  BY ClipFacts, StartsBefore, FormattedTime
<1> QED BY <1>1, ClipFacts DEF C!Starts

LEMMA ConcatInit == C!Init => C!Inv
<1> SUFFICES ASSUME C!Init PROVE C!Inv
  OBVIOUS
<1>1. v9 = <<>> /\ v5 = "check" /\ v6 = FALSE /\ v7 = "none" /\ v11 = "no"
  BY DEF C!Init
<1>2. C!TypeOK
  <2>1. <<>> \in Seq(Nat)
    OBVIOUS
  <2> QED BY <2>1 DEF C!Init, C!TypeOK
<1> QED BY <1>1, <1>2 DEF C!Inv

LEMMA ConcatStep == C!Inv /\ [C!Next]_(C!vars) => C!Inv'
<1> SUFFICES ASSUME C!Inv, [C!Next]_(C!vars) PROVE C!Inv'
  OBVIOUS
<1> USE DEF C!Inv, C!TypeOK, C!Return
<1>1. CASE C!ProbeClips
  BY <1>1 DEF C!ProbeClips
<1>2. CASE C!ListFails
  BY <1>2 DEF C!ListFails
<1>3. CASE C!WriteList
  BY <1>3 DEF C!WriteList
<1>4. CASE C!UserDeclines
  BY <1>4 DEF C!UserDeclines
<1>5. CASE C!UserAgrees
  BY <1>5 DEF C!UserAgrees
<1>6. CASE C!UserEnds
  BY <1>6 DEF C!UserEnds
<1>7. CASE C!FfmpegEnds
  BY <1>7 DEF C!FfmpegEnds
<1>8. CASE C!FfmpegMissing
  BY <1>8 DEF C!FfmpegMissing
<1>9. CASE C!RemoveList \/ C!RemoveFails
  BY <1>9 DEF C!RemoveList, C!RemoveFails
<1>10. CASE C!CheckDuration
  BY <1>10, ClipFacts DEF C!CheckDuration, C!NoOutput
<1>11. CASE C!MkvChapters
  BY <1>11 DEF C!MkvChapters
<1>12. CASE C!Mp4Chapters \/ C!Mp4ChaptersFail
  BY <1>12 DEF C!Mp4Chapters, C!Mp4ChaptersFail
<1>13. CASE C!UserEdits \/ C!InputEnds
  BY <1>13 DEF C!UserEdits, C!InputEnds
<1>14. CASE C!Mp4boxEnds
  BY <1>14, StartsType DEF C!Mp4boxEnds
<1>15. CASE UNCHANGED C!vars
  BY <1>15 DEF C!vars, C!Starts, C!Total
<1> QED
  BY <1>1, <1>2, <1>3, <1>4, <1>5, <1>6, <1>7, <1>8, <1>9, <1>10, <1>11, <1>12, <1>13, <1>14,
     <1>15
  DEF C!Next

LEMMA ConcatHolds == Spec => [](program = "concan" => C!Inv)
<1>1. Init => (program = "concan" => C!Inv)
  BY ConcatInit DEF Init
<1>2. (program = "concan" => C!Inv) /\ [Next]_vars => (program = "concan" => C!Inv)'
  BY ProgramStep, ConcatStep
<1> QED BY <1>1, <1>2, PTL DEF Spec

\* concan leaves a temporary file behind only when it could not be written or
\* removed, ffmpeg could not be started or the user ended the run.
THEOREM NoLeftoversSound == Spec => []NoLeftovers
<1>1. (program = "concan" => C!Inv) => NoLeftovers
  BY DEF C!Inv, C!TypeOK, C!NoLeftovers, NoLeftovers
<1> QED BY <1>1, ConcatHolds, PTL

\* Every chapter starts inside of the output, whatever ffmpeg made of the clips,
\* or is written up to 0.891 s late by format_time and by less than that behind
\* it: this needs the sum of the durations to grow with each clip.
THEOREM ChaptersInsideSound == Spec => []ChaptersInside
<1>1. (program = "concan" => C!Inv) => ChaptersInside
  <2> SUFFICES ASSUME C!Inv, NEW i \in DOMAIN v9
               PROVE  v9[i] < v8 \/ (C!Shifted(i) /\ v9[i] < v8 + 891)
    BY DEF ChaptersInside, C!ChaptersInside
  <2>1. v9 # <<>>
    OBVIOUS
  <2>2. v1 \in Clips /\ v9 = C!Starts(v1) /\ C!Total(v1) - v8 <= ClipTolerance
    BY <2>1 DEF C!Inv, C!TypeOK
  <2>3. v8 \in Int /\ ClipTolerance \in Nat /\ v1 \in Seq({v1[j] : j \in DOMAIN v1})
    BY <2>2, ToolsAssumption DEF C!ClipBounds, C!Inv, C!TypeOK, C!NoOutput
  <2> DEFINE start == C!Length(v1)[i - 1]
  <2>4. i \in 1 .. Len(v1) /\ v9[i] = C!Formatted(start)
    BY <2>2, <2>3 DEF C!Starts
  <2>5. start \in Nat /\ C!Total(v1) \in Nat /\ start + ClipTolerance < C!Total(v1)
    BY <2>2, <2>4, StartsBefore
  <2>6. start < v8
    BY <2>2, <2>3, <2>5
  <2>7. /\ v9[i] \in Nat
        /\ v9[i] = start \/ (start % 1000 \in 1 .. 99 /\ v9[i] <= start + 891)
    <3> HIDE DEF start
    <3> QED BY <2>4, <2>5, FormattedTime
  <2>8. C!Shifted(i) <=> start % 1000 \in 1 .. 99
    BY DEF C!Shifted
  <2> HIDE DEF start
  <2> QED BY <2>3, <2>5, <2>6, <2>7, <2>8
<1> QED BY <1>1, ConcatHolds, PTL

-----------------------------------------------------------------------------
(* Sets of numbers, cardinalities and short sequences.                     *)

\* A set of numbers has a least one.
LEMMA Least ==
    ASSUME NEW is, is \subseteq Nat, is # {}
    PROVE  \E i \in is : \A j \in is : i <= j
<1>1. PICK i \in is : \A j \in is : ~ (<<j, i>> \in OpToRel(<, Nat))
  BY WFMin, NatLessThanWellFounded, Zenon
<1>2. \A j \in is : i <= j
  <2>1. SUFFICES ASSUME NEW j \in is, ~ (i <= j) PROVE FALSE
    OBVIOUS
  <2>2. j \in Nat /\ i \in Nat /\ j < i
    BY <2>1
  <2>3. <<j, i>> \in OpToRel(<, Nat)
    BY <2>2 DEF OpToRel
  <2> QED BY <1>1, <2>3
<1> QED BY <1>2

\* Cardinality of an instance is the one the theorems are about.
LEMMA SameCardinality == \A X : S!Cardinality(X) = Cardinality(X)
BY DEF S!Cardinality, Cardinality

\* Sequences of one and of two.
LEMMA OneTuple ==
    ASSUME NEW a
    PROVE  /\ Head(<<a>>) = a /\ Tail(<<a>>) = <<>> /\ <<a>> # <<>>
           /\ DOMAIN <<a>> = {1} /\ <<a>>[1] = a
           /\ <<>> \o <<a>> = <<a>>
           /\ \A A : a \in A => <<a>> \in Seq(A)
OBVIOUS

LEMMA TwoTuple ==
    ASSUME NEW a, NEW b
    PROVE  /\ Head(<<a, b>>) = a /\ Tail(<<a, b>>) = <<b>> /\ <<a, b>> # <<>>
           /\ DOMAIN <<a, b>> = {1, 2} /\ <<a, b>>[1] = a /\ <<a, b>>[2] = b
           /\ <<a>> \o <<b>> = <<a, b>>
           /\ \A A : a \in A /\ b \in A => <<a, b>> \in Seq(A)
<1>1. \A A : a \in A /\ b \in A => <<a, b>> \in Seq(A)
  OBVIOUS
<1>2. <<a>> \o <<b>> = <<a, b>>
  <2>1. <<a>> \in Seq({a, b}) /\ b \in {a, b}
    OBVIOUS
  <2>2. Append(<<a>>, b) = <<a>> \o <<b>>
    BY <2>1, AppendIsConcat
  <2> DEFINE s == Append(<<a>>, b)
             u == <<a, b>>
  <2>3. s \in Seq({a, b}) /\ Len(s) = 2 /\ s[1] = a /\ s[2] = b
    BY <2>1, AppendProperties
  <2>4. u \in Seq({a, b}) /\ Len(u) = 2 /\ u[1] = a /\ u[2] = b
    OBVIOUS
  <2> HIDE DEF s, u
  <2>5. \A i \in 1 .. Len(s) : s[i] = u[i]
    BY <2>3, <2>4
  <2>6. s = u
    BY <2>3, <2>4, <2>5, SeqEqual
  <2> QED BY <2>2, <2>6 DEF s, u
<1>3. Head(<<a, b>>) = a /\ <<a, b>> # <<>> /\ DOMAIN <<a, b>> = {1, 2}
      /\ <<a, b>>[1] = a /\ <<a, b>>[2] = b
  OBVIOUS
<1>4. Tail(<<a, b>>) = <<b>>
  OBVIOUS
<1> QED BY <1>1, <1>2, <1>3, <1>4

-----------------------------------------------------------------------------
(* DefaultStreams: v1 is tool, v2 before, v3 flags, v4 todo, v5 file,      *)
(* v6 seen, v7 types, v8 calls, v9 failed, v10 pc.                         *)

LEMMA FirstIn ==
    ASSUME NEW is, is \subseteq Nat, is # {}
    PROVE  S!First(is) \in is
BY Least DEF S!First

LEMMA FirstOne == ASSUME NEW i \in Nat PROVE S!First({i}) = i
BY FirstIn

LEMMA StreamSet ==
    ASSUME NEW f \in StreamFiles
    PROVE  /\ DOMAIN Layout[f] \subseteq Nat /\ IsFiniteSet(DOMAIN Layout[f])
           /\ DOMAIN Layout[f] = 1 .. Len(Layout[f]) /\ Len(Layout[f]) \in Nat
<1>1. DOMAIN Layout[f] = 1 .. Len(Layout[f]) /\ Len(Layout[f]) \in Nat
  BY ToolsAssumption DEF S!StreamConstants
<1>2. IsFiniteSet(1 .. Len(Layout[f]))
  BY <1>1, FS_Interval
<1> QED BY <1>1, <1>2

\* The stream that mkvpropedit finds by its number is the one that was meant:
\* of the streams before it, and itself, as many have its type as are left
\* when those of other types are taken off.
LEMMA MkvEditedOne ==
    ASSUME NEW f \in StreamFiles, NEW i \in DOMAIN Layout[f], f \in Mkv
    PROVE  S!Edited(f, i) = {i}
<1> DEFINE t == Layout[f][i].type
           upto(j) == {k \in S!OfType(f, t) : k <= j}
           others == {j \in DOMAIN Layout[f] : j < i /\ Layout[f][j].type # t}
<1>1. i \in Nat /\ i >= 1
  BY StreamSet
<1>2. \A j \in DOMAIN Layout[f] : j \in Nat
  BY StreamSet
<1>3. ASSUME NEW j \in DOMAIN Layout[f] PROVE IsFiniteSet(upto(j)) /\ Cardinality(upto(j)) \in Nat
  <2>1. upto(j) \subseteq DOMAIN Layout[f]
    BY DEF S!OfType
  <2> HIDE DEF upto
  <2> QED BY <2>1, StreamSet, FS_Subset, FS_CardinalityType
<1>4. IsFiniteSet(others) /\ Cardinality(others) \in Nat
  <2>1. others \subseteq DOMAIN Layout[f]
    OBVIOUS
  <2> HIDE DEF others
  <2> QED BY <2>1, StreamSet, FS_Subset, FS_CardinalityType
<1>5. upto(i) \cup others = 1 .. i /\ upto(i) \cap others = {}
  BY StreamSet DEF S!OfType
<1>6. Cardinality(upto(i)) = i - Cardinality(others)
  <2>1. Cardinality(1 .. i) = i
    BY <1>1, FS_Interval
  <2>2. Cardinality(upto(i) \cup others)
          = Cardinality(upto(i)) + Cardinality(others) - Cardinality({})
    BY <1>3, <1>4, <1>5, FS_Union
  <2>3. Cardinality({}) = 0 /\ Cardinality(upto(i)) \in Nat
    BY <1>3, FS_EmptySet
  <2>4. i = Cardinality(upto(i)) + Cardinality(others) - 0
    BY <1>5, <2>1, <2>2, <2>3
  <2> HIDE DEF upto, others
  <2> QED BY <1>1, <1>4, <2>3, <2>4
<1>7. S!TrackNumber(f, i) = Cardinality(upto(i))
  BY <1>1, <1>4, <1>6, SameCardinality DEF S!TrackNumber
<1>8. ASSUME NEW j \in S!OfType(f, t), NEW k \in S!OfType(f, t), j < k
      PROVE  Cardinality(upto(j)) # Cardinality(upto(k))
  <2>1. j \in DOMAIN Layout[f] /\ k \in DOMAIN Layout[f] /\ j \in Nat /\ k \in Nat
    BY <1>2 DEF S!OfType
  <2>2. upto(j) \subseteq upto(k) /\ k \in upto(k) /\ k \notin upto(j)
    BY <1>2, <1>8, <2>1 DEF S!OfType
  <2> HIDE DEF upto
  <2> QED BY <1>3, <2>1, <2>2, FS_Subset
<1>9. i \in S!OfType(f, t)
  BY DEF S!OfType
<1>10. {j \in S!OfType(f, t) : Cardinality(upto(j)) = S!TrackNumber(f, i)} = {i}
  <2>1. \A j \in S!OfType(f, t) : Cardinality(upto(j)) = Cardinality(upto(i)) => j = i
    <3>1. \A j \in S!OfType(f, t) : j \in Nat
      BY <1>2 DEF S!OfType
    <3> HIDE DEF upto
    <3> QED BY <1>1, <1>8, <1>9, <3>1
  <2> HIDE DEF upto
  <2> QED BY <1>7, <1>9, <2>1
<1> QED BY <1>10, SameCardinality DEF S!Edited

\* So is the one that MP4Box finds when all numbers have one digit.
LEMMA EditedOne ==
    ASSUME NEW f \in StreamFiles, NEW i \in DOMAIN Layout[f], S!Named(f),
           f \in Mkv \/ Layout[f][i].id # S!NoId
    PROVE  S!Edited(f, i) = {i}
<1>1. CASE f \notin Mkv
  <2>1. ASSUME NEW j \in DOMAIN Layout[f] PROVE S!Hex(Layout[f][j].id) = Layout[f][j].id
    <3> PICK id : id = Layout[f][j].id
      OBVIOUS
    <3>1. id \in 0 .. 9
      <4>1. id < 10
        BY <1>1 DEF S!Named
      <4>2. id \in 0 .. 99
        BY ToolsAssumption DEF S!StreamConstants
      <4> QED BY <4>1, <4>2
    <3>2. id \div 10 = 0 /\ id % 10 = id
      BY <3>1
    <3> QED BY <3>1, <3>2 DEF S!Hex
  <2>2. \A j \in DOMAIN Layout[f] : Layout[f][j].id = Layout[f][i].id => j = i
    BY <1>1, ToolsAssumption DEF S!StreamConstants
  <2> QED BY <1>1, <2>1, <2>2 DEF S!Edited
<1> QED BY <1>1, MkvEditedOne

\* A call edits streams of the file.
LEMMA EditedSome ==
    ASSUME NEW f \in StreamFiles, NEW i
    PROVE  S!Edited(f, i) \subseteq DOMAIN Layout[f]
BY DEF S!Edited, S!OfType

LEMMA AtMostOne ==
    ASSUME NEW f \in StreamFiles, NEW t
    PROVE  \/ S!Choice(f, t) = {}
           \/ /\ \E i \in DOMAIN Layout[f] : S!Choice(f, t) = {i}
              /\ t \in S!Types => S!Choice(f, t) \subseteq S!OfType(f, t)
<1> SUFFICES ASSUME S!Choice(f, t) # {}
             PROVE  /\ \E i \in DOMAIN Layout[f] : S!Choice(f, t) = {i}
                    /\ t \in S!Types => S!Choice(f, t) \subseteq S!OfType(f, t)
  OBVIOUS
<1>1. \A u : S!OfType(f, u) \subseteq DOMAIN Layout[f]
  BY DEF S!OfType
<1>2. \A is : is \subseteq DOMAIN Layout[f] /\ is # {} => S!First(is) \in is
  BY FirstIn, StreamSet
<1>3. \A is : is \subseteq DOMAIN Layout[f] /\ is # {} => S!Best(f, is) \in is
  <2>1. SUFFICES ASSUME NEW is, is \subseteq DOMAIN Layout[f], is # {} PROVE S!Best(f, is) \in is
    OBVIOUS
  <2> DEFINE hi == {i \in is : Layout[f][i].hi}
             sdh == {i \in is : Layout[f][i].sdh}
             largest == {i \in is : /\ Layout[f][i].size > 0
                                    /\ \A j \in is : Layout[f][j].size <= Layout[f][i].size}
  <2>2. hi \subseteq is /\ sdh \subseteq is /\ largest \subseteq is
    OBVIOUS
  <2>3. S!Best(f, is) = IF hi # {} THEN S!First(hi)
                        ELSE IF sdh # {} THEN S!First(sdh)
                        ELSE IF largest # {} THEN S!First(largest)
                        ELSE S!First(is)
    BY DEF S!Best
  <2> HIDE DEF hi, sdh, largest
  <2> QED BY <1>2, <2>1, <2>2, <2>3
<1>4. CASE t = "AUDIO"
  <2>1. S!Choice(f, t) = S!Lang(f, S!OfType(f, "AUDIO"), "eng")
        /\ Cardinality(S!Lang(f, S!OfType(f, "AUDIO"), "eng")) = 1
    BY <1>4, SameCardinality DEF S!Choice, S!AudioChoice
  <2>2. S!Choice(f, t) \subseteq S!OfType(f, t)
    BY <1>4, <2>1 DEF S!Lang
  <2>3. IsFiniteSet(S!Choice(f, t))
    BY <1>1, <2>2, StreamSet, FS_Subset
  <2> QED BY <1>1, <2>1, <2>2, <2>3, FS_Singleton
<1>5. CASE t # "AUDIO"
  <2> DEFINE subs == S!OfType(f, "SUBTITLE")
  <2>1. S!Lang(f, subs, "eng") \subseteq subs /\ S!Lang(f, subs, "und") \subseteq subs
    BY DEF S!Lang
  <2>2. subs \subseteq DOMAIN Layout[f]
    BY <1>1
  <2>3. S!Choice(f, t) = IF subs = {} THEN {}
                         ELSE IF S!Lang(f, subs, "eng") # {} THEN {S!Best(f, S!Lang(f, subs, "eng"))}
                         ELSE IF S!Lang(f, subs, "und") # {} THEN {S!Best(f, S!Lang(f, subs, "und"))}
                         ELSE {S!First(subs)}
    BY <1>5 DEF S!Choice, S!SubtitleChoice
  <2> HIDE DEF subs
  <2>4. \E i \in subs : S!Choice(f, t) = {i}
    BY <1>2, <1>3, <2>1, <2>2, <2>3
  <2>5. t \in S!Types => subs = S!OfType(f, t)
    BY <1>5 DEF S!Types, subs
  <2> QED BY <2>2, <2>4, <2>5
<1> QED BY <1>4, <1>5
LEMMA NoFileIsNone == S!NoFile \notin StreamFiles
BY ToolsAssumption DEF S!StreamConstants

LEMMA OnlyOne ==
    ASSUME NEW X, IsFiniteSet(X), NEW i \in X, S!Cardinality(X) <= 1
    PROVE  X = {i}
<1>1. IsFiniteSet({i}) /\ Cardinality({i}) = 1
  BY FS_Singleton
<1>2. Cardinality(X) \in Nat /\ Cardinality(X) <= 1
  BY FS_CardinalityType, SameCardinality
<1>3. {i} \in SUBSET X /\ Cardinality({i}) <= Cardinality(X)
  BY FS_Subset
<1> QED BY <1>1, <1>2, <1>3, FS_Subset

LEMMA WasFinite ==
    ASSUME S!PlaceInv, NEW f \in StreamFiles, NEW t
    PROVE  IsFiniteSet(S!Was(f, t)) /\ S!Was(f, t) \subseteq DOMAIN Layout[f]
                                    /\ S!Was(f, t) \subseteq S!OfType(f, t)
<1>1. S!Was(f, t) \subseteq DOMAIN Layout[f] /\ S!Was(f, t) \subseteq S!OfType(f, t)
  BY DEF S!PlaceInv, S!Was
<1> QED BY <1>1, StreamSet, FS_Subset

\* A stream has one type.
LEMMA OneType ==
    ASSUME NEW f \in StreamFiles, NEW t, NEW u, t # u
    PROVE  S!OfType(f, t) \cap S!OfType(f, u) = {}
BY DEF S!OfType

LEMMA IndexesOf == \A f \in StreamFiles : DOMAIN Layout[f] \subseteq S!Indexes
BY DEF S!Indexes

LEMMA TypeLists ==
    \A ts \in {<<>>, <<"AUDIO">>, <<"SUBTITLE">>, <<"AUDIO", "SUBTITLE">>} : ts \in Seq(S!Types)
<1> DEFINE Ty == S!Types
<1>1. "AUDIO" \in Ty /\ "SUBTITLE" \in Ty
  BY DEF S!Types
<1> HIDE DEF Ty
<1>2. <<>> \in Seq(Ty) /\ <<"AUDIO">> \in Seq(Ty) /\ <<"SUBTITLE">> \in Seq(Ty)
      /\ <<"AUDIO", "SUBTITLE">> \in Seq(Ty)
  BY <1>1
<1> QED BY <1>2 DEF Ty

LEMMA StreamsInit == S!Init => S!Inv
<1> SUFFICES ASSUME S!Init PROVE S!Inv
  OBVIOUS
<1>1. /\ v1 \in S!Tools /\ v2 \in [StreamFiles -> SUBSET S!Indexes]
      /\ \A f \in StreamFiles : v2[f] \subseteq DOMAIN Layout[f]
      /\ v3 = v2 /\ v4 = StreamFiles /\ v5 = S!NoFile /\ v6 = {} /\ v7 = <<>> /\ v8 = <<>>
      /\ v9 = {} /\ v10 = "walk"
  BY DEF S!Init
<1>2. S!TypeOK
  <2>1. v7 \in Seq(S!Types)
    BY <1>1
  <2>2. v8 \in Seq([stream : S!Indexes, on : BOOLEAN])
    BY <1>1
  <2> QED BY <1>1, <2>1, <2>2 DEF S!TypeOK
<1>3. S!PlaceInv
  BY <1>1, NoFileIsNone DEF S!PlaceInv
<1>4. S!CallInv /\ S!SettledInv /\ S!FlagInv
  BY <1>1 DEF S!CallInv, S!SettledInv, S!FlagInv
<1> QED BY <1>2, <1>3, <1>4 DEF S!Inv

LEMMA ProbeFileStreams == S!Inv /\ S!ProbeFile => S!Inv'
<1> SUFFICES ASSUME S!Inv, S!ProbeFile PROVE S!Inv'
  OBVIOUS
<1>1. PICK f \in v4 :
        /\ v10 = "walk" /\ v5' = f /\ v4' = v4 \ {f} /\ v6' = v3[f]
        /\ v7' = S!TypesOf(v1) /\ v10' = "type" /\ UNCHANGED <<v1, v2, v3, v8, v9>>
  BY DEF S!ProbeFile
<1>2. f \in StreamFiles /\ v3[f] = v2[f] /\ v8 = <<>> /\ v1 \in S!Tools
      /\ v5 = S!NoFile
  BY <1>1 DEF S!Inv, S!TypeOK, S!PlaceInv
<1>3. v7' \in {<<"AUDIO">>, <<"SUBTITLE">>, <<"AUDIO", "SUBTITLE">>}
  BY <1>1, <1>2 DEF S!TypesOf, S!Tools
<1>4. S!TypeOK'
  <2>1. v7' \in Seq(S!Types)
    BY <1>3, TypeLists
  <2>2. v6' \subseteq S!Indexes
    BY <1>1, <1>2 DEF S!Inv, S!TypeOK
  <2> QED BY <1>1, <1>2, <2>1, <2>2 DEF S!Inv, S!TypeOK
<1>5. \A t : S!Left(t)' <=> S!Treated(t)'
  BY <1>1 DEF S!Left, S!Treated
<1>6. S!PlaceInv'
  BY <1>1, <1>2, <1>3 DEF S!Inv, S!PlaceInv, S!Treated
<1>7. \A t : \A g \in StreamFiles : /\ S!Settled(g, t)' = S!Settled(g, t)
                                    /\ S!Now(g, t)' = S!Now(g, t) /\ S!Was(g, t)' = S!Was(g, t)
                                    /\ S!Treated(t)' = S!Treated(t)
  BY <1>1 DEF S!Settled, S!Now, S!Was, S!Treated
<1>8. S!SettledInv'
  <2>1. \A g \in StreamFiles \ (v4' \cup v9' \cup {v5'}), t \in S!Types :
           S!Treated(t)' => S!Settled(g, t)'
    BY <1>1, <1>2, <1>7, NoFileIsNone DEF S!Inv, S!SettledInv
  <2>2. \A t : S!Now(f, t) = S!Was(f, t)
    BY <1>2 DEF S!Now, S!Was
  <2> QED BY <1>1, <1>2, <1>5, <1>7, <2>1, <2>2 DEF S!SettledInv
<1>9. S!CallInv' /\ S!FlagInv'
  BY <1>1, <1>2 DEF S!Inv, S!CallInv, S!FlagInv, S!Treated, S!Was
<1> QED BY <1>4, <1>6, <1>8, <1>9 DEF S!Inv
\* What stays the same as long as the file and its types do.
LEMMA SameStreams ==
    ASSUME UNCHANGED <<v1, v2>>
    PROVE  \A f, t : /\ S!Was(f, t)' = S!Was(f, t) /\ S!Treated(t)' = S!Treated(t)
                     /\ v3'[f] = v3[f] => /\ S!Settled(f, t)' = S!Settled(f, t)
                                          /\ S!Now(f, t)' = S!Now(f, t)
BY DEF S!Settled, S!Now, S!Was, S!Treated

LEMMA ProbeFailsStreams == S!Inv /\ S!ProbeFails => S!Inv'
<1> SUFFICES ASSUME S!Inv, S!ProbeFails PROVE S!Inv'
  OBVIOUS
<1>1. PICK f \in v4 :
        /\ v10 = "walk" /\ v4' = v4 \ {f} /\ v9' = v9 \cup {f}
        /\ v10' \in {"raised", "walk"} /\ UNCHANGED <<v1, v2, v3, v5, v6, v7, v8>>
  BY DEF S!ProbeFails
<1>2. f \in StreamFiles /\ v8 = <<>> /\ v5 = S!NoFile
  BY <1>1 DEF S!Inv, S!TypeOK, S!PlaceInv
<1>3. S!TypeOK'
  BY <1>1, <1>2 DEF S!Inv, S!TypeOK
<1>4. S!PlaceInv'
  BY <1>1, <1>2 DEF S!Inv, S!PlaceInv, S!Treated
<1>5. S!SettledInv'
  BY <1>1, <1>2, SameStreams DEF S!Inv, S!SettledInv
<1>6. S!CallInv' /\ S!FlagInv'
  BY <1>1, <1>2 DEF S!Inv, S!CallInv, S!FlagInv, S!Treated, S!Was
<1> QED BY <1>3, <1>4, <1>5, <1>6 DEF S!Inv

\* The head of types leaves it, and no other.
LEMMA TypeTaken ==
    ASSUME S!PlaceInv, v7 # <<>>, v7' = Tail(v7), NEW t, t = Head(v7)
    PROVE  /\ t \in S!Types /\ S!Treated(t) /\ S!Left(t) /\ ~ S!Left(t)'
           /\ \A u : u # t => (S!Left(u)' <=> S!Left(u))
           /\ v7' \in {<<>>, <<"SUBTITLE">>}
           /\ \A i \in DOMAIN v7' : S!Treated(v7'[i])
<1>1. CASE v7 = <<"AUDIO">> \/ v7 = <<"SUBTITLE">>
  <2>1. v7' = <<>> /\ DOMAIN v7 = {1} /\ v7[1] = Head(v7) /\ Head(v7) \in {"AUDIO", "SUBTITLE"}
    BY <1>1, OneTuple
  <2>2. DOMAIN v7' = {}
    BY <2>1
  <2> QED BY <2>1, <2>2 DEF S!PlaceInv, S!Left, S!Types
<1>2. CASE v7 = <<"AUDIO", "SUBTITLE">>
  <2>1. v7' = <<"SUBTITLE">> /\ DOMAIN v7 = {1, 2} /\ v7[1] = "AUDIO" /\ v7[2] = "SUBTITLE"
        /\ Head(v7) = "AUDIO"
    BY <1>2, TwoTuple
  <2>2. DOMAIN v7' = {1} /\ v7'[1] = "SUBTITLE"
    BY <2>1, OneTuple
  <2>3. S!Treated("AUDIO") /\ S!Treated("SUBTITLE")
    BY <2>1 DEF S!PlaceInv
  <2>4. \A u : S!Left(u) <=> u \in {"AUDIO", "SUBTITLE"}
    BY <2>1 DEF S!Left
  <2>5. \A u : S!Left(u)' <=> u = "SUBTITLE"
    BY <2>2 DEF S!Left
  <2>6. \A i \in DOMAIN v7' : S!Treated(v7'[i])
    BY <2>2, <2>3
  <2>7. "AUDIO" \in S!Types
    BY DEF S!Types
  <2>9. t = "AUDIO"
    BY <2>1
  <2>8. S!Left(t) /\ ~ S!Left(t)'
    BY <2>4, <2>5, <2>9
  <2>10. \A u : u # t => (S!Left(u)' <=> S!Left(u))
    BY <2>4, <2>5, <2>9
  <2> QED BY <2>1, <2>3, <2>6, <2>7, <2>8, <2>9, <2>10
<1> QED BY <1>1, <1>2 DEF S!PlaceInv

LEMMA ChooseStreams == S!Inv /\ S!Choose => S!Inv'
<1> SUFFICES ASSUME S!Inv, S!Choose PROVE S!Inv'
  OBVIOUS
<1> PICK t, f : t = Head(v7) /\ f = v5
  OBVIOUS
<1> DEFINE new == S!Choice(f, t)
           off == IF S!Olds(t) = {} THEN <<>> ELSE <<[stream |-> S!First(S!Olds(t)), on |-> FALSE]>>
           skip == new = {} \/ (new \subseteq v6 /\ v1 # "audio_default_setter")
<1>1. /\ v10 = "type" /\ v7 # <<>> /\ v7' = Tail(v7) /\ v10' = "call"
      /\ v8' = IF skip THEN <<>> ELSE off \o <<[stream |-> S!First(new), on |-> TRUE]>>
      /\ UNCHANGED <<v1, v2, v3, v4, v5, v6, v9>>
  BY DEF S!Choose
<1>2. f \in StreamFiles /\ v6 = v2[f] /\ v8 = <<>> /\ S!PlaceInv
  BY <1>1 DEF S!Inv, S!PlaceInv
<1>3. /\ t \in S!Types /\ S!Treated(t) /\ S!Left(t) /\ ~ S!Left(t)'
      /\ \A u : u # t => (S!Left(u)' <=> S!Left(u))
      /\ v7' \in {<<>>, <<"SUBTITLE">>}
      /\ \A i \in DOMAIN v7' : S!Treated(v7'[i])
  BY <1>1, <1>2, TypeTaken
<1>4. S!Olds(t) = S!Was(f, t) /\ (S!Named(f) => S!Now(f, t) = S!Was(f, t))
  BY <1>1, <1>2, <1>3 DEF S!Olds, S!Was, S!Inv, S!SettledInv
<1>5. \A g, u : /\ S!Was(g, u)' = S!Was(g, u) /\ S!Treated(u)' = S!Treated(u)
                /\ S!Settled(g, u)' = S!Settled(g, u) /\ S!Now(g, u)' = S!Now(g, u)
  BY <1>1, SameStreams
<1>6. S!PlaceInv' /\ S!FlagInv'
  <2>1. S!PlaceInv'
    BY <1>1, <1>2, <1>3, <1>5 DEF S!PlaceInv
  <2>2. S!FlagInv'
    BY <1>1, <1>5 DEF S!Inv, S!FlagInv
  <2> QED BY <2>1, <2>2
<1>7. \A u \in S!Types \ {t} : v5 \notin v9 /\ S!Treated(u) /\ ~ S!Left(u)' => S!Settled(f, u)
  BY <1>1, <1>2, <1>3 DEF S!Inv, S!SettledInv
<1>8. /\ \A g \in StreamFiles \ (v4' \cup v9' \cup {v5'}), u \in S!Types : S!Treated(u)' => S!Settled(g, u)'
      /\ \A u \in S!Types : S!Left(u)' /\ S!Named(f) => S!Now(f, u)' = S!Was(f, u)'
  BY <1>1, <1>3, <1>5 DEF S!Inv, S!SettledInv
<1>9. IsFiniteSet(S!Was(f, t)) /\ S!Was(f, t) \subseteq DOMAIN Layout[f] /\ S!Was(f, t) \subseteq S!OfType(f, t)
  BY <1>2, WasFinite
<1>10. CASE skip
  <2>1. v8' = <<>>
    BY <1>1, <1>10
  <2>2. S!Settled(f, t)
    <3>1. SUFFICES ASSUME new # {}, S!Named(f) PROVE S!Settled(f, t)
      BY DEF S!Settled
    <3>2. PICK i \in DOMAIN Layout[f] : new = {i} /\ new \subseteq S!OfType(f, t)
      BY <1>2, <1>3, <3>1, AtMostOne
    <3>3. i \in S!Was(f, t)
      BY <1>2, <1>10, <3>1, <3>2 DEF S!Was
    <3>4. S!Cardinality(S!Was(f, t)) <= 1 => S!Was(f, t) = {i}
      BY <1>9, <3>3, OnlyOne
    <3>5. i \in v3[f]
      BY <1>4, <3>1, <3>3 DEF S!Now
    <3> HIDE DEF new
    <3> QED BY <1>4, <3>1, <3>2, <3>4, <3>5 DEF S!Settled, new
  <2>3. S!SettledInv'
    <3>1. \A u \in S!Types : v5 \notin v9 /\ S!Treated(u) /\ ~ S!Left(u)' => S!Settled(f, u)
      BY <1>7, <2>2
    <3> QED BY <1>1, <1>5, <1>8, <3>1 DEF S!SettledInv
  <2>4. v8' \in Seq([stream : S!Indexes, on : BOOLEAN])
    BY <2>1
  <2>5. S!TypeOK'
    BY <1>1, <1>3, <2>4, TypeLists DEF S!Inv, S!TypeOK
  <2> QED BY <1>6, <2>1, <2>3, <2>5 DEF S!Inv, S!CallInv
<1>11. CASE ~ skip
  <2>1. PICK i \in DOMAIN Layout[f] : new = {i}
    BY <1>2, <1>11, AtMostOne
  <2>2. S!First(new) = i /\ i \in S!Indexes
    BY <1>2, <2>1, FirstOne, StreamSet, IndexesOf
  <2> DEFINE on == [stream |-> i, on |-> TRUE]
             out == [stream |-> S!First(S!Was(f, t)), on |-> FALSE]
             rec == [stream : S!Indexes, on : BOOLEAN]
  <2>3. on \in rec
    BY <2>2
  <2>4. S!Was(f, t) # {} => out \in rec
    BY <1>2, <1>9, FirstIn, StreamSet, IndexesOf
  <2>5. v8' = off \o <<on>>
    BY <1>1, <1>11, <2>2
  <2>6. off = IF S!Was(f, t) = {} THEN <<>> ELSE <<out>>
    BY <1>4
  <2>7. ASSUME S!Was(f, t) = {}
        PROVE  S!CallsFor(t)' /\ v8' # <<>> /\ v8' \in Seq(rec)
    <3>1. v8' = <<on>> /\ v8' \in Seq(rec) /\ v8' # <<>>
      <4> HIDE DEF on, off, out, rec
      <4> QED BY <2>3, <2>5, <2>6, <2>7, OneTuple
    <3>2. S!Named(f) => S!Now(f, t)' = {}
      BY <1>4, <1>5, <2>7
    <3>3. v8' = <<on>> /\ (S!Named(f) => S!Now(f, t)' \subseteq {i})
      BY <3>1, <3>2
    <3>4. S!CallsFor(t)'
      BY <1>1, <1>2, <1>3, <1>5, <2>1, <3>3 DEF S!CallsFor, S!Choice
    <3> QED BY <3>1, <3>4
  <2>8. ASSUME S!Was(f, t) # {}
        PROVE  S!CallsFor(t)' /\ v8' # <<>> /\ v8' \in Seq(rec)
    <3>1. v8' = <<out, on>> /\ v8' \in Seq(rec) /\ v8' # <<>>
      <4> HIDE DEF on, off, out, rec
      <4>1. v8' = <<out>> \o <<on>> /\ out \in rec
        BY <2>4, <2>5, <2>6, <2>8
      <4>2. <<out>> \o <<on>> = <<out, on>> /\ <<out, on>> # <<>>
        BY TwoTuple
      <4>3. <<out, on>> \in Seq(rec)
        BY <2>3, <4>1, TwoTuple
      <4> QED BY <4>1, <4>2, <4>3
    <3>2. v8' = <<[stream |-> S!First(S!Was(f, t)'), on |-> FALSE], [stream |-> i, on |-> TRUE]>>
          /\ S!Was(f, t)' # {} /\ (S!Named(f) => S!Now(f, t)' = S!Was(f, t)')
      BY <1>4, <1>5, <2>8, <3>1
    <3>3. S!CallsFor(t)'
      BY <1>1, <1>2, <1>3, <1>5, <2>1, <3>2 DEF S!CallsFor
    <3> QED BY <3>1, <3>3
  <2>9. S!CallsFor(t)' /\ v8' # <<>> /\ v8' \in Seq(rec)
    BY <2>7, <2>8
  <2>10. S!TypeOK'
    BY <1>1, <1>3, <2>9, TypeLists DEF S!Inv, S!TypeOK
  <2>11. S!CallInv'
    BY <1>1, <1>3, <1>5, <1>7, <2>9 DEF S!CallInv
  <2>12. S!SettledInv'
    BY <1>1, <1>8, <2>9 DEF S!SettledInv
  <2> QED BY <1>6, <2>10, <2>11, <2>12 DEF S!Inv
<1> QED BY <1>10, <1>11

\* Setting or clearing the flag of a stream leaves the other types alone.
LEMMA OtherTypesKept ==
    ASSUME NEW f \in StreamFiles, NEW t, NEW i \in S!OfType(f, t), UNCHANGED <<v1, v2>>,
           v3 \in [StreamFiles -> SUBSET S!Indexes],
           \/ v3' = [v3 EXCEPT ![f] = @ \cup {i}]
           \/ v3' = [v3 EXCEPT ![f] = @ \ {i}]
    PROVE  \A u : \A g \in StreamFiles : g # f \/ u # t =>
              /\ S!Now(g, u)' = S!Now(g, u)
              /\ u \in S!Types => (S!Settled(g, u)' <=> S!Settled(g, u))
<1> SUFFICES ASSUME NEW g \in StreamFiles, NEW u, g # f \/ u # t
             PROVE  /\ S!Now(g, u)' = S!Now(g, u)
                    /\ u \in S!Types => (S!Settled(g, u)' <=> S!Settled(g, u))
  OBVIOUS
<1>1. \A j \in S!OfType(g, u) : j \in v3'[g] <=> j \in v3[g]
  <2>1. CASE g # f
    BY <2>1
  <2>2. CASE g = f
    BY <2>2, OneType
  <2> QED BY <2>1, <2>2
<1>2. S!Now(g, u)' = S!Now(g, u)
  BY <1>1 DEF S!Now
<1>3. ASSUME u \in S!Types PROVE S!Settled(g, u)' <=> S!Settled(g, u)
  <2>1. S!Choice(g, u) \subseteq S!OfType(g, u)
    BY <1>3, AtMostOne
  <2>2. S!Choice(g, u) \subseteq v3'[g] <=> S!Choice(g, u) \subseteq v3[g]
    BY <1>1, <2>1
  <2>3. S!Was(g, u)' = S!Was(g, u)
    BY DEF S!Was
  <2> QED BY <1>2, <2>2, <2>3 DEF S!Settled
<1> QED BY <1>2, <1>3

\* What the calls at hand do: the chosen stream, and what was the default.
LEMMA CallsAtHand ==
    ASSUME S!Inv, v10 = "call", v8 # <<>>
    PROVE  \E t \in S!Types, i \in DOMAIN Layout[v5] :
              /\ S!CallsFor(t) /\ v5 \in StreamFiles /\ v5 \notin v4
              /\ S!Choice(v5, t) = {i} /\ i \in S!OfType(v5, t) /\ i \in S!Indexes
              /\ v5 \notin v9 => \A u \in S!Types \ {t} :
                                    S!Treated(u) /\ ~ S!Left(u) => S!Settled(v5, u)
              /\ \/ /\ v8 = <<[stream |-> i, on |-> TRUE]>>
                    /\ S!Named(v5) /\ v5 \notin v9 /\ S!Cardinality(S!Was(v5, t)) <= 1 =>
                          S!Now(v5, t) \subseteq {i}
                 \/ /\ S!Was(v5, t) # {} /\ (S!Named(v5) => S!Now(v5, t) = S!Was(v5, t))
                    /\ v8 = <<[stream |-> S!First(S!Was(v5, t)), on |-> FALSE],
                              [stream |-> i, on |-> TRUE]>>
<1>1. v5 \in StreamFiles /\ v5 \notin v4
  BY DEF S!Inv, S!PlaceInv
<1>2. PICK t \in S!Types :
         /\ S!CallsFor(t)
         /\ v5 \notin v9 => \A u \in S!Types \ {t} :
                               S!Treated(u) /\ ~ S!Left(u) => S!Settled(v5, u)
  BY DEF S!Inv, S!CallInv
<1>3. PICK i \in DOMAIN Layout[v5] :
         /\ S!Choice(v5, t) = {i}
         /\ \/ /\ v8 = <<[stream |-> i, on |-> TRUE]>>
               /\ S!Named(v5) /\ v5 \notin v9 /\ S!Cardinality(S!Was(v5, t)) <= 1 =>
                     S!Now(v5, t) \subseteq {i}
            \/ /\ S!Was(v5, t) # {} /\ (S!Named(v5) => S!Now(v5, t) = S!Was(v5, t))
               /\ v8 = <<[stream |-> S!First(S!Was(v5, t)), on |-> FALSE],
                         [stream |-> i, on |-> TRUE]>>
  BY <1>2 DEF S!CallsFor
<1>4. i \in S!OfType(v5, t) /\ i \in S!Indexes
  BY <1>1, <1>3, AtMostOne, IndexesOf
<1> QED BY <1>1, <1>2, <1>3, <1>4

LEMMA UpdateNamed == S!Inv /\ S!Update /\ S!Named(v5) => S!Inv'
<1> SUFFICES ASSUME S!Inv, S!Update, S!Named(v5) PROVE S!Inv'
  OBVIOUS
<1> PICK f : f = v5
  OBVIOUS
<1>1. /\ v10 = "call" /\ v8 # <<>> /\ v8' = Tail(v8) /\ S!Named(f)
      /\ f \in Mkv \/ Layout[f][Head(v8).stream].id # S!NoId
      /\ UNCHANGED <<v1, v2, v4, v5, v6, v7, v9, v10>>
      /\ v3' = [v3 EXCEPT ![f] = IF Head(v8).on THEN @ \cup S!Edited(f, Head(v8).stream)
                                 ELSE @ \ S!Edited(f, Head(v8).stream)]
  BY DEF S!Update
<1>2. PICK t \in S!Types, i \in DOMAIN Layout[f] :
              /\ S!CallsFor(t) /\ f \in StreamFiles /\ f \notin v4
              /\ S!Choice(f, t) = {i} /\ i \in S!OfType(f, t) /\ i \in S!Indexes
              /\ f \notin v9 => \A u \in S!Types \ {t} :
                                    S!Treated(u) /\ ~ S!Left(u) => S!Settled(f, u)
              /\ \/ /\ v8 = <<[stream |-> i, on |-> TRUE]>>
                    /\ f \notin v9 /\ S!Cardinality(S!Was(f, t)) <= 1 =>
                          S!Now(f, t) \subseteq {i}
                 \/ /\ S!Was(f, t) # {} /\ S!Now(f, t) = S!Was(f, t)
                    /\ v8 = <<[stream |-> S!First(S!Was(f, t)), on |-> FALSE],
                              [stream |-> i, on |-> TRUE]>>
  BY <1>1, CallsAtHand
<1> DEFINE on == [stream |-> i, on |-> TRUE]
           o == S!First(S!Was(f, t))
           rec == [stream : S!Indexes, on : BOOLEAN]
<1>3. v3 \in [StreamFiles -> SUBSET S!Indexes] /\ S!PlaceInv /\ S!TypeOK
  BY DEF S!Inv, S!TypeOK
<1>4. S!Treated(t) /\ ~ S!Left(t)
  BY <1>2 DEF S!CallsFor
<1>5. \A g, u : S!Was(g, u)' = S!Was(g, u) /\ S!Treated(u)' = S!Treated(u)
  BY <1>1, SameStreams
<1>6. \A u : S!Left(u)' <=> S!Left(u)
  BY <1>1 DEF S!Left
<1>7. IsFiniteSet(S!Was(f, t)) /\ S!Was(f, t) \subseteq DOMAIN Layout[f]
      /\ S!Was(f, t) \subseteq S!OfType(f, t)
  BY <1>2, <1>3, WasFinite
\* What is left once the change of flags is known to concern the type t only.
<1>8. ASSUME NEW j \in S!OfType(f, t), j \in S!Indexes,
             \/ v3' = [v3 EXCEPT ![f] = @ \cup {j}]
             \/ v3' = [v3 EXCEPT ![f] = @ \ {j}]
      PROVE  /\ \A g \in StreamFiles \ (v4' \cup v9' \cup {v5'}), u \in S!Types :
                   S!Treated(u)' => S!Settled(g, u)'
             /\ \A u \in S!Types : S!Left(u)' => S!Now(f, u)' = S!Was(f, u)'
             /\ f \notin v9' => \A u \in S!Types \ {t} :
                                   S!Treated(u)' /\ ~ S!Left(u)' => S!Settled(f, u)'
             /\ S!PlaceInv'
             /\ v3' \in [StreamFiles -> SUBSET S!Indexes]
  <2>1. \A u : \A g \in StreamFiles : g # f \/ u # t =>
              /\ S!Now(g, u)' = S!Now(g, u)
              /\ u \in S!Types => (S!Settled(g, u)' <=> S!Settled(g, u))
    BY <1>1, <1>2, <1>3, <1>8, OtherTypesKept
  <2>2. \A g \in StreamFiles \ (v4' \cup v9' \cup {v5'}), u \in S!Types :
           S!Treated(u)' => S!Settled(g, u)'
    BY <1>1, <1>5, <2>1 DEF S!Inv, S!SettledInv
  <2>3. \A u \in S!Types : S!Left(u)' => S!Now(f, u)' = S!Was(f, u)'
    BY <1>1, <1>2, <1>4, <1>5, <1>6, <2>1 DEF S!Inv, S!SettledInv
  <2>4. f \notin v9' => \A u \in S!Types \ {t} :
                           S!Treated(u)' /\ ~ S!Left(u)' => S!Settled(f, u)'
    BY <1>1, <1>2, <1>5, <1>6, <2>1
  <2>5. v3' \in [StreamFiles -> SUBSET S!Indexes]
    BY <1>2, <1>3, <1>8
  <2>6. j \in DOMAIN Layout[f]
    BY DEF S!OfType
  <2>7. \A g \in StreamFiles : v3'[g] \subseteq DOMAIN Layout[g] /\ (g # f => v3'[g] = v3[g])
    BY <1>2, <1>3, <1>8, <2>6 DEF S!PlaceInv
  <2>8. S!PlaceInv'
    BY <1>1, <1>2, <1>3, <1>5, <2>7 DEF S!PlaceInv
  <2> QED BY <2>2, <2>3, <2>4, <2>5, <2>8
<1>9. ASSUME v8 = <<on>>, f \notin v9 /\ S!Cardinality(S!Was(f, t)) <= 1 => S!Now(f, t) \subseteq {i}
      PROVE  S!Inv'
  <2>1. Head(v8) = on /\ v8' = <<>>
    <3> HIDE DEF on
    <3> QED BY <1>1, <1>9, OneTuple
  <2>2. v3' = [v3 EXCEPT ![f] = @ \cup {i}]
    <3>2. Head(v8).on /\ Head(v8).stream = i
      BY <2>1
    <3>1. S!Edited(f, i) = {i}
      BY <1>1, <1>2, <3>2, EditedOne
    <3> QED BY <1>1, <3>1, <3>2
  <2>3. v3'[f] = v3[f] \cup {i} /\ \A g \in StreamFiles \ {f} : v3'[g] = v3[g]
    BY <1>2, <1>3, <2>2
  <2>4. f \notin v9' => S!Settled(f, t)'
    <3>1. S!Now(f, t)' = S!Now(f, t) \cup {i}
      BY <1>2, <2>3 DEF S!Now
    <3> QED BY <1>1, <1>2, <1>5, <1>9, <2>3, <3>1 DEF S!Settled
  <2>5. S!SettledInv'
    BY <1>1, <1>2, <1>8, <2>2, <2>4 DEF S!SettledInv
  <2>6. S!FlagInv'
    <3>1. S!FlagInv /\ i \in S!Choice(f, t)
      BY <1>2 DEF S!Inv
    <3>2. \A g \in StreamFiles : \A j \in v3'[g] \ v2[g] : j \in v3[g] \ v2[g] \/ (g = f /\ j = i)
      BY <2>3
    <3>3. \A g \in StreamFiles : S!Named(g) => \A j \in v3'[g] \ v2[g] :
             \E u \in S!Types : S!Treated(u) /\ j \in S!Choice(g, u)
      BY <1>2, <1>4, <3>1, <3>2 DEF S!FlagInv
    <3>4. \A g \in StreamFiles : v2[g] \ v3'[g] \subseteq v2[g] \ v3[g]
      BY <2>3
    <3> QED BY <1>1, <1>5, <3>1, <3>3, <3>4 DEF S!FlagInv
  <2>7. v8' \in Seq(rec)
    BY <2>1
  <2>8. S!TypeOK'
    BY <1>1, <1>2, <1>3, <1>8, <2>2, <2>7 DEF S!TypeOK
  <2>9. S!CallInv'
    BY <2>1 DEF S!CallInv
  <2> QED BY <1>2, <1>8, <2>2, <2>5, <2>6, <2>8, <2>9 DEF S!Inv
<1>10. ASSUME v8 = <<[stream |-> o, on |-> FALSE], on>>,
              S!Was(f, t) # {}, S!Now(f, t) = S!Was(f, t)
       PROVE  S!Inv'
  <2> DEFINE out == [stream |-> o, on |-> FALSE]
  <2>1. Head(v8) = out /\ v8' = <<on>>
    <3>1. v8 = <<out, on>>
      BY <1>10
    <3> HIDE DEF on, out
    <3> QED BY <1>1, <3>1, TwoTuple
  <2>2. o \in S!Was(f, t)
    BY <1>2, <1>7, <1>10, FirstIn, StreamSet
  <2>3. o \in DOMAIN Layout[f] /\ o \in S!OfType(f, t) /\ o \in S!Indexes
    BY <1>2, <1>7, <2>2, IndexesOf
  <2>4. v3' = [v3 EXCEPT ![f] = @ \ {o}]
    <3>2. ~ Head(v8).on /\ Head(v8).stream = o
      <4> HIDE DEF o
      <4> QED BY <2>1
    <3>1. S!Edited(f, o) = {o}
      <4> HIDE DEF o
      <4> QED BY <1>1, <1>2, <2>3, <3>2, EditedOne
    <3> QED BY <1>1, <3>1, <3>2
  <2>5. v3'[f] = v3[f] \ {o} /\ \A g \in StreamFiles \ {f} : v3'[g] = v3[g]
    <3>1. v3 \in [StreamFiles -> SUBSET S!Indexes] /\ f \in StreamFiles
      BY <1>2, <1>3
    <3> HIDE DEF o
    <3> QED BY <2>4, <3>1
  <2>6. S!Cardinality(S!Was(f, t)) <= 1 => S!Now(f, t)' \subseteq {i}
    <3>1. S!Now(f, t)' = S!Was(f, t) \ {o}
      BY <1>10, <2>5 DEF S!Now
    <3>2. S!Cardinality(S!Was(f, t)) <= 1 => S!Was(f, t) = {o}
      BY <1>7, <2>2, OnlyOne
    <3> QED BY <3>1, <3>2
  <2>7. v8' = <<[stream |-> i, on |-> TRUE]>>
    BY <2>1
  <2>8. S!CallsFor(t)'
    BY <1>1, <1>2, <1>4, <1>5, <1>6, <2>6, <2>7 DEF S!CallsFor
  <2>9. v8' # <<>> /\ v8' \in Seq(rec)
    <3>1. on \in rec
      BY <1>2
    <3> HIDE DEF on, rec
    <3> QED BY <2>1, <3>1, OneTuple
  <2>10. S!CallInv'
    <3>1. f \notin v9' => \A u \in S!Types \ {t} : S!Treated(u)' /\ ~ S!Left(u)' => S!Settled(f, u)'
      <4> HIDE DEF o
      <4> QED BY <1>8, <2>3, <2>4
    <3> QED BY <1>1, <2>8, <3>1 DEF S!CallInv
  <2>11. S!SettledInv'
    BY <1>1, <1>8, <2>3, <2>4, <2>9 DEF S!SettledInv
  <2>12. S!FlagInv'
    <3>1. t \in S!Types /\ S!Treated(t)' /\ o = S!First(S!Was(f, t)') /\ Layout[f][o].type = t
      BY <1>2, <1>4, <1>5, <2>3 DEF S!OfType
    <3>2. \A g \in StreamFiles : \A j \in v2[g] \ v3'[g] : j \in v2[g] \ v3[g] \/ (g = f /\ j = o)
      <4> HIDE DEF o
      <4> QED BY <2>5
    <3>3. \A g \in StreamFiles : v3'[g] \ v2[g] \subseteq v3[g] \ v2[g]
      <4> HIDE DEF o
      <4> QED BY <2>5
    <3>4. S!FlagInv
      BY DEF S!Inv
    <3>5. \A g \in StreamFiles : S!Named(g) => \A j \in v2[g] \ v3'[g] : LET u == Layout[g][j].type IN
             u \in S!Types /\ S!Treated(u)' /\ j = S!First(S!Was(g, u)')
      <4> HIDE DEF o
      <4> QED BY <1>5, <3>1, <3>2, <3>4 DEF S!FlagInv
    <3>6. \A g \in StreamFiles : S!Named(g) => \A j \in v3'[g] \ v2[g] :
             \E u \in S!Types : S!Treated(u)' /\ j \in S!Choice(g, u)
      BY <1>5, <3>3, <3>4 DEF S!FlagInv
    <3> QED BY <1>1, <3>5, <3>6 DEF S!FlagInv
  <2>13. S!TypeOK'
    BY <1>1, <1>3, <1>8, <2>3, <2>4, <2>9 DEF S!TypeOK
  <2> QED BY <1>8, <2>3, <2>4, <2>10, <2>11, <2>12, <2>13 DEF S!Inv
<1> QED BY <1>2, <1>9, <1>10

\* What a call leaves to be made: nothing, or the one for the chosen stream.
LEMMA CallsLeft ==
    ASSUME S!Inv, v10 = "call", v8 # <<>>, v8' = Tail(v8), NEW t, NEW i,
           S!Choice(v5, t) = {i}, i \in S!Indexes,
           \/ v8 = <<[stream |-> i, on |-> TRUE]>>
           \/ \E out : v8 = <<out, [stream |-> i, on |-> TRUE]>>
    PROVE  /\ v8' = <<>> \/ v8' = <<[stream |-> i, on |-> TRUE]>>
           /\ v8' \in Seq([stream : S!Indexes, on : BOOLEAN])
<1> DEFINE on == [stream |-> i, on |-> TRUE]
           rec == [stream : S!Indexes, on : BOOLEAN]
<1>1. v8' = <<>> \/ v8' = <<on>>
  <2>1. PICK out : v8 = <<on>> \/ v8 = <<out, on>>
    OBVIOUS
  <2> HIDE DEF on
  <2>2. Tail(<<on>>) = <<>>
    BY OneTuple
  <2>3. Tail(<<out, on>>) = <<on>>
    BY TwoTuple
  <2> QED BY <2>1, <2>2, <2>3, Zenon
<1>2. v8' \in Seq(rec)
  <2>1. on \in rec
    OBVIOUS
  <2> HIDE DEF on, rec
  <2>2. <<on>> \in Seq(rec)
    BY <2>1, OneTuple
  <2>3. <<>> \in Seq(rec)
    OBVIOUS
  <2> QED BY <1>1, <2>2, <2>3
<1> QED BY <1>1, <1>2

\* A file whose tracks are not named by their numbers: what is said of the
\* flags does not concern it.
LEMMA UpdateUnnamed == S!Inv /\ S!Update /\ ~ S!Named(v5) => S!Inv'
<1> SUFFICES ASSUME S!Inv, S!Update, ~ S!Named(v5) PROVE S!Inv'
  OBVIOUS
<1> PICK f : f = v5
  OBVIOUS
<1>1. /\ v10 = "call" /\ v8 # <<>> /\ v8' = Tail(v8)
      /\ UNCHANGED <<v1, v2, v4, v5, v6, v7, v9, v10>>
      /\ v3' = [v3 EXCEPT ![f] = IF Head(v8).on THEN @ \cup S!Edited(f, Head(v8).stream)
                                 ELSE @ \ S!Edited(f, Head(v8).stream)]
  BY DEF S!Update
<1>2. PICK t \in S!Types, i \in DOMAIN Layout[f] :
         /\ S!CallsFor(t) /\ f \in StreamFiles /\ f \notin v4
         /\ S!Choice(f, t) = {i} /\ i \in S!Indexes
         /\ \/ v8 = <<[stream |-> i, on |-> TRUE]>>
            \/ /\ S!Was(f, t) # {}
               /\ v8 = <<[stream |-> S!First(S!Was(f, t)), on |-> FALSE],
                         [stream |-> i, on |-> TRUE]>>
  BY <1>1, CallsAtHand
<1>3. /\ v8' = <<>> \/ v8' = <<[stream |-> i, on |-> TRUE]>>
      /\ v8' \in Seq([stream : S!Indexes, on : BOOLEAN])
  BY <1>1, <1>2, CallsLeft
<1>4. v3 \in [StreamFiles -> SUBSET S!Indexes] /\ S!PlaceInv /\ S!TypeOK
  BY DEF S!Inv, S!TypeOK
<1>5. /\ v3' \in [StreamFiles -> SUBSET S!Indexes]
      /\ \A g \in StreamFiles : v3'[g] \subseteq DOMAIN Layout[g] /\ (g # f => v3'[g] = v3[g])
  <2>1. S!Edited(f, Head(v8).stream) \subseteq DOMAIN Layout[f]
    BY <1>2, EditedSome
  <2>2. v3[f] \subseteq DOMAIN Layout[f] /\ DOMAIN Layout[f] \subseteq S!Indexes
    BY <1>2, <1>4, IndexesOf DEF S!PlaceInv
  <2> QED BY <1>1, <1>2, <1>4, <2>1, <2>2 DEF S!PlaceInv
<1>6. \A g, u : /\ S!Was(g, u)' = S!Was(g, u) /\ S!Treated(u)' = S!Treated(u)
                /\ g \in StreamFiles /\ g # f => S!Settled(g, u)' = S!Settled(g, u)
  BY <1>1, <1>5, SameStreams
<1>7. \A u : (S!Left(u)' <=> S!Left(u)) /\ S!Settled(f, u)'
  BY <1>1 DEF S!Left, S!Settled
<1>8. S!TypeOK' /\ S!PlaceInv'
  BY <1>1, <1>3, <1>4, <1>5, <1>6, <1>2 DEF S!TypeOK, S!PlaceInv
<1>9. S!CallInv'
  <2>1. S!Treated(t) /\ ~ S!Left(t)
    BY <1>2 DEF S!CallsFor
  <2>2. ASSUME v8' # <<>> PROVE S!CallsFor(t)'
    BY <1>1, <1>2, <1>3, <1>6, <1>7, <2>1, <2>2 DEF S!CallsFor
  <2> QED BY <1>1, <1>2, <1>7, <2>2 DEF S!CallInv
<1>10. S!SettledInv'
  BY <1>1, <1>6, <1>7 DEF S!Inv, S!SettledInv
<1>11. S!FlagInv'
  BY <1>1, <1>5, <1>6 DEF S!Inv, S!FlagInv
<1> QED BY <1>8, <1>9, <1>10, <1>11 DEF S!Inv

LEMMA UpdateStreams == S!Inv /\ S!Update => S!Inv'
BY UpdateNamed, UpdateUnnamed

LEMMA UpdateFailsStreams == S!Inv /\ S!UpdateFails => S!Inv'
<1> SUFFICES ASSUME S!Inv, S!UpdateFails PROVE S!Inv'
  OBVIOUS
<1> PICK f : f = v5
  OBVIOUS
<1>1. /\ v10 = "call" /\ v8 # <<>> /\ v8' = Tail(v8) /\ v9' = v9 \cup {f}
      /\ UNCHANGED <<v1, v2, v3, v4, v5, v6, v7, v10>>
  BY DEF S!UpdateFails
<1>2. PICK t \in S!Types, i \in DOMAIN Layout[f] :
              /\ S!CallsFor(t) /\ f \in StreamFiles /\ f \notin v4
              /\ S!Choice(f, t) = {i} /\ i \in S!Indexes
              /\ \/ v8 = <<[stream |-> i, on |-> TRUE]>>
                 \/ /\ S!Was(f, t) # {}
                    /\ v8 = <<[stream |-> S!First(S!Was(f, t)), on |-> FALSE],
                              [stream |-> i, on |-> TRUE]>>
  BY <1>1, CallsAtHand
<1> DEFINE on == [stream |-> i, on |-> TRUE]
           rec == [stream : S!Indexes, on : BOOLEAN]
<1>3. S!Treated(t) /\ ~ S!Left(t)
  BY <1>2 DEF S!CallsFor
<1>4. \A g, u : /\ S!Was(g, u)' = S!Was(g, u) /\ S!Treated(u)' = S!Treated(u)
                /\ S!Settled(g, u)' = S!Settled(g, u) /\ S!Now(g, u)' = S!Now(g, u)
  BY <1>1, SameStreams
<1>5. \A u : S!Left(u)' = S!Left(u)
  BY <1>1 DEF S!Left
<1>6. (v8' = <<>> \/ v8' = <<on>>) /\ v8' \in Seq(rec)
  BY <1>1, <1>2, CallsLeft
<1>7. v8' \in Seq(rec)
  BY <1>6
<1>8. S!TypeOK'
  BY <1>1, <1>2, <1>7 DEF S!Inv, S!TypeOK
<1>9. S!PlaceInv'
  BY <1>1, <1>4 DEF S!Inv, S!PlaceInv
<1>10. S!CallInv'
  <2>1. ASSUME v8' = <<on>> PROVE S!CallsFor(t)'
    BY <1>1, <1>2, <1>3, <1>4, <1>5, <2>1 DEF S!CallsFor
  <2> QED BY <1>1, <1>6, <2>1 DEF S!CallInv
<1>11. S!SettledInv'
  BY <1>1, <1>4, <1>5 DEF S!Inv, S!SettledInv
<1>12. S!FlagInv'
  BY <1>1, <1>4 DEF S!Inv, S!FlagInv
<1> QED BY <1>8, <1>9, <1>10, <1>11, <1>12 DEF S!Inv

\* The steps that leave the flags and the file's types alone.
LEMMA OtherStreamSteps ==
    S!Inv /\ (S!ChooseRaises \/ S!CallsDone \/ S!WalkDone \/ UNCHANGED S!vars) => S!Inv'
<1> SUFFICES ASSUME S!Inv, S!ChooseRaises \/ S!CallsDone \/ S!WalkDone \/ UNCHANGED S!vars
             PROVE  S!Inv'
  OBVIOUS
<1>1. /\ UNCHANGED <<v1, v2, v3, v4, v6, v7, v8, v9>>
      /\ \/ v10 = "type" /\ v10' = "raised" /\ v5' = v5
         \/ v10 = "call" /\ v8 = <<>> /\ v7 = <<>> /\ v10' = "walk" /\ v5' = S!NoFile
         \/ v10 = "call" /\ v8 = <<>> /\ v7 # <<>> /\ v10' = "type" /\ v5' = v5
         \/ v10 = "walk" /\ v10' = "ended" /\ v5' = v5
         \/ v10' = v10 /\ v5' = v5
  BY DEF S!ChooseRaises, S!CallsDone, S!WalkDone, S!vars
<1>2. \A g, u : /\ S!Was(g, u)' = S!Was(g, u) /\ S!Treated(u)' = S!Treated(u)
                /\ S!Settled(g, u)' = S!Settled(g, u) /\ S!Now(g, u)' = S!Now(g, u)
  BY <1>1, SameStreams
<1>3. \A u : S!Left(u)' = S!Left(u)
  BY <1>1 DEF S!Left
<1>4. S!TypeOK /\ S!PlaceInv /\ S!CallInv /\ S!SettledInv /\ S!FlagInv
  BY DEF S!Inv
<1>5. S!TypeOK'
  BY <1>1, <1>4 DEF S!TypeOK
<1>6. S!PlaceInv'
  BY <1>1, <1>2, <1>4, NoFileIsNone DEF S!PlaceInv, S!TypeOK
<1>7. S!FlagInv'
  BY <1>1, <1>2, <1>4 DEF S!FlagInv
<1>8. S!CallInv'
  <2>1. ASSUME v8 # <<>> PROVE v5' = v5
    BY <1>1, <1>4, <2>1
  <2>2. ASSUME NEW u, S!CallsFor(u), v8 # <<>> PROVE S!CallsFor(u)'
    BY <1>1, <1>2, <1>3, <2>1, <2>2 DEF S!CallsFor
  <2> QED BY <1>1, <1>2, <1>3, <1>4, <2>1, <2>2 DEF S!CallInv
<1>9. S!SettledInv'
  <2>1. CASE v5' = v5
    BY <1>1, <1>2, <1>3, <1>4, <2>1 DEF S!SettledInv, S!PlaceInv
  <2>2. CASE v10 = "call" /\ v8 = <<>> /\ v7 = <<>> /\ v10' = "walk" /\ v5' = S!NoFile
    <3>1. \A u : ~ S!Left(u)
      BY <2>2 DEF S!Left
    <3>2. \A g \in StreamFiles \ (v4 \cup v9), u \in S!Types : S!Treated(u) => S!Settled(g, u)
      BY <1>4, <2>2, <3>1 DEF S!SettledInv
    <3> QED BY <1>1, <1>2, <2>2, <3>2 DEF S!SettledInv
  <2> QED BY <1>1, <2>1, <2>2
<1> QED BY <1>5, <1>6, <1>7, <1>8, <1>9 DEF S!Inv

LEMMA StreamsStep == S!Inv /\ [S!Next]_(S!vars) => S!Inv'
BY ProbeFileStreams, ProbeFailsStreams, ChooseStreams, UpdateStreams, UpdateFailsStreams,
   OtherStreamSteps DEF S!Next

LEMMA DefaultStreamsHolds == Spec => [](program = "default_streams" => S!Inv)
<1>1. Init => (program = "default_streams" => S!Inv)
  BY StreamsInit DEF Init
<1>2. (program = "default_streams" => S!Inv) /\ [Next]_vars
         => (program = "default_streams" => S!Inv)'
  <2> SUFFICES ASSUME program = "default_streams" => S!Inv, [Next]_vars,
                      program' = "default_streams"
               PROVE  S!Inv'
    OBVIOUS
  <2>1. program = "default_streams" /\ S!Inv
    BY ProgramStep
  <2>2. S!Next \/ UNCHANGED S!vars
    BY <2>1, ProgramStep DEF S!vars
  <2> QED BY <2>1, <2>2, StreamsStep
<1> QED BY <1>1, <1>2, PTL DEF Spec

\* ChosenIsDefault: a file that a setter is through with, and for which no call
\* failed, has the chosen stream as its default, and as its only one if there
\* was at most one before: get_subtitle_to_set, update_default_stream.  It is a
\* file for mkvtools or has no track with a number above nine.
THEOREM ChosenIsDefaultSound == Spec => []ChosenIsDefault
<1>1. (program = "default_streams" => S!Inv) => ChosenIsDefault
  <2> SUFFICES ASSUME S!Inv PROVE S!ChosenIsDefault
    BY DEF ChosenIsDefault
  <2>1. \A t : \A f \in StreamFiles : /\ S!Was(f, t) = v2[f] \cap S!OfType(f, t)
                                      /\ S!Now(f, t) = v3[f] \cap S!OfType(f, t)
    BY DEF S!Was, S!Now
  <2> QED BY <2>1 DEF S!ChosenIsDefault, S!Inv, S!SettledInv, S!Settled
<1> QED BY <1>1, DefaultStreamsHolds, PTL

\* OthersKept: whatever fails, no stream of a type that is not treated changes,
\* only a chosen stream gets the flag and at most one other of a type loses it,
\* in a file for mkvtools or without a track with a number above nine.
THEOREM OthersKeptSound == Spec => []OthersKept
<1>1. (program = "default_streams" => S!Inv) => OthersKept
  <2> SUFFICES ASSUME S!Inv PROVE S!OthersKept
    BY DEF OthersKept
  <2>1. S!FlagInv
    BY DEF S!Inv
  <2>2. ASSUME NEW f \in StreamFiles, NEW t \in S!Types, S!Named(f)
        PROVE  S!Cardinality((v2[f] \ v3[f]) \cap S!OfType(f, t)) <= 1
    <3> DEFINE lost == (v2[f] \ v3[f]) \cap S!OfType(f, t)
               o == S!First(S!Was(f, t))
    <3>1. lost \subseteq {o}
      BY <2>1, <2>2 DEF S!FlagInv, S!OfType
    <3>2. IsFiniteSet({o}) /\ Cardinality({o}) = 1
      BY FS_Singleton
    <3> HIDE DEF lost
    <3>3. Cardinality(lost) <= 1
      BY <3>1, <3>2, FS_Subset
    <3> QED BY <3>3, SameCardinality DEF lost
  <2> QED BY <2>1, <2>2 DEF S!OthersKept, S!FlagInv
<1> QED BY <1>1, DefaultStreamsHolds, PTL

-----------------------------------------------------------------------------
(* DuplicateSearch: v1 is mode, v2 pc, v3 disk, v4 groups, v5 idx, v6 list, *)
(* v7 printed, v8 chosen, v9 choice, v10 named, v11 clusters.              *)

LEMMA SameCounts ==
    /\ \A X : I!Cardinality(X) = Cardinality(X) /\ (I!IsFiniteSet(X) <=> IsFiniteSet(X))
    /\ \A s, x : x \in I!Range(s) <=> \E i \in DOMAIN s : s[i] = x
BY DEF I!Cardinality, Cardinality, I!IsFiniteSet, IsFiniteSet, I!Range

\* RemoveFirst takes one entry off, and no entry is new.
LEMMA EntryGone ==
    ASSUME NEW s \in Seq(IndexPaths), NEW n \in DOMAIN s, NEW t, t = I!RemoveFirst(s, s[n])
    PROVE  /\ t \in Seq(IndexPaths) /\ Len(t) = Len(s) - 1
           /\ I!Range(t) \subseteq I!Range(s)
           /\ I!Once(s) => I!Once(t) /\ s[n] \notin I!Range(t)
<1> DEFINE is == {i \in 1 .. Len(s) : s[i] = s[n]}
<1>1. n \in is /\ DOMAIN s = 1 .. Len(s) /\ Len(s) \in Nat /\ is \subseteq Nat
  OBVIOUS
<1>2. PICK m \in is : m = I!Min(is)
  <2>1. \E i \in is : \A j \in is : i <= j
    BY <1>1, Least
  <2> QED BY <2>1 DEF I!Min
<1>3. t = SubSeq(s, 1, m - 1) \o SubSeq(s, m + 1, Len(s))
  <2>1. I!SelectInSeq(s, LAMBDA v : v = s[n]) = m
    BY <1>1, <1>2 DEF I!SelectInSeq
  <2> QED BY <1>1, <2>1 DEF I!RemoveFirst, I!RemoveAt
<1> DEFINE a == SubSeq(s, 1, m - 1)
           b == SubSeq(s, m + 1, Len(s))
<1>4. m \in 1 .. Len(s) /\ s[m] = s[n]
  BY <1>2
<1>5. /\ a \in Seq(IndexPaths) /\ Len(a) = m - 1 /\ \A i \in 1 .. m - 1 : a[i] = s[i]
      /\ b \in Seq(IndexPaths) /\ Len(b) = Len(s) - m /\ \A i \in 1 .. Len(s) - m : b[i] = s[m + i]
  BY <1>4
<1> HIDE DEF a, b, is
<1>6. /\ t \in Seq(IndexPaths) /\ Len(t) = Len(s) - 1 /\ DOMAIN t = 1 .. Len(s) - 1
      /\ \A i \in DOMAIN t : t[i] = IF i < m THEN s[i] ELSE s[i + 1]
  <2>1. t = a \o b
    BY <1>3 DEF a, b
  <2>2. /\ a \o b \in Seq(IndexPaths) /\ Len(a \o b) = Len(s) - 1
        /\ \A i \in 1 .. Len(s) - 1 : (a \o b)[i] = IF i <= m - 1 THEN a[i] ELSE b[i - (m - 1)]
    <3>1. Len(a) + Len(b) = Len(s) - 1
      BY <1>1, <1>4, <1>5
    <3> QED BY <1>5, <3>1, ConcatProperties
  <2>3. \A i \in 1 .. Len(s) - 1 : (a \o b)[i] = IF i < m THEN s[i] ELSE s[i + 1]
    <3>1. SUFFICES ASSUME NEW i \in 1 .. Len(s) - 1
                   PROVE  (a \o b)[i] = IF i < m THEN s[i] ELSE s[i + 1]
      OBVIOUS
    <3>2. CASE i < m
      BY <1>1, <1>4, <1>5, <2>2, <3>1, <3>2
    <3>3. CASE ~ (i < m)
      <4>1. i - (m - 1) \in 1 .. Len(s) - m /\ m + (i - (m - 1)) = i + 1 /\ ~ (i <= m - 1)
        BY <1>1, <1>4, <3>1, <3>3
      <4> QED BY <1>5, <2>2, <3>3, <4>1
    <3> QED BY <3>2, <3>3
  <2>4. DOMAIN t = 1 .. Len(s) - 1
    BY <2>1, <2>2
  <2> QED BY <2>1, <2>2, <2>3, <2>4
<1> DEFINE was(i) == IF i < m THEN i ELSE i + 1
<1>7. \A i \in DOMAIN t : was(i) \in DOMAIN s /\ was(i) # m /\ t[i] = s[was(i)]
  <2>1. SUFFICES ASSUME NEW i \in DOMAIN t
                 PROVE  was(i) \in DOMAIN s /\ was(i) # m /\ t[i] = s[was(i)]
    OBVIOUS
  <2>2. DOMAIN t = 1 .. Len(s) - 1
    BY <1>6
  <2>3. i \in Nat /\ 1 <= i /\ i <= Len(s) - 1 /\ m \in Nat /\ Len(s) \in Nat /\ DOMAIN s = 1 .. Len(s)
    BY <1>1, <1>4, <2>1, <2>2
  <2>4. t[i] = IF i < m THEN s[i] ELSE s[i + 1]
    BY <1>6
  <2>5. CASE i < m
    <3>1. was(i) = i
      BY <2>5
    <3>2. t[i] = s[i] /\ i \in DOMAIN s /\ i # m
      BY <2>3, <2>4, <2>5
    <3> QED BY <3>1, <3>2, Zenon
  <2>6. CASE ~ (i < m)
    <3>1. was(i) = i + 1
      BY <2>6
    <3>2. t[i] = s[i + 1] /\ i + 1 \in DOMAIN s /\ i + 1 # m
      BY <2>3, <2>4, <2>6
    <3> QED BY <3>1, <3>2, Zenon
  <2> QED BY <2>5, <2>6
<1>8. \A i, j \in DOMAIN t : was(i) = was(j) => i = j
  <2>1. SUFFICES ASSUME NEW i \in 1 .. Len(s) - 1, NEW j \in 1 .. Len(s) - 1, was(i) = was(j)
                 PROVE  i = j
    BY <1>6
  <2> QED BY <1>1, <1>4, <2>1
<1> HIDE DEF was
<1>9. I!Range(t) \subseteq I!Range(s)
  BY <1>7, SameCounts
<1>10. ASSUME I!Once(s) PROVE I!Once(t) /\ s[n] \notin I!Range(t)
  <2>1. \A i \in DOMAIN t : s[n] # t[i]
    BY <1>1, <1>4, <1>7, <1>10 DEF I!Once
  <2>2. \A i, j \in DOMAIN t : t[i] = t[j] => i = j
    BY <1>7, <1>8, <1>10 DEF I!Once
  <2> QED BY <2>1, <2>2, SameCounts DEF I!Once
<1> QED BY <1>6, <1>9, <1>10

\* Without an entry twice, as many entries as files; and the other way round.
LEMMA OnceCounted ==
    ASSUME NEW s \in Seq(IndexPaths), I!Cardinality(I!Range(s)) = Len(s)
    PROVE  I!Once(s)
<1>1. DOMAIN s = 1 .. Len(s) /\ Len(s) \in Nat /\ s = [i \in DOMAIN s |-> s[i]]
  OBVIOUS
<1> DEFINE X == 1 .. Len(s)
           Y == I!Range(s)
<1>2. s \in Surjection(X, Y)
  <2>1. \A i \in X : s[i] \in Y
    BY <1>1, SameCounts
  <2>2. \A y \in Y : \E i \in X : s[i] = y
    BY <1>1, SameCounts
  <2>3. s \in [X -> Y]
    <3> HIDE DEF Y
    <3> QED BY <1>1, <2>1
  <2> QED BY <2>2, <2>3 DEF Surjection
<1>3. IsFiniteSet(X) /\ Cardinality(X) = Len(s)
  <2>1. 1 \in Int /\ Len(s) \in Int /\ Len(s) >= 0
    BY <1>1
  <2>2. IsFiniteSet(1 .. Len(s)) /\ Cardinality(1 .. Len(s)) = IF 1 > Len(s) THEN 0 ELSE Len(s) - 1 + 1
    BY <2>1, FS_Interval
  <2> QED BY <2>1, <2>2
<1>4. Cardinality(Y) = Cardinality(X)
  BY <1>3, SameCounts
<1>5. s \in Injection(X, Y)
  <2> HIDE DEF X, Y
  <2> QED BY <1>2, <1>3, <1>4, FS_SurjSameCardinalityImpliesInj
<1> QED BY <1>1, <1>5 DEF I!Once, Injection, IsInjective

LEMMA SearchInit == I!Init => I!Inv
<1> SUFFICES ASSUME I!Init PROVE I!Inv
  OBVIOUS
<1>1. \A g \in Groups : g \in Seq(IndexPaths) /\ I!Range(g) \subseteq IndexPaths
  BY ToolsAssumption, SameCounts DEF I!IndexConstants
<1>2. I!GroupInv
  BY <1>1, FS_EmptySet, SameCounts DEF I!Init, I!GroupInv
<1>3. I!ShownInv
  BY ToolsAssumption DEF I!Init, I!ShownInv, I!IndexConstants
<1> QED BY <1>2, <1>3 DEF I!Inv

LEMMA CheckDirsStep ==
    I!Inv /\ (I!NextGroup \/ I!Ask \/ I!Delete \/ I!EndLine \/ I!SkipOrQuit) => I!Inv'
<1> SUFFICES ASSUME I!Inv, I!NextGroup \/ I!Ask \/ I!Delete \/ I!EndLine \/ I!SkipOrQuit
             PROVE  I!Inv'
  OBVIOUS
<1>1. v1 = "check-dirs" /\ v1' = v1
  BY DEF I!NextGroup, I!Ask, I!Delete, I!EndLine, I!SkipOrQuit
<1>2. I!ShownInv'
  BY <1>1 DEF I!ShownInv
<1>3. IsFiniteSet(v10) /\ v4 \subseteq Groups /\ \A g \in v4 : I!Range(g) \subseteq v3
  BY <1>1, SameCounts DEF I!Inv, I!GroupInv
<1>4. v2 \in {"ask", "line"} =>
         /\ v7 \in Groups \ v4
         /\ v6 \in Seq(IndexPaths) /\ I!Range(v6) \subseteq I!Range(v7)
         /\ I!Once(v7) => I!Once(v6) /\ I!Range(v6) \subseteq v3
  BY <1>1, SameCounts DEF I!Inv, I!GroupInv
<1>5. v2 = "line" /\ I!Once(v7) =>
         /\ Cardinality(v10) + Len(v6) >= 2
         /\ \A d \in v10 : d[2] \notin I!Range(v6)
  BY <1>1, SameCounts DEF I!Inv, I!GroupInv
<1>6. CASE I!NextGroup
  <2>1. PICK g \in v4 : /\ v4' = v4 \ {g} /\ v6' = g /\ v7' = g /\ v2' = "ask"
                        /\ v3' = v3 /\ v10' = v10
    BY <1>6 DEF I!NextGroup
  <2>2. g \in Seq(IndexPaths) /\ g \in Groups
    BY <1>3, <2>1, ToolsAssumption DEF I!IndexConstants
  <2>3. I!IsFiniteSet(v10')
    BY <1>3, <2>1, SameCounts
  <2> QED BY <1>1, <1>2, <1>3, <2>1, <2>2, <2>3 DEF I!Inv, I!GroupInv
<1>7. CASE I!Ask
  <2>1. /\ v2 = "ask" /\ v2' \in {"line", "next"} /\ (v2' = "line" => Len(v6) > 1)
        /\ v10' = {} /\ v3' = v3 /\ v4' = v4 /\ v6' = v6 /\ v7' = v7
    BY <1>7 DEF I!Ask
  <2>2. I!IsFiniteSet({}) /\ I!Cardinality({}) = 0
    BY FS_EmptySet, SameCounts
  <2>3. Len(v6) \in Nat
    BY <1>4, <2>1
  <2>4. I!GroupInv'
    BY <1>1, <1>3, <1>4, <2>1, <2>2, <2>3 DEF I!GroupInv
  <2> QED BY <1>2, <2>4 DEF I!Inv
<1>8. CASE I!Delete
  <2>1. PICK n \in DOMAIN v6 :
          /\ v2 = "line" /\ v2' = "line" /\ v3' \in {v3, v3 \ {v6[n]}}
          /\ v6' = I!RemoveFirst(v6, v6[n]) /\ v10' = v10 \cup {<<n, v6[n]>>}
          /\ v4' = v4 /\ v7' = v7
    BY <1>8 DEF I!Delete, I!Recycle
  <2>2. /\ v6' \in Seq(IndexPaths) /\ Len(v6') = Len(v6) - 1
        /\ I!Range(v6') \subseteq I!Range(v6)
        /\ I!Once(v6) => I!Once(v6') /\ v6[n] \notin I!Range(v6')
    BY <1>4, <2>1, EntryGone
  <2>3. v6[n] \in I!Range(v6)
    BY SameCounts
  <2>4. \A g \in v4 : I!Range(g) \subseteq v3'
    BY <1>3, <1>4, <2>1, <2>3, ToolsAssumption DEF I!IndexConstants
  <2>5. IsFiniteSet(v10') /\ Cardinality(v10') \in Nat
        /\ Cardinality(v10') = IF <<n, v6[n]>> \in v10 THEN Cardinality(v10) ELSE Cardinality(v10) + 1
    BY <1>3, <2>1, FS_AddElement, FS_CardinalityType
  <2>6. ASSUME I!Once(v7)
        PROVE  /\ I!Once(v6') /\ I!Range(v6') \subseteq v3'
               /\ Cardinality(v10') + Len(v6') >= 2
               /\ \A d \in v10' : d[2] \notin I!Range(v6')
    <3>1. <<n, v6[n]>> \notin v10
      BY <1>5, <2>1, <2>3, <2>6
    <3>2. Cardinality(v10) \in Nat /\ Len(v6) \in Nat
      BY <1>3, <1>4, <2>1, FS_CardinalityType
    <3>3. \A d \in v10' : d[2] \notin I!Range(v6')
      BY <1>4, <1>5, <2>1, <2>2, <2>6
    <3>4. I!Range(v6') \subseteq v3'
      BY <1>4, <2>1, <2>2, <2>6
    <3> QED BY <1>4, <1>5, <2>1, <2>2, <2>5, <2>6, <3>1, <3>2, <3>3, <3>4
  <2>7. I!GroupInv'
    BY <1>1, <1>3, <1>4, <2>1, <2>2, <2>4, <2>5, <2>6, SameCounts DEF I!GroupInv
  <2> QED BY <1>2, <2>7 DEF I!Inv
<1>9. CASE I!EndLine \/ I!SkipOrQuit
  <2>1. v2 = "line" /\ v2' \in {"ask", "next", "ended"} /\ UNCHANGED <<v3, v4, v6, v7, v10>>
    BY <1>9 DEF I!EndLine, I!SkipOrQuit
  <2> QED BY <1>1, <1>2, <1>3, <1>4, <2>1, SameCounts DEF I!Inv, I!GroupInv
<1> QED BY <1>6, <1>7, <1>8, <1>9

\* A file that is there is among those of its cluster that are shown.
LEMMA ClusterShown ==
    ASSUME I!NextCluster, v5 \in DOMAIN Dtos,
           NEW j \in DOMAIN Dtos, v5 < j, Dtos[v5].duration - Dtos[j].duration <= Radius,
           {Dtos[v5].path, Dtos[j].path} \subseteq v3
    PROVE  \E c \in v11' : {Dtos[v5].path, Dtos[j].path} \subseteq c
<1> DEFINE found == {k \in I!Cluster(v5) : Dtos[k].path \in v3}
<1>1. DOMAIN Dtos = 1 .. Len(Dtos) /\ Len(Dtos) \in Nat /\ Radius \in Nat
      /\ \A i \in DOMAIN Dtos : Dtos[i].duration \in Int
  BY ToolsAssumption DEF I!IndexConstants
<1>2. {v5, j} \subseteq found /\ found \subseteq 1 .. Len(Dtos)
  BY <1>1 DEF I!Cluster
<1>3. Cardinality({v5} \cup {j}) = 2 /\ {v5} \cup {j} \subseteq found
  <2>1. IsFiniteSet({v5}) /\ Cardinality({v5}) = 1
    BY FS_Singleton
  <2>2. j \notin {v5}
    BY <1>1
  <2>3. Cardinality({v5} \cup {j}) = Cardinality({v5}) + 1
    BY <2>1, <2>2, FS_AddElement
  <2>4. {v5} \cup {j} \subseteq found
    BY <1>2
  <2> QED BY <2>1, <2>3, <2>4
<1>4. IsFiniteSet(found) /\ 2 <= Cardinality(found) /\ Cardinality(found) \in Nat
  <2>1. IsFiniteSet(1 .. Len(Dtos))
    <3>1. 1 \in Int /\ Len(Dtos) \in Int
      BY <1>1
    <3> QED BY <3>1, FS_Interval
  <2> HIDE DEF found
  <2>2. IsFiniteSet(found)
    BY <1>2, <2>1, FS_Subset
  <2> QED BY <1>2, <1>3, <2>2, FS_Subset, FS_CardinalityType
<1>5. I!Cardinality(found) > 1
  BY <1>4, SameCounts
<1>6. v11' = v11 \cup {{Dtos[k].path : k \in found}}
  BY <1>5 DEF I!NextCluster
<1>7. {Dtos[v5].path, Dtos[j].path} \subseteq {Dtos[k].path : k \in found}
  BY <1>2
<1> QED BY <1>6, <1>7

LEMMA FullDurationStep ==
    /\ I!Inv
    /\ I!NextCluster \/ I!ChooseFile \/ I!DeleteChosen \/ I!ChooseMenu \/ I!EndMenuLine
    => I!Inv'
<1> SUFFICES ASSUME I!Inv,
                    I!NextCluster \/ I!ChooseFile \/ I!DeleteChosen \/ I!ChooseMenu \/ I!EndMenuLine
             PROVE  I!Inv'
  OBVIOUS
<1>1. v1 = "full-duration" /\ v1' = v1
  BY DEF I!NextCluster, I!ChooseFile, I!DeleteChosen, I!ChooseMenu, I!EndMenuLine
<1>2. I!GroupInv'
  BY <1>1 DEF I!GroupInv
<1>3. I!ShownInv
  BY DEF I!Inv
<1>4. CASE I!NextCluster
  <2>1. v2 = "next" /\ v5 <= Len(Dtos) /\ v5' = v5 + 1 /\ v3' = v3 /\ v2' \in {"next", "line"}
        /\ v11 \subseteq v11'
    BY <1>4 DEF I!NextCluster
  <2>2. DOMAIN Dtos = 1 .. Len(Dtos) /\ Len(Dtos) \in Nat /\ v5 \in DOMAIN Dtos
    BY <1>1, <1>3, <2>1, ToolsAssumption DEF I!ShownInv, I!IndexConstants
  <2>3. ASSUME NEW i \in DOMAIN Dtos, NEW j \in DOMAIN Dtos, i < v5', i < j,
               Dtos[i].duration - Dtos[j].duration <= Radius,
               {Dtos[i].path, Dtos[j].path} \subseteq v3'
        PROVE  \E c \in v11' : {Dtos[i].path, Dtos[j].path} \subseteq c
    <3>1. CASE i < v5
      BY <1>1, <1>3, <2>1, <2>3, <3>1 DEF I!ShownInv
    <3>2. CASE i = v5
      BY <1>4, <2>1, <2>2, <2>3, <3>2, ClusterShown
    <3> QED BY <2>1, <2>2, <2>3, <3>1, <3>2
  <2> QED BY <1>2, <2>1, <2>2, <2>3 DEF I!Inv, I!ShownInv
<1>5. CASE I!ChooseFile \/ I!DeleteChosen \/ I!ChooseMenu \/ I!EndMenuLine
  <2>1. /\ v2 = "line" /\ v5' = v5 /\ v11' = v11 /\ v3' \subseteq v3
        /\ v2' = "ended" => v9' = "q"
    BY <1>5 DEF I!ChooseFile, I!DeleteChosen, I!Recycle, I!ChooseMenu, I!EndMenuLine
  <2> QED BY <1>1, <1>2, <1>3, <2>1 DEF I!Inv, I!ShownInv
<1> QED BY <1>4, <1>5

LEMMA SearchStep == I!Inv /\ [I!Next]_(I!vars) => I!Inv'
<1> SUFFICES ASSUME I!Inv, [I!Next]_(I!vars) PROVE I!Inv'
  OBVIOUS
<1>1. CASE I!AllDone
  BY <1>1 DEF I!AllDone, I!Inv, I!GroupInv, I!ShownInv
<1>2. CASE UNCHANGED I!vars
  BY <1>2 DEF I!vars, I!Inv, I!GroupInv, I!ShownInv
<1> QED BY <1>1, <1>2, CheckDirsStep, FullDurationStep DEF I!Next

LEMMA SearchHolds == Spec => [](program = "ihb_video_tools" => I!Inv)
<1>1. Init => (program = "ihb_video_tools" => I!Inv)
  BY SearchInit DEF Init
<1>2. (program = "ihb_video_tools" => I!Inv) /\ [Next]_vars
         => (program = "ihb_video_tools" => I!Inv)'
  BY ProgramStep, SearchStep
<1> QED BY <1>1, <1>2, PTL DEF Spec

\* LastCopyStays: prompt_duplicate_action never deletes the last copy of a
\* group in answer to a line with a single delete in it.
THEOREM LastCopyStaysSound == Spec => []LastCopyStays
<1>1. (program = "ihb_video_tools" => I!Inv) => LastCopyStays
  <2> SUFFICES ASSUME I!Inv, v2 = "line", v1 = "check-dirs",
                      I!Cardinality(I!Range(v7)) = Len(v7), ~ (I!Cardinality(v10) >= 2)
               PROVE  I!Range(v7) \cap v3 # {}
    BY DEF LastCopyStays, I!LastCopyStays
  <2>1. v7 \in Seq(IndexPaths)
    BY ToolsAssumption DEF I!Inv, I!GroupInv, I!IndexConstants
  <2>2. I!Once(v7)
    BY <2>1, OnceCounted
  <2>3. /\ IsFiniteSet(v10) /\ Cardinality(v10) + Len(v6) >= 2
        /\ v6 \in Seq(IndexPaths) /\ I!Range(v6) \subseteq I!Range(v7) /\ I!Range(v6) \subseteq v3
    BY <2>2, SameCounts DEF I!Inv, I!GroupInv
  <2>4. Cardinality(v10) \in Nat /\ ~ (Cardinality(v10) >= 2) /\ Len(v6) \in Nat
    BY <2>3, SameCounts, FS_CardinalityType
  <2>5. 1 \in DOMAIN v6
    BY <2>3, <2>4
  <2> QED BY <2>3, <2>5, SameCounts
<1> QED BY <1>1, SearchHolds, PTL

\* PairsShown: unless the user quits, find_near_duplicates has shown any two
\* files that are there and whose durations differ by the radius or less.
THEOREM PairsShownSound == Spec => []PairsShown
<1>1. (program = "ihb_video_tools" => I!Inv) => PairsShown
  <2> SUFFICES ASSUME I!Inv PROVE I!PairsShown
    BY DEF PairsShown
  <2>1. DOMAIN Dtos = 1 .. Len(Dtos)
    BY ToolsAssumption DEF I!IndexConstants
  <2> QED BY <2>1 DEF I!Inv, I!ShownInv, I!PairsShown
<1> QED BY <1>1, SearchHolds, PTL

-----------------------------------------------------------------------------
(* VideoDupes: v1 is pc, v2 disk, v3 video, v4 queue, v5 failed, v6 groups, *)
(* v7 rest, v8 pairs, v9 told.                                             *)

\* A function can be defined on 0 .. m from its first value and a step; the
\* step is a function too, for want of lemmas about operators.
Iterated(f, A, a, step, m) ==
    /\ f \in [0 .. m -> A] /\ f[0] = a
    /\ \A n \in 1 .. m : f[n] = step[<<f[n - 1], n>>]

LEMMA Recursion ==
    ASSUME NEW A, NEW a, a \in A, NEW step, step \in [A \X Nat -> A], NEW m, m \in Nat
    PROVE  \E f : Iterated(f, A, a, step, m)
<1> DEFINE N == {k \in Nat : \E f : Iterated(f, A, a, step, k)}
<1>1. 0 \in N
  <2>1. Iterated([n \in 0 .. 0 |-> a], A, a, step, 0)
    BY DEF Iterated
  <2> QED BY <2>1
<1>2. ASSUME NEW k \in Nat, k \in N PROVE k + 1 \in N
  <2>1. PICK f : Iterated(f, A, a, step, k)
    BY <1>2
  <2> DEFINE e == step[<<f[k], k + 1>>]
             g == [n \in 0 .. k + 1 |-> IF n = k + 1 THEN e ELSE f[n]]
  <2>2. f[k] \in A /\ e \in A
    BY <2>1 DEF Iterated
  <2>3. g \in [0 .. k + 1 -> A] /\ g[0] = a
    <3> HIDE DEF e
    <3> QED BY <2>1, <2>2 DEF Iterated
  <2>4. ASSUME NEW n \in 1 .. k + 1 PROVE g[n] = step[<<g[n - 1], n>>]
    <3>1. CASE n = k + 1
      <4>1. g[n] = e /\ g[n - 1] = f[k]
        BY <3>1
      <4> QED BY <3>1, <4>1
    <3>2. CASE n # k + 1
      <4>1. g[n] = f[n] /\ g[n - 1] = f[n - 1] /\ n \in 1 .. k
        BY <3>2
      <4> QED BY <2>1, <4>1 DEF Iterated
    <3> QED BY <3>1, <3>2
  <2>5. Iterated(g, A, a, step, k + 1)
    <3> HIDE DEF g
    <3> QED BY <2>3, <2>4 DEF Iterated
  <2>6. k + 1 \in Nat
    OBVIOUS
  <2> QED BY <2>5, <2>6
<1>3. m \in N
  <2> HIDE DEF N
  <2> QED BY <1>1, <1>2, Induction
<1> QED BY <1>3

\* Kept, step by step.
LEMMA KeptDef ==
    ASSUME NEW A, NEW s \in Seq(A), NEW X
    PROVE  \E h \in [0 .. Len(s) -> Seq(A)] :
              /\ h[0] = <<>> /\ V!Kept(s, X) = h[Len(s)]
              /\ \A n \in 1 .. Len(s) :
                    h[n] = IF s[n] \in X THEN Append(h[n - 1], s[n]) ELSE h[n - 1]
<1> DEFINE next(u, n) == IF s[n] \in X THEN Append(u, s[n]) ELSE u
           body(h, n) == IF n = 0 THEN <<>> ELSE IF s[n] \in X THEN Append(h[n - 1], s[n]) ELSE h[n - 1]
           step == [q \in Seq(A) \X Nat |-> IF q[2] \in 1 .. Len(s) THEN next(q[1], q[2]) ELSE <<>>]
           h == CHOOSE h : h = [n \in 0 .. Len(s) |-> body(h, n)]
<1>1. Len(s) \in Nat /\ <<>> \in Seq(A) /\ \A n \in 1 .. Len(s) : s[n] \in A
  OBVIOUS
<1>2. step \in [Seq(A) \X Nat -> Seq(A)]
  <2>1. \A u \in Seq(A), n \in 1 .. Len(s) : next(u, n) \in Seq(A)
    BY <1>1
  <2> HIDE DEF next
  <2> QED BY <1>1, <2>1
<1>3. PICK f \in [0 .. Len(s) -> Seq(A)] :
         f[0] = <<>> /\ \A n \in 1 .. Len(s) : f[n] = step[<<f[n - 1], n>>]
  <2> DEFINE B == Seq(A)
             m == Len(s)
  <2>1. m \in Nat /\ <<>> \in B /\ step \in [B \X Nat -> B]
    BY <1>1, <1>2
  <2> HIDE DEF step, B, m
  <2>2. PICK f : Iterated(f, B, <<>>, step, m)
    BY <2>1, Recursion
  <2> QED BY <2>2 DEF B, m, Iterated
<1>4. \A n \in 1 .. Len(s) : f[n] = next(f[n - 1], n)
  <2> SUFFICES ASSUME NEW n \in 1 .. Len(s) PROVE f[n] = next(f[n - 1], n)
    OBVIOUS
  <2>1. f[n - 1] \in Seq(A) /\ n \in Nat
    BY <1>1
  <2>2. step[<<f[n - 1], n>>] = next(f[n - 1], n)
    <3> HIDE DEF next
    <3> QED BY <2>1
  <2> QED BY <1>3, <2>2
<1>5. f = [n \in 0 .. Len(s) |-> body(f, n)]
  <2>1. ASSUME NEW n \in 0 .. Len(s) PROVE f[n] = body(f, n)
    <3>1. CASE n = 0
      BY <1>3, <3>1
    <3>2. CASE n # 0
      <4>1. n \in 1 .. Len(s)
        BY <1>1, <3>2
      <4> QED BY <1>4, <3>2, <4>1
    <3> QED BY <3>1, <3>2
  <2> HIDE DEF body
  <2> QED BY <1>3, <2>1
<1>6. h = [n \in 0 .. Len(s) |-> body(h, n)]
  <2> HIDE DEF body
  <2> QED BY <1>5
<1>7. \A k \in 0 .. Len(s) : h[k] = f[k]
  <2> DEFINE E == {k \in Nat : k <= Len(s) => h[k] = f[k]}
  <2> HIDE DEF h
  <2>1. 0 \in E
    BY <1>1, <1>3, <1>6
  <2>2. ASSUME NEW k \in Nat, k \in E PROVE k + 1 \in E
    <3> SUFFICES ASSUME k + 1 <= Len(s) PROVE h[k + 1] = f[k + 1]
      OBVIOUS
    <3>1. h[k] = f[k] /\ k + 1 \in 1 .. Len(s) /\ k + 1 \in 0 .. Len(s)
      BY <1>1, <2>2
    <3>2. h[k + 1] = body(h, k + 1)
      <4> HIDE DEF body
      <4> QED BY <1>6, <3>1
    <3>3. f[k + 1] = next(f[(k + 1) - 1], k + 1)
      BY <1>4, <3>1
    <3> QED BY <3>1, <3>2, <3>3
  <2>3. Nat \subseteq E
    <3> HIDE DEF E
    <3> QED BY <2>1, <2>2, Induction
  <2> QED BY <1>1, <2>3
<1>8. h = f
  <2> HIDE DEF h, body
  <2> QED BY <1>3, <1>6, <1>7
<1>9. V!Kept(s, X) = h[Len(s)]
  BY DEF V!Kept
<1> HIDE DEF h
<1> QED BY <1>3, <1>4, <1>8, <1>9

\* Kept takes entries of s that are in X, in their order.
LEMMA KeptFacts ==
    ASSUME NEW A, NEW s \in Seq(A), NEW X, NEW t, t = V!Kept(s, X)
    PROVE  /\ t \in Seq(A)
           /\ \E at \in [DOMAIN t -> DOMAIN s] :
                 /\ \A i, j \in DOMAIN t : i < j => at[i] < at[j]
                 /\ \A i \in DOMAIN t : t[i] = s[at[i]] /\ t[i] \in X
<1>0. Len(s) \in Nat /\ DOMAIN s = 1 .. Len(s) /\ \A n \in 1 .. Len(s) : s[n] \in A
  OBVIOUS
<1>1. PICK h \in [0 .. Len(s) -> Seq(A)] :
         /\ h[0] = <<>> /\ t = h[Len(s)]
         /\ \A n \in 1 .. Len(s) :
               h[n] = IF s[n] \in X THEN Append(h[n - 1], s[n]) ELSE h[n - 1]
  BY KeptDef
<1> DEFINE Fine(u, n, at) ==
              /\ at \in [1 .. Len(u) -> 1 .. n]
              /\ \A i, j \in 1 .. Len(u) : i < j => at[i] < at[j]
              /\ \A i \in 1 .. Len(u) : u[i] = s[at[i]] /\ u[i] \in X
           N == {n \in Nat : n <= Len(s) => \E at : Fine(h[n], n, at)}
<1>2. 0 \in N
  <2>1. Fine(h[0], 0, <<>>)
    BY <1>1
  <2> QED BY <2>1
<1>3. ASSUME NEW n \in Nat, n \in N PROVE n + 1 \in N
  <2> SUFFICES ASSUME n + 1 <= Len(s) PROVE \E at : Fine(h[n + 1], n + 1, at)
    <3> HIDE DEF Fine
    <3> QED OBVIOUS
  <2>1. n <= Len(s) /\ n + 1 \in 1 .. Len(s) /\ h[n] \in Seq(A) /\ s[n + 1] \in A
    BY <1>0, <1>1
  <2>2. PICK at : Fine(h[n], n, at)
    <3> HIDE DEF Fine
    <3> QED BY <1>3, <2>1
  <2> DEFINE u == h[n]
             l == Len(u)
  <2>3. l \in Nat /\ u \in Seq(A)
    BY <2>1
  <2>4. CASE s[n + 1] \notin X
    <3>1. h[n + 1] = u
      BY <1>1, <2>1, <2>4
    <3>2. Fine(u, n + 1, at)
      BY <2>2, <2>3
    <3> QED BY <3>1, <3>2
  <2>5. CASE s[n + 1] \in X
    <3> DEFINE w == Append(u, s[n + 1])
               new == [i \in 1 .. l + 1 |-> IF i = l + 1 THEN n + 1 ELSE at[i]]
    <3>1. h[n + 1] = w
      <4>1. (n + 1) - 1 = n
        OBVIOUS
      <4>2. h[n + 1] = IF s[n + 1] \in X THEN Append(h[(n + 1) - 1], s[n + 1]) ELSE h[(n + 1) - 1]
        BY <1>1, <2>1
      <4> QED BY <2>5, <4>1, <4>2
    <3>2. Len(w) = l + 1 /\ w[l + 1] = s[n + 1] /\ \A i \in 1 .. l : w[i] = u[i]
      BY <2>1, <2>3, AppendProperties
    <3> HIDE DEF w, u, l
    <3>3. at \in [1 .. l -> 1 .. n]
      BY <2>2 DEF u, l
    <3>4. new \in [1 .. l + 1 -> 1 .. n + 1]
      BY <2>3, <3>3
    <3>5. \A i, j \in 1 .. l + 1 : i < j => new[i] < new[j]
      <4>1. \A i, j \in 1 .. l : i < j => at[i] < at[j]
        BY <2>2 DEF u, l
      <4> QED BY <2>3, <3>3, <4>1
    <3>6. \A i \in 1 .. l + 1 : w[i] = s[new[i]] /\ w[i] \in X
      <4>1. \A i \in 1 .. l : u[i] = s[at[i]] /\ u[i] \in X
        BY <2>2 DEF u, l
      <4> QED BY <2>3, <2>5, <3>2, <4>1
    <3> HIDE DEF new
    <3>7. Fine(w, n + 1, new)
      BY <3>2, <3>4, <3>5, <3>6
    <3> QED BY <3>1, <3>7
  <2> QED BY <2>4, <2>5
<1>4. Len(s) \in N
  <2> HIDE DEF N
  <2> QED BY <1>0, <1>2, <1>3, Induction
<1>5. t \in Seq(A) /\ DOMAIN t = 1 .. Len(t)
  BY <1>0, <1>1
<1>6. PICK at : Fine(t, Len(s), at)
  BY <1>0, <1>1, <1>4
<1> QED BY <1>0, <1>5, <1>6

LEMMA SameVideoCounts ==
    /\ \A X : V!Cardinality(X) = Cardinality(X) /\ (V!IsFiniteSet(X) <=> IsFiniteSet(X))
    /\ \A s, x : x \in V!Range(s) <=> \E i \in DOMAIN s : s[i] = x
BY DEF V!Cardinality, Cardinality, V!IsFiniteSet, IsFiniteSet, V!Range

\* Originals, as far as it is needed: two steps of the chain.
LEMMA TwoRemoves ==
    ASSUME NEW p \in Videos, \A e \in v9 : e \in Videos \X Videos /\ e[1] # e[2]
    PROVE  /\ p \in V!Originals(p)
           /\ \A e \in v9 : e[1] = p => e[2] \in V!Originals(p)
           /\ \A e, f \in v9 : e[1] = p /\ f[1] = e[2] => f[2] \in V!Originals(p)
<1> DEFINE m == V!Cardinality(Videos)
           next(u) == u \cup {q[2] : q \in {q \in v9 : q[1] \in u}}
           body(c, n) == IF n = 0 THEN {p}
                         ELSE c[n - 1] \cup {q[2] : q \in {q \in v9 : q[1] \in c[n - 1]}}
           step == [z \in (SUBSET Videos) \X Nat |-> next(z[1])]
           c == CHOOSE c : c = [n \in 0 .. m |-> body(c, n)]
<1>1. IsFiniteSet(Videos) /\ m = Cardinality(Videos) /\ m \in Nat
  BY ToolsAssumption, FS_CardinalityType, SameVideoCounts DEF V!VideoConstants
<1> HIDE DEF m
<1>2. step \in [(SUBSET Videos) \X Nat -> SUBSET Videos]
  <2>1. \A u \in SUBSET Videos : next(u) \in SUBSET Videos
    OBVIOUS
  <2> HIDE DEF next
  <2> QED BY <2>1
<1>3. PICK f \in [0 .. m -> SUBSET Videos] :
         f[0] = {p} /\ \A n \in 1 .. m : f[n] = step[<<f[n - 1], n>>]
  <2> DEFINE B == SUBSET Videos
             a == {p}
  <2>1. a \in B /\ step \in [B \X Nat -> B]
    BY <1>2
  <2> HIDE DEF step, B, a
  <2>2. PICK f : Iterated(f, B, a, step, m)
    BY <1>1, <2>1, Recursion
  <2> QED BY <2>2 DEF B, a, Iterated
<1>4. f = [n \in 0 .. m |-> body(f, n)]
  <2>1. ASSUME NEW n \in 0 .. m PROVE f[n] = body(f, n)
    <3>1. CASE n = 0
      BY <1>3, <3>1
    <3>2. CASE n # 0
      <4>1. n \in 1 .. m /\ f[n - 1] \in SUBSET Videos /\ n \in Nat
        BY <1>1, <3>2
      <4>2. step[<<f[n - 1], n>>] = next(f[n - 1])
        <5> HIDE DEF next
        <5> QED BY <4>1
      <4> QED BY <1>3, <3>2, <4>1, <4>2
    <3> QED BY <3>1, <3>2
  <2> HIDE DEF body
  <2> QED BY <1>3, <2>1
<1>5. c = [n \in 0 .. m |-> body(c, n)]
  <2> HIDE DEF body
  <2> QED BY <1>4
<1>6. V!Originals(p) = c[m]
  BY DEF V!Originals, m
<1> HIDE DEF c
<1>7. c[0] = {p} /\ \A n \in 1 .. m : c[n] = next(c[n - 1])
  <2>1. \A n \in 0 .. m : c[n] = body(c, n)
    <3> HIDE DEF body
    <3> QED BY <1>5
  <2>2. c[0] = body(c, 0) /\ \A n \in 1 .. m : c[n] = body(c, n) /\ n # 0
    <3> HIDE DEF body
    <3> QED BY <1>1, <2>1
  <2> QED BY <2>2
<1>8. ASSUME NEW k \in 0 .. m PROVE c[k] \subseteq c[m]
  <2> DEFINE N == {n \in Nat : k + n <= m => c[k] \subseteq c[k + n]}
  <2>1. 0 \in N
    BY <1>1
  <2>2. ASSUME NEW n \in Nat, n \in N PROVE n + 1 \in N
    <3> SUFFICES ASSUME k + (n + 1) <= m PROVE c[k] \subseteq c[k + (n + 1)]
      OBVIOUS
    <3>1. c[k] \subseteq c[k + n] /\ k + (n + 1) \in 1 .. m /\ (k + (n + 1)) - 1 = k + n
      BY <1>1, <2>2
    <3>2. c[k + (n + 1)] = next(c[k + n])
      BY <1>7, <3>1
    <3> QED BY <3>1, <3>2
  <2>3. Nat \subseteq N
    <3> HIDE DEF N
    <3> QED BY <2>1, <2>2, Induction
  <2>4. m - k \in Nat /\ k + (m - k) = m
    BY <1>1
  <2> QED BY <2>3, <2>4
<1>9. p \in V!Originals(p)
  BY <1>1, <1>6, <1>7, <1>8
<1>10. ASSUME NEW e \in v9, e[1] = p
       PROVE  m >= 2 /\ c[1] = next({p}) /\ c[2] = next(next({p})) /\ e[2] \in c[1]
  <2>1. e[1] \in Videos /\ e[2] \in Videos /\ e[1] # e[2]
    OBVIOUS
  <2>2. m >= 2
    <3>1. IsFiniteSet({e[1]}) /\ Cardinality({e[1]}) = 1
      BY FS_Singleton
    <3>2. e[2] \notin {e[1]}
      BY <2>1
    <3>3. Cardinality({e[1]} \cup {e[2]}) = Cardinality({e[1]}) + 1
      BY <3>1, <3>2, FS_AddElement
    <3>4. {e[1]} \cup {e[2]} \subseteq Videos
      BY <2>1
    <3>5. Cardinality({e[1]} \cup {e[2]}) <= Cardinality(Videos)
      BY <1>1, <3>4, FS_Subset
    <3> QED BY <1>1, <3>1, <3>3, <3>5
  <2>3. c[1] = next(c[0]) /\ c[2] = next(c[1])
    <3>1. 1 \in 1 .. m /\ 2 \in 1 .. m /\ 1 - 1 = 0 /\ 2 - 1 = 1
      BY <1>1, <2>2
    <3> HIDE DEF next
    <3> QED BY <1>7, <3>1
  <2>4. e[2] \in next({p})
    BY <1>10
  <2> HIDE DEF next
  <2> QED BY <1>7, <2>2, <2>3, <2>4
<1>11. \A e \in v9 : e[1] = p => e[2] \in V!Originals(p)
  BY <1>1, <1>6, <1>8, <1>10
<1>12. ASSUME NEW e \in v9, NEW g \in v9, e[1] = p, g[1] = e[2] PROVE g[2] \in V!Originals(p)
  <2>1. m >= 2 /\ c[2] = next(c[1]) /\ e[2] \in c[1]
    <3> HIDE DEF next
    <3> QED BY <1>10, <1>12
  <2>2. g[2] \in c[2]
    BY <1>12, <2>1
  <2> QED BY <1>1, <1>6, <1>8, <2>1, <2>2
<1> QED BY <1>9, <1>11, <1>12

\* Of a set of indexes there is a last one, by size and then by index.
LEMMA LastOne ==
    ASSUME NEW m \in Nat, NEW z, \A j \in 1 .. m : z[j] \in Int,
           NEW is, is \subseteq 1 .. m, is # {}
    PROVE  \E i \in is : \A j \in is : z[j] < z[i] \/ (z[j] = z[i] /\ j <= i)
<1> DEFINE Best(xs, i) == i \in xs /\ \A j \in xs : z[j] < z[i] \/ (z[j] = z[i] /\ j <= i)
           N == {n \in Nat : n <= m => \A xs \in SUBSET (1 .. n) : xs # {} => \E i : Best(xs, i)}
<1>1. 0 \in N
  OBVIOUS
<1>2. ASSUME NEW n \in Nat, n \in N PROVE n + 1 \in N
  <2> SUFFICES ASSUME n + 1 <= m, NEW xs \in SUBSET (1 .. n + 1), xs # {}
               PROVE  \E i : Best(xs, i)
    <3> HIDE DEF Best
    <3> QED OBVIOUS
  <2> DEFINE ys == xs \ {n + 1}
  <2>1. ys \subseteq 1 .. n /\ (ys # {} => \E i : Best(ys, i))
    <3>1. ys \subseteq 1 .. n
      OBVIOUS
    <3> HIDE DEF ys, Best
    <3> QED BY <1>2, <3>1
  <2>2. CASE n + 1 \notin xs
    <3>1. ys = xs
      BY <2>2
    <3> HIDE DEF ys, Best
    <3> QED BY <2>1, <3>1
  <2>3. CASE n + 1 \in xs /\ ys = {}
    <3>1. Best(xs, n + 1)
      BY <2>3
    <3> QED BY <3>1
  <2>4. CASE n + 1 \in xs /\ ys # {}
    <3>1. PICK i : Best(ys, i)
      BY <2>1, <2>4
    <3>2. z[i] \in Int /\ z[n + 1] \in Int /\ i \in 1 .. n
      BY <2>1, <3>1
    <3>3. Best(xs, IF z[n + 1] < z[i] THEN i ELSE n + 1)
      BY <2>1, <2>4, <3>1, <3>2
    <3> QED BY <3>3
  <2> QED BY <2>2, <2>3, <2>4
<1>3. m \in N
  <2> HIDE DEF N
  <2> QED BY <1>1, <1>2, Induction
<1>4. \E i : Best(is, i)
  <2> HIDE DEF Best
  <2> QED BY <1>3
<1> QED BY <1>4

\* Both files of a match are from the list, and none that a file is matched
\* with is itself matched with another.
LEMMA MatchFacts ==
    ASSUME NEW files \in Seq(Videos), NEW hash, NEW e \in V!Matches(files, hash)
    PROVE  /\ e \in Videos \X Videos /\ e[1] # e[2]
           /\ e[1] \in V!Range(files) /\ e[2] \in V!Range(files)
           /\ e[2] \notin V!Smaller(V!Matches(files, hash))
<1> DEFINE alike(i) == {j \in DOMAIN files : hash[files[j]] = hash[files[i]]}
           last(is) == CHOOSE i \in is : \A j \in is :
                          \/ VideoSize[files[j]] < VideoSize[files[i]]
                          \/ VideoSize[files[j]] = VideoSize[files[i]] /\ j <= i
           larger(i) == files[last(alike(i))]
<1>1. \A f \in V!Matches(files, hash) : \E i \in DOMAIN files :
          f = <<files[i], larger(i)>> /\ files[i] # larger(i)
  BY DEF V!Matches
<1>2. ASSUME NEW i \in DOMAIN files PROVE last(alike(i)) \in alike(i)
  <2> DEFINE z == [j \in DOMAIN files |-> VideoSize[files[j]]]
             is == alike(i)
  <2>1. Len(files) \in Nat /\ DOMAIN files = 1 .. Len(files)
    OBVIOUS
  <2>2. \A j \in 1 .. Len(files) : z[j] \in Int
    BY <2>1, ToolsAssumption DEF V!VideoConstants
  <2>3. is \subseteq 1 .. Len(files) /\ is # {}
    BY <2>1
  <2> HIDE DEF is, z
  <2>4. PICK l \in is : \A j \in is : z[j] < z[l] \/ (z[j] = z[l] /\ j <= l)
    BY <2>1, <2>2, <2>3, LastOne
  <2>5. \A j \in is : \/ VideoSize[files[j]] < VideoSize[files[l]]
                      \/ VideoSize[files[j]] = VideoSize[files[l]] /\ j <= l
    BY <2>1, <2>3, <2>4 DEF z
  <2>6. last(is) \in is
    BY <2>4, <2>5
  <2> QED BY <2>6 DEF is
<1>3. ASSUME NEW i \in DOMAIN files, NEW j \in DOMAIN files, files[j] = larger(i)
      PROVE  larger(j) = larger(i)
  <2>1. hash[larger(i)] = hash[files[i]]
    <3> HIDE DEF last
    <3> QED BY <1>2
  <2>2. alike(j) = alike(i)
    BY <1>3, <2>1
  <2> HIDE DEF alike, last
  <2> QED BY <2>2
<1>4. \A i \in DOMAIN files : larger(i) \in V!Range(files)
  <2> HIDE DEF last
  <2> QED BY <1>2, SameVideoCounts
<1>5. \A i \in DOMAIN files : files[i] \in V!Range(files) /\ files[i] \in Videos
  BY SameVideoCounts
<1>6. \A x \in V!Range(files) : x \in Videos
  BY SameVideoCounts
<1> HIDE DEF alike, last, larger
<1>7. PICK i \in DOMAIN files : e = <<files[i], larger(i)>> /\ files[i] # larger(i)
  BY <1>1
<1>8. ASSUME NEW f \in V!Matches(files, hash), f[1] = e[2] PROVE FALSE
  <2>1. PICK j \in DOMAIN files : f = <<files[j], larger(j)>> /\ files[j] # larger(j)
    BY <1>1
  <2>2. files[j] = larger(i)
    BY <1>7, <1>8, <2>1
  <2> QED BY <1>3, <2>1, <2>2
<1>9. e[2] \notin V!Smaller(V!Matches(files, hash))
  BY <1>8 DEF V!Smaller
<1> QED BY <1>4, <1>5, <1>6, <1>7, <1>9

\* Two durations with the same key are near to each other.
LEMMA SameKeyNear ==
    ASSUME NEW d \in Nat, NEW e \in Nat, V!Key(d) = V!Key(e)
    PROVE  V!Near(d, e) /\ V!Key(d) \in Nat
<1> DEFINE half == KeyUnit \div 2
           q == (d + half) \div KeyUnit
           r == (e + half) \div KeyUnit
<1>1. KeyUnit \in Nat \ {0} /\ DurationTolerance \in Nat /\ KeyUnit <= DurationTolerance + 1
  BY ToolsAssumption DEF V!VideoConstants
<1>2. half \in Nat /\ q = r
  BY <1>1 DEF V!Key
<1>3. ASSUME NEW a \in Nat, NEW u \in Nat \ {0}
      PROVE  a \div u \in Nat /\ u * (a \div u) <= a /\ a < u * (a \div u) + u
  OBVIOUS
<1> HIDE DEF half
<1>4. q \in Nat /\ KeyUnit * q <= d + half /\ d + half < KeyUnit * q + KeyUnit
  BY <1>1, <1>2, <1>3
<1>5. r \in Nat /\ KeyUnit * r <= e + half /\ e + half < KeyUnit * r + KeyUnit
  BY <1>1, <1>2, <1>3
<1> HIDE DEF q, r
<1> DEFINE w == KeyUnit * q
<1>6. w \in Int /\ w <= d + half /\ d + half < w + KeyUnit /\ w <= e + half /\ e + half < w + KeyUnit
  BY <1>1, <1>2, <1>4, <1>5
<1> HIDE DEF w
<1>7. d - e <= DurationTolerance /\ e - d <= DurationTolerance
  BY <1>1, <1>2, <1>6
<1>8. V!Key(d) \in Nat
  BY <1>4 DEF V!Key, q, half
<1> QED BY <1>7, <1>8 DEF V!Near

VideoRecord == [duration: [Videos -> Durations], audio: [Videos -> Audio \cup {V!None}],
                frame: [Videos -> Frame \cup {V!None}]]
VideoGroup == [key: Nat, files: Seq(Videos) \ {<<>>}]

LEMMA VideoDuration ==
    ASSUME v3 \in VideoRecord, NEW p \in Videos
    PROVE  v3.duration[p] \in Nat
<1>1. Durations \subseteq Nat
  BY ToolsAssumption DEF V!VideoConstants
<1> QED BY <1>1 DEF VideoRecord

LEMMA GroupFacts ==
    ASSUME NEW g \in VideoGroup
    PROVE  /\ g.key \in Nat /\ g.files \in Seq(Videos) /\ g.files # <<>>
           /\ Len(g.files) \in Nat \ {0} /\ DOMAIN g.files = 1 .. Len(g.files)
           /\ Head(g.files) = g.files[1] /\ Head(g.files) \in Videos
           /\ V!Range(g.files) \subseteq Videos
BY SameVideoCounts DEF VideoGroup

\* A group at the end, or one file more in a group.
LEMMA ProbeGroups ==
    ASSUME V!GroupInv, V!Probe, v6' = V!Grouped(Head(v4)), v5' = v5
    PROVE  V!GroupInv'
<1> DEFINE p == Head(v4)
           d == v3.duration[p]
           near == {i \in DOMAIN v6 : V!Near(d, V!Ref(v6[i]))}
           same == {i \in DOMAIN v6 : v6[i].key = V!Key(d)}
           new == [key |-> V!Key(d), files |-> <<p>>]
           dur(x) == v3.duration[x]
<1>1. /\ v3 \in VideoRecord /\ v4 \in Seq(Videos) /\ v4 # <<>> /\ v1 = "probe"
      /\ v6 \in Seq(VideoGroup) /\ v5 \subseteq Videos
      /\ v1' = v1 /\ v3' = v3 /\ v4' = Tail(v4) /\ v5' = v5
  BY DEF V!GroupInv, V!Probe, VideoRecord, VideoGroup
<1>2. /\ p \in Videos /\ v4' \in Seq(Videos) /\ d \in Nat
      /\ \A x : x \in V!Range(v4) <=> x = p \/ x \in V!Range(v4')
  <2>1. p \in Videos /\ v4' \in Seq(Videos)
    BY <1>1
  <2>2. \A x : x \in V!Range(v4) <=> x = p \/ x \in V!Range(v4')
    <3>1. Len(v4) \in Nat \ {0} /\ Len(v4') = Len(v4) - 1 /\ p = v4[1]
      BY <1>1
    <3>2. \A i \in 1 .. Len(v4') : v4'[i] = v4[i + 1]
      BY <1>1
    <3>3. DOMAIN v4 = 1 .. Len(v4) /\ DOMAIN v4' = 1 .. Len(v4')
      BY <1>1, <2>1
    <3>4. \A i \in 1 .. Len(v4) : i = 1 \/ i - 1 \in 1 .. Len(v4')
      BY <3>1
    <3>5. \A i \in 1 .. Len(v4') : i + 1 \in 1 .. Len(v4) /\ (i + 1) - 1 = i
      BY <3>1
    <3>6. \A i \in 1 .. Len(v4) : i = 1 \/ v4[i] = v4'[i - 1]
      BY <3>1, <3>2, <3>4
    <3> QED BY <3>1, <3>2, <3>3, <3>4, <3>5, <3>6, SameVideoCounts
  <2> QED BY <1>1, <2>1, <2>2, VideoDuration
<1>3. /\ \A i \in DOMAIN v6 : v6[i].key = V!Key(V!Ref(v6[i]))
      /\ \A i \in DOMAIN v6 : \A x \in V!Range(v6[i].files) : V!Near(dur(x), V!Ref(v6[i]))
      /\ \A i, j \in DOMAIN v6 : j < i =>
            \A x \in V!Range(v6[i].files) : ~ V!Near(dur(x), V!Ref(v6[j]))
      /\ \A x \in Videos \ v5 :
            x \in V!Range(v4) \/ \E i \in DOMAIN v6 : x \in V!Range(v6[i].files)
  BY <1>1 DEF V!GroupInv
<1>4. Len(v6) \in Nat /\ DOMAIN v6 = 1 .. Len(v6) /\ \A i \in DOMAIN v6 : v6[i] \in VideoGroup
  BY <1>1
<1>5. \A i \in DOMAIN v6 : V!Ref(v6[i]) \in Nat
  BY <1>1, <1>4, VideoDuration, GroupFacts DEF V!Ref
<1> DEFINE Placed(gs) ==
              /\ gs \in Seq(VideoGroup)
              /\ \A i \in DOMAIN gs : gs[i].key = V!Key(V!Ref(gs[i]))
              /\ \A i \in DOMAIN gs : \A x \in V!Range(gs[i].files) : V!Near(dur(x), V!Ref(gs[i]))
              /\ \A i, j \in DOMAIN gs : j < i =>
                    \A x \in V!Range(gs[i].files) : ~ V!Near(dur(x), V!Ref(gs[j]))
              /\ \A x : x = p \/ (\E i \in DOMAIN v6 : x \in V!Range(v6[i].files)) =>
                    \E i \in DOMAIN gs : x \in V!Range(gs[i].files)
<1>6. ASSUME near # {} PROVE Placed(v6')
  <2> DEFINE i == CHOOSE i \in near : \A j \in near : i <= j
             files == Append(v6[i].files, p)
             gs == [v6 EXCEPT ![i].files = files]
  <2>1. v6' = gs
    BY <1>6 DEF V!Grouped, V!Ref
  <2>2. i \in near /\ \A j \in near : i <= j
    <3>1. near \subseteq Nat
      BY <1>4
    <3> HIDE DEF near
    <3> QED BY <1>6, <3>1, Least
  <2>3. i \in DOMAIN v6 /\ V!Near(d, V!Ref(v6[i])) /\ \A j \in DOMAIN v6 : j < i => ~ V!Near(d, V!Ref(v6[j]))
    <3>1. \A j \in DOMAIN v6 : j \in Nat
      BY <1>4
    <3> HIDE DEF i
    <3> QED BY <2>2, <3>1
  <2> HIDE DEF i
  <2>4. /\ files \in Seq(Videos) \ {<<>>} /\ Head(files) = Head(v6[i].files)
        /\ \A x : x \in V!Range(files) <=> x = p \/ x \in V!Range(v6[i].files)
    <3> DEFINE fs == v6[i].files
               l == Len(fs)
    <3>1. /\ fs \in Seq(Videos) /\ l \in Nat \ {0} /\ DOMAIN fs = 1 .. l
          /\ Head(fs) = fs[1]
      BY <1>4, <2>3, GroupFacts
    <3> HIDE DEF fs
    <3>2. /\ Append(fs, p) \in Seq(Videos) /\ Len(Append(fs, p)) = l + 1
          /\ Append(fs, p)[l + 1] = p /\ \A k \in 1 .. l : Append(fs, p)[k] = fs[k]
      BY <1>2, <3>1, AppendProperties
    <3>3. Append(fs, p) # <<>> /\ Head(Append(fs, p)) = fs[1]
      BY <1>2, <3>1, <3>2
    <3>4. DOMAIN Append(fs, p) = 1 .. l + 1
      BY <3>2
    <3>5. \A x : x \in V!Range(Append(fs, p)) <=> x = p \/ x \in V!Range(fs)
      <4>1. \A k : k \in 1 .. l + 1 <=> k = l + 1 \/ k \in 1 .. l
        BY <3>1
      <4> DEFINE w == Append(fs, p)
      <4>2. DOMAIN w = 1 .. l + 1 /\ w[l + 1] = p /\ \A k \in 1 .. l : w[k] = fs[k]
        BY <3>2, <3>4
      <4> HIDE DEF w, p
      <4>3. \A x : x \in V!Range(w) <=> \E k \in 1 .. l + 1 : w[k] = x
        BY <4>2, SameVideoCounts
      <4>4. \A x : x \in V!Range(fs) <=> \E k \in 1 .. l : fs[k] = x
        BY <3>1, SameVideoCounts
      <4>5. \A x : x \in V!Range(w) <=> x = p \/ x \in V!Range(fs)
        BY <4>1, <4>2, <4>3, <4>4
      <4> QED BY <4>5 DEF w
    <3> QED BY <3>1, <3>2, <3>3, <3>5 DEF fs
  <2>5. /\ DOMAIN gs = DOMAIN v6 /\ gs[i] = [key |-> v6[i].key, files |-> files]
        /\ \A j \in DOMAIN v6 \ {i} : gs[j] = v6[j]
    <3>1. v6[i] \in VideoGroup
      BY <1>4, <2>3
    <3> HIDE DEF files
    <3> QED BY <1>1, <2>3, <3>1 DEF VideoGroup
  <2> HIDE DEF files
  <2>6. gs[i] \in VideoGroup /\ V!Ref(gs[i]) = V!Ref(v6[i]) /\ gs[i].key = v6[i].key /\ gs[i].files = files
    BY <1>4, <2>3, <2>4, <2>5, GroupFacts DEF VideoGroup, V!Ref
  <2>7. gs \in Seq(VideoGroup)
    <3>1. \A j \in DOMAIN v6 : gs[j] \in VideoGroup
      BY <1>4, <2>5, <2>6
    <3>2. gs = [j \in DOMAIN v6 |-> gs[j]]
      OBVIOUS
    <3> HIDE DEF gs
    <3> QED BY <1>4, <2>5, <3>1, <3>2
  <2> HIDE DEF gs
  <2>8. \A j \in DOMAIN v6 : /\ V!Ref(gs[j]) = V!Ref(v6[j]) /\ gs[j].key = v6[j].key
                             /\ \A x : x \in V!Range(gs[j].files) <=>
                                          x \in V!Range(v6[j].files) \/ (j = i /\ x = p)
    BY <2>4, <2>5, <2>6
  <2>9. Placed(gs)
    <3>1. \A j \in DOMAIN gs : gs[j].key = V!Key(V!Ref(gs[j]))
      BY <1>3, <2>5, <2>8
    <3>2. \A j \in DOMAIN gs : \A x \in V!Range(gs[j].files) : V!Near(dur(x), V!Ref(gs[j]))
      BY <1>3, <2>3, <2>5, <2>8
    <3>3. \A k, j \in DOMAIN gs : j < k =>
             \A x \in V!Range(gs[k].files) : ~ V!Near(dur(x), V!Ref(gs[j]))
      BY <1>3, <2>3, <2>5, <2>8
    <3>4. \A x : x = p \/ (\E j \in DOMAIN v6 : x \in V!Range(v6[j].files)) =>
             \E j \in DOMAIN gs : x \in V!Range(gs[j].files)
      BY <2>3, <2>5, <2>8
    <3> QED BY <2>7, <3>1, <3>2, <3>3, <3>4
  <2> QED BY <2>1, <2>9
<1>7. ASSUME near = {} PROVE Placed(v6')
  <2>1. same = {}
    <3> SUFFICES ASSUME NEW i \in same PROVE FALSE
      OBVIOUS
    <3>1. V!Key(d) = V!Key(V!Ref(v6[i])) /\ V!Ref(v6[i]) \in Nat
      BY <1>3, <1>5
    <3> QED BY <1>2, <1>7, <3>1, SameKeyNear
  <2> DEFINE gs == Append(v6, new)
  <2>2. v6' = gs
    BY <1>7, <2>1 DEF V!Grouped, V!Ref
  <2>3. new \in VideoGroup /\ V!Ref(new) = d /\ new.key = V!Key(d)
        /\ \A x : x \in V!Range(new.files) <=> x = p
    <3>1. V!Key(d) \in Nat
      BY <1>2, SameKeyNear
    <3>2. <<p>> \in Seq(Videos) \ {<<>>} /\ Head(<<p>>) = p /\ DOMAIN <<p>> = {1} /\ <<p>>[1] = p
      BY <1>2
    <3> QED BY <3>1, <3>2, SameVideoCounts DEF VideoGroup, V!Ref
  <2> HIDE DEF new
  <2>4. /\ gs \in Seq(VideoGroup) /\ DOMAIN gs = 1 .. Len(v6) + 1
        /\ gs[Len(v6) + 1] = new /\ \A j \in DOMAIN v6 : gs[j] = v6[j]
    BY <1>1, <1>4, <2>3, AppendProperties
  <2>5. \A k : k \in DOMAIN gs <=> k \in DOMAIN v6 \/ k = Len(v6) + 1
    BY <1>4, <2>4
  <2> HIDE DEF gs
  <2>6. Placed(gs)
    <3>1. \A j \in DOMAIN gs : gs[j].key = V!Key(V!Ref(gs[j]))
      BY <1>3, <2>3, <2>4, <2>5
    <3>2. \A j \in DOMAIN gs : \A x \in V!Range(gs[j].files) : V!Near(dur(x), V!Ref(gs[j]))
      <4>1. V!Near(d, d)
        BY <1>2, SameKeyNear
      <4> QED BY <1>3, <2>3, <2>4, <2>5, <4>1
    <3>3. \A k, j \in DOMAIN gs : j < k =>
             \A x \in V!Range(gs[k].files) : ~ V!Near(dur(x), V!Ref(gs[j]))
      <4>1. \A j \in DOMAIN v6 : ~ V!Near(d, V!Ref(v6[j]))
        BY <1>7
      <4>2. \A k, j \in DOMAIN gs : j < k => j \in DOMAIN v6
        BY <1>4, <2>4
      <4> HIDE DEF near
      <4> QED BY <1>3, <2>3, <2>4, <2>5, <4>1, <4>2
    <3>4. \A x : x = p \/ (\E j \in DOMAIN v6 : x \in V!Range(v6[j].files)) =>
             \E j \in DOMAIN gs : x \in V!Range(gs[j].files)
      BY <2>3, <2>4, <2>5
    <3> QED BY <2>4, <3>1, <3>2, <3>3, <3>4
  <2> QED BY <2>2, <2>6
<1>8. Placed(v6')
  BY <1>6, <1>7
<1> HIDE DEF near, same, new
<1>9. ASSUME NEW i \in DOMAIN v6', NEW j \in DOMAIN v6', i # j
      PROVE  V!Range(v6'[i].files) \cap V!Range(v6'[j].files) = {}
  <2>1. i \in Nat /\ j \in Nat
    BY <1>8
  <2>2. \A x : x \notin V!Range(v6'[i].files) \cap V!Range(v6'[j].files)
    BY <1>8, <1>9, <2>1
  <2> QED BY <2>2
<1>10. \A x \in Videos \ v5 :
          x \in V!Range(v4') \/ \E i \in DOMAIN v6' : x \in V!Range(v6'[i].files)
  <2> SUFFICES ASSUME NEW x \in Videos \ v5, x \notin V!Range(v4')
               PROVE  x = p \/ \E i \in DOMAIN v6 : x \in V!Range(v6[i].files)
    BY <1>8
  <2> QED BY <1>2, <1>3
<1> HIDE DEF p, d
<1> QED BY <1>1, <1>2, <1>8, <1>9, <1>10 DEF V!GroupInv, V!Ref, VideoRecord, VideoGroup

LEMMA RangeOfTail ==
    ASSUME NEW A, NEW s \in Seq(A), s # <<>>
    PROVE  /\ Tail(s) \in Seq(A) /\ Len(Tail(s)) = Len(s) - 1
           /\ \A i \in DOMAIN Tail(s) : i + 1 \in DOMAIN s /\ i + 1 # 1 /\ Tail(s)[i] = s[i + 1]
           /\ \A x : x \in V!Range(s) => x = Head(s) \/ x \in V!Range(Tail(s))
<1>1. /\ Tail(s) \in Seq(A) /\ Len(s) \in Nat \ {0} /\ Len(Tail(s)) = Len(s) - 1
      /\ DOMAIN s = 1 .. Len(s) /\ DOMAIN Tail(s) = 1 .. Len(Tail(s)) /\ Head(s) = s[1]
      /\ \A i \in 1 .. Len(Tail(s)) : Tail(s)[i] = s[i + 1]
  OBVIOUS
<1> DEFINE t == Tail(s)
           l == Len(s)
<1>2. l \in Nat \ {0} /\ DOMAIN s = 1 .. l /\ DOMAIN t = 1 .. l - 1 /\ \A i \in 1 .. l - 1 : t[i] = s[i + 1]
  BY <1>1
<1> HIDE DEF t, l
<1>3. \A i \in 1 .. l : i = 1 \/ (i - 1 \in 1 .. l - 1 /\ t[i - 1] = s[i])
  <2> SUFFICES ASSUME NEW i \in 1 .. l, i # 1 PROVE i - 1 \in 1 .. l - 1 /\ t[i - 1] = s[i]
    OBVIOUS
  <2>1. i - 1 \in 1 .. l - 1 /\ (i - 1) + 1 = i
    BY <1>2
  <2> QED BY <1>2, <2>1
<1>4. \A x : x \in V!Range(s) => x = s[1] \/ x \in V!Range(t)
  BY <1>2, <1>3, SameVideoCounts
<1>5. \A i \in DOMAIN t : i + 1 \in DOMAIN s /\ i + 1 # 1
  BY <1>2
<1> QED BY <1>1, <1>4, <1>5 DEF t

LEMMA ProbeFailsGroups ==
    ASSUME V!GroupInv, V!Probe, v6' = v6, v5' = v5 \cup {Head(v4)}
    PROVE  V!GroupInv'
<1>1. /\ v4 \in Seq(Videos) /\ v4 # <<>> /\ v1 = "probe" /\ v5 \subseteq Videos
      /\ v1' = v1 /\ v3' = v3 /\ v4' = Tail(v4)
  BY DEF V!GroupInv, V!Probe
<1>2. /\ v4' \in Seq(Videos) /\ Head(v4) \in Videos
      /\ \A x : x \in V!Range(v4) => x = Head(v4) \/ x \in V!Range(v4')
  BY <1>1, RangeOfTail
<1>3. \A x \in Videos \ v5' :
          x \in V!Range(v4') \/ \E i \in DOMAIN v6' : x \in V!Range(v6'[i].files)
  BY <1>1, <1>2 DEF V!GroupInv
<1> QED BY <1>1, <1>2, <1>3 DEF V!GroupInv, V!Ref

LEMMA ProbeStep == V!GroupInv /\ V!Probe => V!GroupInv'
<1> SUFFICES ASSUME V!GroupInv, V!Probe PROVE V!GroupInv'
  OBVIOUS
<1>1. \/ v6' = V!Grouped(Head(v4)) /\ v5' = v5
      \/ v5' = v5 \cup {Head(v4)} /\ v6' = v6
  BY DEF V!Probe
<1> QED BY <1>1, ProbeGroups, ProbeFailsGroups

\* Some of the groups, in their order.
LEMMA FewerGroups ==
    ASSUME V!GroupInv, v1' # "probe", v3' = v3, v4' \in Seq(Videos), v5' \subseteq Videos,
           v6' \in Seq(VideoGroup),
           NEW at \in [DOMAIN v6' -> DOMAIN v6],
           \A i, j \in DOMAIN v6' : i < j => at[i] < at[j],
           \A i \in DOMAIN v6' : v6'[i] = v6[at[i]]
    PROVE  V!GroupInv'
<1>1. v3 \in VideoRecord /\ v6 \in Seq(VideoGroup)
  BY DEF V!GroupInv, VideoRecord, VideoGroup
<1>2. \A i \in DOMAIN v6' : \A x \in V!Range(v6'[i].files) :
          V!Near(v3.duration[x], V!Ref(v6'[i]))
  BY DEF V!GroupInv
<1>3. ASSUME NEW i \in DOMAIN v6', NEW j \in DOMAIN v6', i # j
      PROVE  V!Range(v6'[i].files) \cap V!Range(v6'[j].files) = {}
  <2>1. i \in Nat /\ j \in Nat /\ at[i] \in Nat /\ at[j] \in Nat
    BY <1>1
  <2>2. at[i] # at[j]
    BY <1>3, <2>1
  <2>3. v6'[i] = v6[at[i]] /\ v6'[j] = v6[at[j]] /\ at[i] \in DOMAIN v6 /\ at[j] \in DOMAIN v6
    OBVIOUS
  <2>4. V!Range(v6[at[i]].files) \cap V!Range(v6[at[j]].files) = {}
    BY <2>2, <2>3 DEF V!GroupInv
  <2> QED BY <2>3, <2>4
<1> QED BY <1>1, <1>2, <1>3 DEF V!GroupInv, V!Ref, VideoRecord, VideoGroup

LEMMA GroupsDoneStep == V!GroupInv /\ V!GroupsDone => V!GroupInv'
<1> SUFFICES ASSUME V!GroupInv, V!GroupsDone PROVE V!GroupInv'
  OBVIOUS
<1>1. v6 \in Seq(VideoGroup) /\ v4 \in Seq(Videos) /\ v5 \subseteq Videos
  BY DEF V!GroupInv, VideoGroup
<1> DEFINE X == {g \in V!Range(v6) : Len(g.files) > 1}
<1>2. v6' = V!Kept(v6, X) /\ v3' = v3 /\ v4' = v4 /\ v5' = v5 /\ v1' = "audio"
  BY DEF V!GroupsDone
<1> HIDE DEF X
<1>3. /\ v6' \in Seq(VideoGroup)
      /\ \E at \in [DOMAIN v6' -> DOMAIN v6] :
            /\ \A i, j \in DOMAIN v6' : i < j => at[i] < at[j]
            /\ \A i \in DOMAIN v6' : v6'[i] = v6[at[i]] /\ v6'[i] \in X
  BY <1>1, <1>2, KeptFacts
<1>4. PICK at \in [DOMAIN v6' -> DOMAIN v6] :
         /\ \A i, j \in DOMAIN v6' : i < j => at[i] < at[j]
         /\ \A i \in DOMAIN v6' : v6'[i] = v6[at[i]]
  BY <1>3
<1> QED BY <1>1, <1>2, <1>3, <1>4, FewerGroups

LEMMA FrameCheckGroups ==
    ASSUME V!GroupInv, V!FrameCheck, v6 # <<>>
    PROVE  V!GroupInv'
<1>1. /\ v6 \in Seq(VideoGroup) /\ v4 \in Seq(Videos) /\ v5 \subseteq Videos
      /\ v6' = Tail(v6) /\ v3' = v3 /\ v4' = v4 /\ v5' = v5 /\ v1' = "audio"
  BY DEF V!GroupInv, V!FrameCheck, VideoGroup
<1>2. /\ v6' \in Seq(VideoGroup)
      /\ \A i \in DOMAIN v6' : i + 1 \in DOMAIN v6 /\ v6'[i] = v6[i + 1] /\ i \in Nat
  BY <1>1, RangeOfTail
<1> DEFINE at == [i \in DOMAIN v6' |-> i + 1]
<1>3. /\ at \in [DOMAIN v6' -> DOMAIN v6]
      /\ \A i, j \in DOMAIN v6' : i < j => at[i] < at[j]
      /\ \A i \in DOMAIN v6' : v6'[i] = v6[at[i]]
  BY <1>2
<1> HIDE DEF at
<1> QED BY <1>1, <1>2, <1>3, FewerGroups

LEMMA SameGroups ==
    ASSUME V!GroupInv, v6' = v6, v3' = v3, v4' = v4, v5' = v5, v1' = v1 \/ v1' # "probe"
    PROVE  V!GroupInv'
BY DEF V!GroupInv, V!Ref

\* PairInv, by what holds at which pc.
PairsFine(ps, t, d) ==
    /\ ps \subseteq t /\ \A p \in Videos \ d : p \in V!Smaller(t)
    /\ \A e \in t :
          /\ e \in Videos \X Videos /\ e[1] # e[2]
          /\ \/ e[2] \notin V!Smaller(t)
             \/ \E f \in t : f[1] = e[2] /\ f[2] \notin V!Smaller(t)

AudioFine(t, gs) == \A e \in t, i \in DOMAIN gs : {e[1], e[2]} \cap V!Range(gs[i].files) = {}

FrameFine(t, gs, s) ==
    /\ gs # <<>> /\ s \in Seq(Videos)
    /\ \A p \in V!Range(s) : p \in V!Range(gs[1].files) /\ p \notin V!Smaller(t)
    /\ \A e \in t :
          /\ e[1] \in V!Range(gs[1].files) <=> e[2] \in V!Range(gs[1].files)
          /\ e[2] \in V!Range(gs[1].files) => e[2] \notin V!Smaller(t)
          /\ \A i \in DOMAIN gs \ {1} : {e[1], e[2]} \cap V!Range(gs[i].files) = {}

LEMMA PairParts ==
    /\ V!PairInv <=> /\ PairsFine(v8, v9, v2)
                     /\ v1 = "probe" => v9 = {}
                     /\ v1 = "audio" => AudioFine(v9, v6)
                     /\ v1 = "frame" => FrameFine(v9, v6, v7)
    /\ V!PairInv' <=> /\ PairsFine(v8', v9', v2')
                      /\ v1' = "probe" => v9' = {}
                      /\ v1' = "audio" => AudioFine(v9', v6')
                      /\ v1' = "frame" => FrameFine(v9', v6', v7')
<1>1. V!PairInv <=> /\ PairsFine(v8, v9, v2)
                    /\ v1 = "probe" => v9 = {}
                    /\ v1 = "audio" => AudioFine(v9, v6)
                    /\ v1 = "frame" => FrameFine(v9, v6, v7)
  BY Zenon DEF V!PairInv, V!Stays, PairsFine, AudioFine, FrameFine
<1>2. V!PairInv' <=> /\ PairsFine(v8', v9', v2')
                     /\ v1' = "probe" => v9' = {}
                     /\ v1' = "audio" => AudioFine(v9', v6')
                     /\ v1' = "frame" => FrameFine(v9', v6', v7')
  BY Zenon DEF V!PairInv, V!Stays, PairsFine, AudioFine, FrameFine
<1> QED BY <1>1, <1>2

LEMMA SmallerOf ==
    ASSUME NEW t, NEW u
    PROVE  /\ \A x : x \in V!Smaller(t) <=> \E e \in t : e[1] = x
           /\ \A x : x \in V!Smaller(t \cup u) <=> x \in V!Smaller(t) \/ x \in V!Smaller(u)
BY DEF V!Smaller

LEMMA AudioCheckStep ==
    ASSUME V!GroupInv, V!PairInv, V!AudioCheck
    PROVE  V!PairInv'
<1> DEFINE files == Head(v6).files
           found == V!Matches(files, v3.audio)
           X == Videos \ V!Smaller(found)
<1>1. /\ v1 = "audio" /\ v6 # <<>> /\ v8' = v8 \cup found /\ v9' = v9 \cup found
      /\ v7' = V!Kept(files, X) /\ v1' = "frame" /\ v2' = v2 /\ v6' = v6
  BY DEF V!AudioCheck
<1>2. v6 \in Seq(VideoGroup) /\ 1 \in DOMAIN v6 /\ Head(v6) = v6[1] /\ v6[1] \in VideoGroup
  <2>1. v6 \in Seq(VideoGroup)
    BY DEF V!GroupInv, VideoGroup
  <2> QED BY <1>1, <2>1
<1>3. files \in Seq(Videos) /\ files = v6[1].files
  BY <1>2, GroupFacts
<1>4. PairsFine(v8, v9, v2) /\ \A e \in v9, i \in DOMAIN v6 :
          e[1] \notin V!Range(v6[i].files) /\ e[2] \notin V!Range(v6[i].files)
  BY <1>1, PairParts DEF AudioFine
<1> DEFINE audio == v3.audio
<1>5. \A e \in found : /\ e \in Videos \X Videos /\ e[1] # e[2]
                       /\ e[1] \in V!Range(files) /\ e[2] \in V!Range(files)
                       /\ e[2] \notin V!Smaller(found)
  <2> HIDE DEF files, audio
  <2> QED BY <1>3, MatchFacts DEF audio
<1>6. /\ v7' \in Seq(Videos)
      /\ \A x \in V!Range(v7') : x \in V!Range(files) /\ x \notin V!Smaller(found)
  <2>1. /\ v7' \in Seq(Videos)
        /\ \E at \in [DOMAIN v7' -> DOMAIN files] :
              /\ \A i, j \in DOMAIN v7' : i < j => at[i] < at[j]
              /\ \A i \in DOMAIN v7' : v7'[i] = files[at[i]] /\ v7'[i] \in X
    <3> HIDE DEF files, X
    <3> QED BY <1>1, <1>3, KeptFacts
  <2>2. \A i \in DOMAIN v7' : v7'[i] \in X /\ \E j \in DOMAIN files : files[j] = v7'[i]
    BY <2>1
  <2> HIDE DEF files, found
  <2> QED BY <2>1, <2>2, SameVideoCounts
<1> HIDE DEF files, found
<1>7. \A x \in V!Range(files) : x \notin V!Smaller(v9)
  BY <1>2, <1>3, <1>4, SmallerOf
<1>8. \A x : x \in V!Smaller(found) => x \in V!Range(files)
  BY <1>5, SmallerOf
<1>9. \A x : x \in V!Smaller(v9') <=> x \in V!Smaller(v9) \/ x \in V!Smaller(found)
  BY <1>1, SmallerOf
<1>10. PairsFine(v8', v9', v2')
  <2>1. v8' \subseteq v9' /\ \A p \in Videos \ v2' : p \in V!Smaller(v9')
    BY <1>1, <1>4, <1>9 DEF PairsFine
  <2>2. ASSUME NEW e \in v9
        PROVE  \/ e[2] \notin V!Smaller(v9')
               \/ \E f \in v9' : f[1] = e[2] /\ f[2] \notin V!Smaller(v9')
    <3>1. e[2] \notin V!Range(files) /\ \A f \in v9 : f[2] \notin V!Range(files)
      BY <1>2, <1>3, <1>4
    <3>2. \/ e[2] \notin V!Smaller(v9)
          \/ \E f \in v9 : f[1] = e[2] /\ f[2] \notin V!Smaller(v9)
      BY <1>4 DEF PairsFine
    <3> QED BY <1>1, <1>8, <1>9, <3>1, <3>2
  <2>3. \A e \in found : e[2] \notin V!Smaller(v9')
    BY <1>5, <1>7, <1>9
  <2>4. \A e \in v9' : e \in Videos \X Videos /\ e[1] # e[2]
    BY <1>1, <1>4, <1>5 DEF PairsFine
  <2> QED BY <1>1, <2>1, <2>2, <2>3, <2>4 DEF PairsFine
<1>11. \A i \in DOMAIN v6 \ {1} : \A x \in V!Range(files) : x \notin V!Range(v6[i].files)
  BY <1>2, <1>3 DEF V!GroupInv
<1>12. /\ v6' # <<>> /\ v7' \in Seq(Videos)
       /\ \A p \in V!Range(v7') : p \in V!Range(v6'[1].files) /\ p \notin V!Smaller(v9')
  BY <1>1, <1>3, <1>6, <1>7, <1>9
<1>13. \A e \in v9' :
          /\ e[1] \in V!Range(v6'[1].files) <=> e[2] \in V!Range(v6'[1].files)
          /\ e[2] \in V!Range(v6'[1].files) => e[2] \notin V!Smaller(v9')
          /\ \A i \in DOMAIN v6' \ {1} : {e[1], e[2]} \cap V!Range(v6'[i].files) = {}
  <2>1. ASSUME NEW e \in v9
        PROVE  \A i \in DOMAIN v6 : e[1] \notin V!Range(v6[i].files) /\ e[2] \notin V!Range(v6[i].files)
    BY <1>4
  <2>2. ASSUME NEW e \in found
        PROVE  /\ e[1] \in V!Range(files) /\ e[2] \in V!Range(files) /\ e[2] \notin V!Smaller(v9')
               /\ \A i \in DOMAIN v6 \ {1} :
                     e[1] \notin V!Range(v6[i].files) /\ e[2] \notin V!Range(v6[i].files)
    BY <1>5, <1>7, <1>9, <1>11
  <2> QED BY <1>1, <1>2, <1>3, <2>1, <2>2
<1> QED BY <1>1, <1>10, <1>12, <1>13, PairParts DEF FrameFine

LEMMA FrameCheckStep ==
    ASSUME V!GroupInv, V!PairInv, V!FrameCheck
    PROVE  V!Inv'
<1> DEFINE frame == v3.frame
           found == V!Matches(v7, frame)
           files == v6[1].files
<1>1. /\ v1 = "frame" /\ v8' = v8 \cup found /\ v9' = v9 \cup found
      /\ v1' = "audio" /\ v2' = v2 /\ v6' = Tail(v6)
  BY DEF V!FrameCheck
<1>2. PairsFine(v8, v9, v2) /\ FrameFine(v9, v6, v7)
  BY <1>1, PairParts
<1>3. v6 \in Seq(VideoGroup) /\ v6 # <<>> /\ v7 \in Seq(Videos) /\ 1 \in DOMAIN v6
  <2>1. v6 \in Seq(VideoGroup) /\ v6 # <<>> /\ v7 \in Seq(Videos)
    BY <1>2 DEF V!GroupInv, VideoGroup, FrameFine
  <2> QED BY <2>1
<1>4. V!GroupInv'
  BY <1>3, FrameCheckGroups
<1>5. /\ \A x \in V!Range(v7) : x \in V!Range(files) /\ x \notin V!Smaller(v9)
      /\ \A e \in v9 :
            /\ e[1] \in V!Range(files) <=> e[2] \in V!Range(files)
            /\ e[2] \in V!Range(files) => e[2] \notin V!Smaller(v9)
            /\ \A i \in DOMAIN v6 \ {1} :
                  e[1] \notin V!Range(v6[i].files) /\ e[2] \notin V!Range(v6[i].files)
  BY <1>2 DEF FrameFine
<1>6. \A e \in found : /\ e \in Videos \X Videos /\ e[1] # e[2]
                       /\ e[1] \in V!Range(v7) /\ e[2] \in V!Range(v7)
                       /\ e[2] \notin V!Smaller(found)
  <2> HIDE DEF frame
  <2> QED BY <1>3, MatchFacts
<1>7. \A i \in DOMAIN v6 \ {1} : \A x \in V!Range(files) : x \notin V!Range(v6[i].files)
  BY <1>3 DEF V!GroupInv
<1> HIDE DEF found, files
<1>8. /\ \A x : x \in V!Smaller(v9') <=> x \in V!Smaller(v9) \/ x \in V!Smaller(found)
      /\ \A x : x \in V!Smaller(found) => \E e \in found : e[1] = x
      /\ \A x : x \in V!Smaller(found) => x \in V!Range(files)
      /\ \A e \in found : e[2] \notin V!Smaller(v9')
  BY <1>1, <1>5, <1>6, SmallerOf
<1>9. PairsFine(v8', v9', v2')
  <2>1. v8' \subseteq v9' /\ \A p \in Videos \ v2' : p \in V!Smaller(v9')
    BY <1>1, <1>2, <1>8 DEF PairsFine
  <2>2. ASSUME NEW e \in v9
        PROVE  \/ e[2] \notin V!Smaller(v9')
               \/ \E f \in v9' : f[1] = e[2] /\ f[2] \notin V!Smaller(v9')
    <3>1. CASE e[2] \in V!Range(files)
      <4>1. e[2] \notin V!Smaller(v9)
        BY <1>5, <3>1
      <4>2. CASE e[2] \in V!Smaller(found)
        <5>1. PICK f \in found : f[1] = e[2]
          BY <1>8, <4>2
        <5> QED BY <1>1, <1>8, <5>1
      <4> QED BY <1>8, <4>1, <4>2
    <3>2. CASE e[2] \notin V!Range(files)
      <4>1. CASE e[2] \notin V!Smaller(v9)
        BY <1>8, <3>2, <4>1
      <4>2. CASE \E f \in v9 : f[1] = e[2] /\ f[2] \notin V!Smaller(v9)
        <5>1. PICK f \in v9 : f[1] = e[2] /\ f[2] \notin V!Smaller(v9)
          BY <4>2
        <5>2. f[2] \notin V!Range(files)
          BY <1>5, <3>2, <5>1
        <5> QED BY <1>1, <1>8, <5>1, <5>2
      <4> QED BY <1>2, <4>1, <4>2 DEF PairsFine
    <3> QED BY <3>1, <3>2
  <2>3. \A e \in v9' : e \in Videos \X Videos /\ e[1] # e[2]
    BY <1>1, <1>2, <1>6 DEF PairsFine
  <2> QED BY <1>1, <1>8, <2>1, <2>2, <2>3 DEF PairsFine
<1>10. AudioFine(v9', v6')
  <2>1. \A i \in DOMAIN v6' : i + 1 \in DOMAIN v6 \ {1} /\ v6'[i] = v6[i + 1]
    BY <1>1, <1>3, RangeOfTail
  <2>2. \A e \in v9', i \in DOMAIN v6 \ {1} :
           e[1] \notin V!Range(v6[i].files) /\ e[2] \notin V!Range(v6[i].files)
    BY <1>1, <1>5, <1>6, <1>7
  <2>3. \A e \in v9', i \in DOMAIN v6' :
           e[1] \notin V!Range(v6'[i].files) /\ e[2] \notin V!Range(v6'[i].files)
    BY <2>1, <2>2
  <2> QED BY <2>3 DEF AudioFine
<1> QED BY <1>1, <1>4, <1>9, <1>10, PairParts DEF V!Inv

LEMMA VideosInit == V!Init => V!Inv
<1> SUFFICES ASSUME V!Init PROVE V!Inv
  OBVIOUS
<1>1. /\ v1 = "probe" /\ v2 = Videos /\ v3 \in VideoRecord /\ v4 \in VideoListings
      /\ v5 = {} /\ v6 = <<>> /\ v8 = {} /\ v9 = {}
  BY DEF V!Init, VideoRecord
<1>2. v4 \in Seq(Videos) /\ V!Range(v4) = Videos
  BY <1>1, ToolsAssumption DEF V!VideoConstants
<1>3. V!GroupInv
  BY <1>1, <1>2 DEF V!GroupInv, VideoRecord
<1>4. V!PairInv
  BY <1>1, PairParts DEF PairsFine
<1> QED BY <1>3, <1>4 DEF V!Inv

LEMMA VideosStep == V!Inv /\ [V!Next]_(V!vars) => V!Inv'
<1> SUFFICES ASSUME V!GroupInv, V!PairInv, [V!Next]_(V!vars) PROVE V!GroupInv' /\ V!PairInv'
  BY DEF V!Inv
<1>1. CASE V!Probe
  <2>1. v1 = "probe" /\ v1' = "probe" /\ v9' = v9 /\ v8' = v8 /\ v2' = v2
    BY <1>1 DEF V!Probe
  <2> QED BY <1>1, <2>1, ProbeStep, PairParts
<1>2. CASE V!GroupsDone
  <2>1. v1 = "probe" /\ v1' = "audio" /\ v9' = v9 /\ v8' = v8 /\ v2' = v2
    BY <1>2 DEF V!GroupsDone
  <2>2. V!PairInv'
    BY <2>1, PairParts DEF AudioFine
  <2> QED BY <1>2, <2>2, GroupsDoneStep
<1>3. CASE V!AudioCheck
  <2>1. v1' = "frame" /\ v3' = v3 /\ v4' = v4 /\ v5' = v5 /\ v6' = v6
    BY <1>3 DEF V!AudioCheck
  <2> QED BY <1>3, <2>1, AudioCheckStep, SameGroups
<1>4. CASE V!FrameCheck
  BY <1>4, FrameCheckStep DEF V!Inv
<1>5. CASE V!ChecksDone \/ V!CheckExits \/ V!ConfirmDone
  <2>1. /\ v1' \in {"confirm", "ended"} /\ v2' = v2 /\ v3' = v3 /\ v4' = v4 /\ v5' = v5
        /\ v6' = v6 /\ v8' = v8 /\ v9' = v9
    BY <1>5 DEF V!ChecksDone, V!CheckExits, V!ConfirmDone
  <2> QED BY <2>1, SameGroups, PairParts
<1>6. CASE V!Confirm
  <2>1. PICK p \in v8 : v2' \in {v2, v2 \ {p[1]}} /\ v8' = v8 \ {p}
    BY <1>6 DEF V!Confirm
  <2>2. v1 = "confirm" /\ v1' = v1 /\ v3' = v3 /\ v4' = v4 /\ v5' = v5 /\ v6' = v6 /\ v9' = v9
    BY <1>6 DEF V!Confirm
  <2>3. PairsFine(v8, v9, v2)
    BY PairParts
  <2>4. \A x \in Videos \ v2' : x \in V!Smaller(v9)
    BY <2>1, <2>3, SmallerOf DEF PairsFine
  <2>5. PairsFine(v8', v9', v2')
    BY <2>1, <2>2, <2>3, <2>4 DEF PairsFine
  <2> QED BY <2>2, <2>5, SameGroups, PairParts
<1>7. CASE UNCHANGED V!vars
  <2>1. /\ v1' = v1 /\ v2' = v2 /\ v3' = v3 /\ v4' = v4 /\ v5' = v5
        /\ v6' = v6 /\ v7' = v7 /\ v8' = v8 /\ v9' = v9
    BY <1>7 DEF V!vars
  <2> QED BY <2>1, SameGroups, PairParts
<1> QED BY <1>1, <1>2, <1>3, <1>4, <1>5, <1>6, <1>7 DEF V!Next

LEMMA VideosHold == Spec => [](program = "video_dupe_finder" => V!Inv)
<1>1. Init => (program = "video_dupe_finder" => V!Inv)
  BY VideosInit DEF Init
<1>2. (program = "video_dupe_finder" => V!Inv) /\ [Next]_vars
         => (program = "video_dupe_finder" => V!Inv)'
  BY ProgramStep, VideosStep
<1> QED BY <1>1, <1>2, PTL DEF Spec

\* GroupsComplete: group_by_duration loses no video that could be probed, and
\* each is near the first one of its group.
THEOREM GroupsCompleteSound == Spec => []GroupsComplete
<1>1. (program = "video_dupe_finder" => V!Inv) => GroupsComplete
  BY DEF GroupsComplete, V!GroupsComplete, V!Inv, V!GroupInv, V!Ref
<1> QED BY <1>1, VideosHold, PTL

\* OriginalStays: whatever the user of confirm_and_delete answers, a deleted
\* video was matched, at some removes, with one that stays.
THEOREM OriginalStaysSound == Spec => []OriginalStays
<1>1. (program = "video_dupe_finder" => V!Inv) => OriginalStays
  <2> SUFFICES ASSUME V!PairInv, NEW p \in Videos PROVE V!Originals(p) \cap v2 # {}
    BY DEF OriginalStays, V!OriginalStays, V!Inv
  <2>1. PairsFine(v8, v9, v2)
    BY PairParts
  <2>2. \A e \in v9 : e \in Videos \X Videos /\ e[1] # e[2]
    BY <2>1 DEF PairsFine
  <2>3. \A x \in Videos : x \notin V!Smaller(v9) => x \in v2
    BY <2>1 DEF PairsFine
  <2>4. CASE p \notin V!Smaller(v9)
    BY <2>2, <2>3, <2>4, TwoRemoves
  <2>5. CASE p \in V!Smaller(v9)
    <3>1. PICK e \in v9 : e[1] = p
      BY <2>5, SmallerOf
    <3>2. CASE e[2] \notin V!Smaller(v9)
      BY <2>2, <2>3, <3>1, <3>2, TwoRemoves
    <3>3. CASE e[2] \in V!Smaller(v9)
      <4>1. PICK f \in v9 : f[1] = e[2] /\ f[2] \notin V!Smaller(v9)
        BY <2>1, <3>3 DEF PairsFine
      <4> QED BY <2>2, <2>3, <3>1, <4>1, TwoRemoves
    <3> QED BY <3>2, <3>3
  <2> QED BY <2>4, <2>5
<1> QED BY <1>1, VideosHold, PTL

-----------------------------------------------------------------------------
(* TargetResolution: v1 is caller, v2 source, v3 chosen, v4 profile, v5 pc, *)
(* v6 target, v7 tag.                                                      *)

LEMMA Dividing ==
    ASSUME NEW a \in Nat, NEW u \in Nat \ {0}
    PROVE  a \div u \in Nat /\ u * (a \div u) <= a /\ a < u * (a \div u) + u
OBVIOUS

\* To16 is off by 8 at most.
LEMMA To16Near ==
    ASSUME NEW n \in Nat
    PROVE  G!To16(n) \in Nat /\ G!To16(n) - n <= 8 /\ n - G!To16(n) <= 8
<1>1. n \div 16 \in Nat /\ n % 16 \in 0 .. 15 /\ n = 16 * (n \div 16) + (n % 16)
  OBVIOUS
<1> QED BY <1>1 DEF G!To16

\* So is what Near16 has of a quotient.
LEMMA Near16Near ==
    ASSUME NEW n \in Nat, NEW d \in Nat \ {0}, NEW t \in G!Near16(n, d)
    PROVE  t \in Nat /\ d * t - n <= 8 * d /\ n - d * t <= 8 * d
<1> DEFINE q == n \div (16 * d)
<1>1. q \in Nat
  <2>1. 16 * d \in Nat \ {0}
    OBVIOUS
  <2> QED BY <2>1, Dividing
<1>2. PICK k \in {q, q + 1} : t = 16 * k /\ 2 * (16 * d * k - n) \in -16 * d .. 16 * d
  BY DEF G!Near16
<1>3. k \in Nat /\ t \in Nat
  BY <1>1, <1>2
<1> DEFINE e == d * k
<1>4. e \in Nat /\ 16 * d * k = 16 * e /\ d * t = 16 * e
  BY <1>2, <1>3
<1> HIDE DEF e
<1>5. 2 * (16 * e - n) <= 16 * d /\ -16 * d <= 2 * (16 * e - n)
  BY <1>2, <1>4
<1>6. 16 * e - n <= 8 * d /\ n - 16 * e <= 8 * d
  BY <1>4, <1>5
<1> QED BY <1>3, <1>4, <1>6

\* A number times the error of another.
LEMMA ErrorTimes ==
    ASSUME NEW t \in Int, NEW n \in Int, t - n <= 8, n - t <= 8, NEW m \in Nat
    PROVE  t * m - n * m <= 8 * m /\ n * m - t * m <= 8 * m
<1>1. (t - n) * m <= 8 * m /\ (n - t) * m <= 8 * m
  OBVIOUS
<1> QED BY <1>1

PixelShape == [w : Nat, h : Nat, num : Nat \ {0}, den : Nat \ {0}]

LEMMA SizeTypes ==
    /\ \A s \in Sources : s \in PixelShape
    /\ \A p \in DOMAIN PROFILES : PROFILES[p] \in Nat
BY ToolsAssumption DEF G!SizeConstants, PixelShape

LEMMA TargetType ==
    ASSUME NEW s \in PixelShape, s.w > 0, s.h > 0, NEW dim \in Nat, NEW t \in G!Targets(s, dim)
    PROVE  t \in [w : Nat, h : Nat]
<1>1. s.w \in Nat /\ s.h \in Nat /\ s.num \in Nat \ {0} /\ s.den \in Nat \ {0}
  BY DEF PixelShape
<1>2. /\ s.num * dim * s.w \in Nat /\ s.num * dim * s.h \in Nat
      /\ s.den * s.h \in Nat \ {0} /\ s.den * s.w \in Nat \ {0}
  BY <1>1
<1>3. CASE dim = 0
  BY <1>1, <1>3, To16Near DEF G!Targets
<1>4. CASE dim > 0 /\ G!Landscape(s)
  <2>1. PICK w \in G!Near16(s.num * dim * s.w, s.den * s.h) : t = [w |-> w, h |-> G!To16(dim)]
    BY <1>4 DEF G!Targets
  <2> QED BY <1>2, <2>1, To16Near, Near16Near
<1>5. CASE dim > 0 /\ ~ G!Landscape(s)
  <2>1. PICK h \in G!Near16(s.num * dim * s.h, s.den * s.w) : t = [w |-> G!To16(dim), h |-> h]
    BY <1>5 DEF G!Targets
  <2> QED BY <1>2, <2>1, To16Near, Near16Near
<1> QED BY <1>3, <1>4, <1>5

\* The difference of the two shapes, multiplied out.
LEMMA ShapeKept ==
    ASSUME NEW s \in PixelShape, s.w > 0, s.h > 0, NEW dim \in Nat, NEW t \in G!Targets(s, dim),
           s.num = s.den \/ (G!Landscape(s) /\ dim > 0)
    PROVE  G!Abs(t.w * s.h * s.den - t.h * s.w * s.num) <= 8 * (s.h * s.den + s.w * s.num)
<1> DEFINE w == s.w
           h == s.h
           num == s.num
           den == s.den
           x == t.w
           y == t.h
<1>1. /\ w \in Nat \ {0} /\ h \in Nat \ {0} /\ num \in Nat \ {0} /\ den \in Nat \ {0}
      /\ x \in Nat /\ y \in Nat
  <2>1. t \in [w : Nat, h : Nat]
    BY TargetType
  <2> QED BY <2>1 DEF PixelShape
<1> DEFINE a == h * den
           b == w * num
<1>2. a \in Nat \ {0} /\ b \in Nat \ {0} /\ x * h * den = x * a /\ y * w * num = y * b
  BY <1>1
<1>3. x * a - y * b <= 8 * (a + b) /\ y * b - x * a <= 8 * (a + b)
  <2>1. CASE dim = 0
    <3>1. num = den
      BY <2>1
    <3>2. x = G!To16(w) /\ y = G!To16(h)
      BY <2>1 DEF G!Targets
    <3>3. x * a - w * a <= 8 * a /\ w * a - x * a <= 8 * a
      BY <1>1, <1>2, <3>2, To16Near, ErrorTimes
    <3>4. y * b - h * b <= 8 * b /\ h * b - y * b <= 8 * b
      BY <1>1, <1>2, <3>2, To16Near, ErrorTimes
    <3>5. w * a = h * b
      <4>1. w * (h * den) = h * (w * den)
        BY <1>1
      <4> QED BY <3>1, <4>1
    <3> HIDE DEF a, b, x, y, w, h
    <3> DEFINE p == x * a
               q == y * b
               r == w * a
    <3>6. p \in Int /\ q \in Int /\ r \in Int
      BY <1>1, <1>2
    <3> HIDE DEF p, q, r
    <3>7. p - r <= 8 * a /\ r - p <= 8 * a /\ q - r <= 8 * b /\ r - q <= 8 * b
      BY <3>3, <3>4, <3>5 DEF p, q, r
    <3>8. p - q <= 8 * (a + b) /\ q - p <= 8 * (a + b)
      BY <1>2, <3>6, <3>7
    <3> QED BY <3>8 DEF p, q
  <2>2. CASE dim > 0 /\ G!Landscape(s)
    <3>1. x \in G!Near16(num * dim * w, den * h) /\ y = G!To16(dim)
      BY <2>2 DEF G!Targets
    <3>2. num * dim * w = dim * b /\ dim * b \in Nat /\ den * h = a /\ a * x = x * a
      BY <1>1
    <3>3. x * a - dim * b <= 8 * a /\ dim * b - x * a <= 8 * a
      <4> HIDE DEF a, b, x
      <4> QED BY <1>2, <3>1, <3>2, Near16Near
    <3>4. y * b - dim * b <= 8 * b /\ dim * b - y * b <= 8 * b
      BY <1>1, <1>2, <3>1, To16Near, ErrorTimes
    <3> HIDE DEF a, b, x, y, w, h
    <3> DEFINE p == x * a
               q == y * b
               r == dim * b
    <3>6. p \in Int /\ q \in Int /\ r \in Int
      BY <1>1, <1>2
    <3> HIDE DEF p, q, r
    <3>7. p - r <= 8 * a /\ r - p <= 8 * a /\ q - r <= 8 * b /\ r - q <= 8 * b
      BY <3>3, <3>4 DEF p, q, r
    <3>8. p - q <= 8 * (a + b) /\ q - p <= 8 * (a + b)
      BY <1>2, <3>6, <3>7
    <3> QED BY <3>8 DEF p, q
  <2>3. CASE dim > 0 /\ ~ G!Landscape(s)
    <3>1. y \in G!Near16(num * dim * h, den * w) /\ x = G!To16(dim) /\ num = den
      BY <2>3 DEF G!Targets
    <3>2. num * dim * h = dim * a /\ dim * a \in Nat /\ den * w = b /\ b * y = y * b
      BY <1>1, <3>1
    <3>3. y * b - dim * a <= 8 * b /\ dim * a - y * b <= 8 * b
      <4> HIDE DEF a, b, y
      <4> QED BY <1>2, <3>1, <3>2, Near16Near
    <3>4. x * a - dim * a <= 8 * a /\ dim * a - x * a <= 8 * a
      BY <1>1, <1>2, <3>1, To16Near, ErrorTimes
    <3> HIDE DEF a, b, x, y, w, h
    <3> DEFINE p == x * a
               q == y * b
               r == dim * a
    <3>6. p \in Int /\ q \in Int /\ r \in Int
      BY <1>1, <1>2
    <3> HIDE DEF p, q, r
    <3>7. p - r <= 8 * a /\ r - p <= 8 * a /\ q - r <= 8 * b /\ r - q <= 8 * b
      BY <3>3, <3>4 DEF p, q, r
    <3>8. p - q <= 8 * (a + b) /\ q - p <= 8 * (a + b)
      BY <1>2, <3>6, <3>7
    <3> QED BY <3>8 DEF p, q
  <2> QED BY <2>1, <2>2, <2>3
<1> DEFINE e == x * a - y * b
<1>4. e \in Int /\ e <= 8 * (a + b) /\ 0 - e <= 8 * (a + b)
  <2>1. x * a \in Int /\ y * b \in Int
    BY <1>1, <1>2
  <2> HIDE DEF a, b, x, y
  <2> QED BY <1>2, <1>3, <2>1
<1>5. G!Abs(e) <= 8 * (a + b)
  <2> HIDE DEF e, a, b
  <2> QED BY <1>4 DEF G!Abs
<1> QED BY <1>2, <1>5

LEMMA SizesInit == G!Init => G!Inv
<1> SUFFICES ASSUME G!Init PROVE G!Inv
  OBVIOUS
<1>1. G!TypeOK
  BY DEF G!Init, G!TypeOK
<1>2. DOMAIN PROFILES = 1 .. Len(PROFILES) /\ Len(PROFILES) \in Nat
  BY ToolsAssumption DEF G!SizeConstants
<1> QED BY <1>1, <1>2 DEF G!Init, G!Inv

LEMMA SizeFacts ==
    ASSUME G!Inv
    PROVE  /\ v2 \in PixelShape /\ v3 \in Nat /\ v4 \in Nat /\ PROFILES[v4] \in Nat
           /\ DOMAIN PROFILES = 1 .. Len(PROFILES) /\ Len(PROFILES) \in Nat
<1>1. v2 \in Sources /\ v3 \in DOMAIN PROFILES /\ v4 \in DOMAIN PROFILES
  BY DEF G!Inv, G!TypeOK
<1>2. PROFILES \in Seq(Nat)
  BY ToolsAssumption DEF G!SizeConstants
<1>3. DOMAIN PROFILES = 1 .. Len(PROFILES) /\ Len(PROFILES) \in Nat
  BY <1>2
<1> QED BY <1>1, <1>2, <1>3, SizeTypes

LEMMA SizesStep == G!Inv /\ [G!Next]_(G!vars) => G!Inv'
<1> SUFFICES ASSUME G!Inv, [G!Next]_(G!vars) PROVE G!Inv'
  OBVIOUS
<1>1. /\ v2 \in PixelShape /\ v3 \in Nat /\ v4 \in Nat /\ PROFILES[v4] \in Nat
      /\ DOMAIN PROFILES = 1 .. Len(PROFILES) /\ Len(PROFILES) \in Nat
  BY SizeFacts
<1>2. CASE G!MissingSize
  BY <1>2 DEF G!MissingSize, G!Inv, G!TypeOK
<1>3. CASE G!TryProfile
  <2>1. PICK t \in G!Targets(v2, PROFILES[v4]) :
            IF v1 = "prompt" \/ G!Fits(v2, t)
            THEN /\ v5' = "found" /\ v6' = t /\ v4' = v4
                 /\ v7' = IF v1 = "prompt" THEN G!Tag(v2, t) ELSE "none"
            ELSE /\ IF v4 < Len(PROFILES) THEN v4' = v4 + 1 /\ v5' = v5
                                          ELSE v5' = "raised" /\ v4' = v4
                 /\ v6' = v6 /\ v7' = v7
    BY <1>3 DEF G!TryProfile
  <2>2. v1' = v1 /\ v2' = v2 /\ v3' = v3 /\ v5 = "try" /\ v2.w > 0 /\ v2.h > 0
    BY <1>3 DEF G!TryProfile
  <2>3. t \in [w : Nat, h : Nat]
    BY <1>1, <2>2, TargetType
  <2>4. G!Tag(v2, t) \in {"none", "Forced Upscaling", "Resolution Matches"}
    <3>1. v2.w \in Nat /\ t.w \in Nat
      BY <1>1, <2>3 DEF PixelShape
    <3>2. t.w > v2.w \/ t.w = v2.w \/ t.w < v2.w
      BY <3>1
    <3> QED BY <3>1, <3>2 DEF G!Tag
  <2>5. CASE v1 = "prompt" \/ G!Fits(v2, t)
    BY <1>1, <2>1, <2>2, <2>3, <2>4, <2>5 DEF G!Inv, G!TypeOK
  <2>6. CASE ~ (v1 = "prompt" \/ G!Fits(v2, t))
    <3>1. v6' = v6 /\ v7' = v7 /\ v4' \in DOMAIN PROFILES /\ v3 <= v4' /\ v5' \in {"try", "raised"}
      <4>1. /\ IF v4 < Len(PROFILES) THEN v4' = v4 + 1 /\ v5' = v5
                                     ELSE v5' = "raised" /\ v4' = v4
            /\ v6' = v6 /\ v7' = v7
        BY <2>1, <2>6
      <4>2. v3 <= v4 /\ v4 \in DOMAIN PROFILES
        BY DEF G!Inv, G!TypeOK
      <4> QED BY <1>1, <2>2, <4>1, <4>2
    <3>2. ASSUME NEW p \in v3 .. v4', p < v4' \/ v5' = "raised"
          PROVE  \E u \in G!Targets(v2, PROFILES[p]) : ~ G!Fits(v2, u)
      <4>1. CASE p < v4
        <5>1. v1 = "encode" /\ p \in v3 .. v4
          <6>1. v1 = "encode"
            BY <2>6 DEF G!Inv, G!TypeOK
          <6>2. p \in Int /\ v3 <= p
            BY <3>2
          <6> QED BY <1>1, <4>1, <6>1, <6>2
        <5> QED BY <4>1, <5>1 DEF G!Inv
      <4>2. CASE p = v4
        BY <2>6, <4>2
      <4> QED BY <1>1, <2>1, <2>2, <2>6, <3>2, <4>1, <4>2
    <3> QED BY <2>2, <3>1, <3>2 DEF G!Inv, G!TypeOK
  <2> QED BY <2>5, <2>6
<1>4. CASE UNCHANGED G!vars
  BY <1>4 DEF G!vars, G!Inv, G!TypeOK
<1> QED BY <1>2, <1>3, <1>4 DEF G!Next

LEMMA SizesHold == Spec => [](program = "calc_target_resolution" => G!Inv)
<1>1. Init => (program = "calc_target_resolution" => G!Inv)
  BY SizesInit DEF Init
<1>2. (program = "calc_target_resolution" => G!Inv) /\ [Next]_vars
         => (program = "calc_target_resolution" => G!Inv)'
  BY ProgramStep, SizesStep
<1> QED BY <1>1, <1>2, PTL DEF Spec

\* TargetFits: calc_target_resolution and the loop over the profiles never
\* enlarge a video, give up no profile without need and keep the shape.
THEOREM TargetFitsSound == Spec => []TargetFits
<1>1. (program = "calc_target_resolution" => G!Inv) => TargetFits
  <2> SUFFICES ASSUME G!Inv PROVE G!TargetFits
    BY DEF TargetFits
  <2>1. v2 \in PixelShape /\ PROFILES[v4] \in Nat /\ v3 \in Nat /\ v4 \in Nat
    BY SizeFacts
  <2>2. v1 = "encode" /\ v5 = "found" => v6.w <= v2.w /\ v6.h <= v2.h
    BY DEF G!Inv, G!Fits
  <2>3. ASSUME v1 = "encode", v5 \in {"found", "raised"},
               NEW p \in v3 .. v4, p < v4 \/ v5 = "raised"
        PROVE  \E u \in G!Targets(v2, PROFILES[p]) : u.w > v2.w \/ u.h > v2.h
    <3>1. PICK u \in G!Targets(v2, PROFILES[p]) : ~ G!Fits(v2, u)
      BY <2>3 DEF G!Inv
    <3>2. PROFILES[p] \in Nat
      <4>1. v3 \in DOMAIN PROFILES /\ v4 \in DOMAIN PROFILES
        BY DEF G!Inv, G!TypeOK
      <4>2. p \in DOMAIN PROFILES
        BY <2>1, <2>3, <4>1, SizeFacts
      <4> QED BY <4>2, SizeTypes
    <3>3. v2.w \in Nat /\ v2.h \in Nat
      BY <2>1 DEF PixelShape
    <3>4. u \in [w : Nat, h : Nat]
      <4>1. v2.w > 0 /\ v2.h > 0
        BY <2>3 DEF G!Inv
      <4> QED BY <2>1, <3>1, <3>2, <4>1, TargetType
    <3> QED BY <3>1, <3>3, <3>4 DEF G!Fits
  <2>4. v5 = "found" /\ (v2.num = v2.den \/ (G!Landscape(v2) /\ PROFILES[v4] > 0)) =>
          G!Abs(v6.w * v2.h * v2.den - v6.h * v2.w * v2.num) <= 8 * (v2.h * v2.den + v2.w * v2.num)
    <3>1. v5 = "found" => v2.w > 0 /\ v2.h > 0 /\ v6 \in G!Targets(v2, PROFILES[v4])
      BY DEF G!Inv
    <3> QED BY <2>1, <3>1, ShapeKept
  <2> QED BY <2>2, <2>3, <2>4 DEF G!TargetFits
<1> QED BY <1>1, SizesHold, PTL

-----------------------------------------------------------------------------
(* DeltaReport: v1 is pc, v2 installed, v3 listing, v4 futures, v5 taken,  *)
(* v6 results, v7 report.                                                  *)

\* The greatest first, of equals the first one first.
Before(z, i, j) == z[i] > z[j] \/ (z[i] = z[j] /\ i < j)

\* Indexes can be sorted.
LEMMA Sortable ==
    ASSUME NEW m \in Nat, NEW z, \A j \in 1 .. m : z[j] \in Int, NEW is, is \subseteq 1 .. m
    PROVE  /\ IsFiniteSet(is) /\ Cardinality(is) \in Nat
           /\ \E s \in [1 .. Cardinality(is) -> is] :
                 \A k, l \in 1 .. Cardinality(is) : k < l => Before(z, s[k], s[l])
<1> DEFINE Ordered(s, n, xs) ==
              s \in [1 .. n -> xs] /\ \A k, l \in 1 .. n : k < l => Before(z, s[k], s[l])
           N == {n \in Nat : \A xs \in SUBSET (1 .. m) :
                                Cardinality(xs) = n => \E s : Ordered(s, n, xs)}
<1>1. \A xs \in SUBSET (1 .. m) : IsFiniteSet(xs) /\ Cardinality(xs) \in Nat
  <2>1. IsFiniteSet(1 .. m)
    BY FS_Interval
  <2> QED BY <2>1, FS_Subset, FS_CardinalityType
<1>2. 0 \in N
  <2> SUFFICES ASSUME NEW xs PROVE \E s : Ordered(s, 0, xs)
    OBVIOUS
  <2>1. Ordered(<<>>, 0, xs)
    OBVIOUS
  <2> QED BY <2>1
<1>3. ASSUME NEW n \in Nat, n \in N PROVE n + 1 \in N
  <2> SUFFICES ASSUME NEW xs \in SUBSET (1 .. m), Cardinality(xs) = n + 1
               PROVE  \E s : Ordered(s, n + 1, xs)
    <3> HIDE DEF Ordered
    <3> QED OBVIOUS
  <2>1. xs # {}
    BY FS_EmptySet
  <2> DEFINE y == [j \in 1 .. m |-> 0 - z[j]]
  <2>2. PICK i \in xs : \A j \in xs : y[j] < y[i] \/ (y[j] = y[i] /\ j <= i)
    <3>1. \A j \in 1 .. m : y[j] \in Int
      OBVIOUS
    <3> HIDE DEF y
    <3> QED BY <2>1, <3>1, LastOne
  <2>3. \A j \in xs \ {i} : Before(z, j, i)
    <3> SUFFICES ASSUME NEW j \in xs \ {i} PROVE Before(z, j, i)
      OBVIOUS
    <3>1. j \in 1 .. m /\ i \in 1 .. m /\ z[i] \in Int /\ z[j] \in Int
      OBVIOUS
    <3>2. y[j] = 0 - z[j] /\ y[i] = 0 - z[i]
      BY <3>1
    <3>3. y[j] < y[i] \/ (y[j] = y[i] /\ j <= i)
      BY <2>2
    <3> HIDE DEF y
    <3> QED BY <3>1, <3>2, <3>3 DEF Before
  <2> HIDE DEF y
  <2> DEFINE ys == xs \ {i}
  <2>4. ys \in SUBSET (1 .. m) /\ Cardinality(ys) = n
    <3>1. IsFiniteSet(xs) /\ i \in xs
      BY <1>1, <2>2
    <3>2. Cardinality(xs \ {i}) = n + 1 - 1
      BY <3>1, FS_RemoveElement
    <3> HIDE DEF Ordered, N
    <3> QED BY <3>2
  <2>5. PICK s : Ordered(s, n, ys)
    <3> HIDE DEF Ordered, ys
    <3> QED BY <1>3, <2>4
  <2> DEFINE t == [k \in 1 .. n + 1 |-> IF k = n + 1 THEN i ELSE s[k]]
  <2>6. \A k \in 1 .. n : t[k] = s[k] /\ s[k] \in ys
    BY <2>5
  <2>7. t[n + 1] = i /\ \A k \in 1 .. n + 1 : k = n + 1 \/ k \in 1 .. n
    OBVIOUS
  <2>8. t \in [1 .. n + 1 -> xs]
    BY <2>6, <2>7
  <2>9. ASSUME NEW k \in 1 .. n + 1, NEW l \in 1 .. n + 1, k < l
        PROVE  Before(z, t[k], t[l])
    <3>1. k \in 1 .. n
      BY <2>9
    <3>2. CASE l = n + 1
      <4> HIDE DEF t
      <4> QED BY <2>3, <2>6, <2>7, <3>1, <3>2
    <3>3. CASE l # n + 1
      <4> HIDE DEF t
      <4> QED BY <2>5, <2>6, <2>7, <2>9, <3>1, <3>3
    <3> QED BY <3>2, <3>3
  <2>10. Ordered(t, n + 1, xs)
    <3> HIDE DEF t
    <3> QED BY <2>8, <2>9
  <2> QED BY <2>10
<1>4. Cardinality(is) \in N
  <2> HIDE DEF N
  <2> QED BY <1>1, <1>2, <1>3, Induction
<1>5. \E s : Ordered(s, Cardinality(is), is)
  <2> HIDE DEF Ordered
  <2> QED BY <1>4
<1> QED BY <1>1, <1>5

SourceShape == [w : Nat, h : Nat, size : Nat, duration : Nat, fps : Nat]

\* A size that is advised is not higher than the file and has its shape.
\* Which arm of the five of Flag720 is taken.
LEMMA OneArm ==
    ASSUME NEW A \in BOOLEAN, NEW B \in BOOLEAN, NEW P \in BOOLEAN, NEW Q \in BOOLEAN,
           NEW E \in BOOLEAN, NEW a, NEW b, NEW p, NEW q, NEW e
    PROVE  LET arm == CASE A -> a [] B -> b [] P -> p [] Q -> q [] E -> e
           IN  /\ A /\ ~ B /\ ~ P /\ ~ Q /\ ~ E => arm = a
               /\ ~ A /\ B /\ ~ P /\ ~ Q /\ ~ E => arm = b
               /\ ~ A /\ ~ B /\ P /\ ~ Q /\ ~ E => arm = p
               /\ ~ A /\ ~ B /\ ~ P /\ Q /\ ~ E => arm = q
               /\ ~ A /\ ~ B /\ ~ P /\ ~ Q /\ E => arm = e
OBVIOUS

LEMMA ShapeAdvised ==
    ASSUME NEW s \in SourceShape
    PROVE  /\ L!Flag720(s) \in L!Advice /\ L!Flag480(s) \in L!Advice
           /\ \A flag \in {L!Flag720(s), L!Flag480(s)} :
                 flag.advice \in {"RECOMMEND", "NON-SQUARE"} =>
                     flag.h <= s.h /\ L!Shape(flag) = L!Shape(s)
<1>1. s.w \in Nat /\ s.h \in Nat /\ (s.h < 720 \/ s.h >= 720) /\ (s.h < 480 \/ s.h >= 480)
  BY DEF SourceShape
<1>2. L!Shape(s) \in {"16:9", "4:3", "other"}
  BY DEF L!Shape
<1>3. ASSUME NEW word PROVE /\ L!Shape(L!Recommend(word, 1280, 720)) = "16:9"
                           /\ L!Shape(L!Recommend(word, 960, 720)) = "4:3"
                           /\ L!Shape(L!Recommend(word, 854, 480)) = "16:9"
                           /\ L!Shape(L!Recommend(word, 640, 480)) = "4:3"
  BY DEF L!Shape, L!Recommend, L!IsShape, L!Abs
<1> DEFINE Advised(flag) ==
              /\ flag \in L!Advice
              /\ flag.advice \in {"RECOMMEND", "NON-SQUARE"} =>
                     flag.h <= s.h /\ L!Shape(flag) = L!Shape(s)
<1>4. ASSUME NEW word \in {"TOO LOW", "OK", "MANUAL CHECK"} PROVE Advised(L!Only(word))
  <2>1. L!Only(word) = [advice |-> word] /\ L!Only(word).advice = word
    BY DEF L!Only
  <2> QED BY <2>1 DEF L!Advice
<1>5. ASSUME NEW word \in {"RECOMMEND", "NON-SQUARE"}, NEW w \in Nat, NEW h \in Nat, h <= s.h,
             L!Shape(L!Recommend(word, w, h)) = L!Shape(s)
      PROVE  Advised(L!Recommend(word, w, h))
  <2>1. L!Recommend(word, w, h) \in L!Advice /\ L!Recommend(word, w, h).h = h
    BY DEF L!Advice, L!Recommend
  <2> QED BY <1>5, <2>1
<1>6. Advised(L!Flag720(s))
  <2> DEFINE low == s.h < 720
             is == s.w = 1280 /\ s.h = 720
             wide == s.h >= 720 /\ L!Shape(s) = "16:9" /\ ~ (s.w = 1280 /\ s.h = 720)
             tv == s.h >= 720 /\ L!Shape(s) = "4:3"
             odd == s.h >= 720 /\ L!Shape(s) = "other"
             TooLow == L!Only("TOO LOW")
             Fine == L!Only("OK")
             Hd == L!Recommend("RECOMMEND", 1280, 720)
             Tv == L!Recommend("RECOMMEND", 960, 720)
             Odd == L!Only("MANUAL CHECK")
  <2>0. L!Flag720(s) = CASE low -> TooLow [] is -> Fine [] wide -> Hd [] tv -> Tv [] odd -> Odd
    BY DEF L!Flag720
  <2>1. CASE s.h < 720
    <3>1. L!Flag720(s) = L!Only("TOO LOW")
      <4>1. low /\ ~ is /\ ~ wide /\ ~ tv /\ ~ odd
        BY <1>1, <2>1
      <4>2. /\ low \in BOOLEAN /\ is \in BOOLEAN /\ wide \in BOOLEAN
            /\ tv \in BOOLEAN /\ odd \in BOOLEAN
        OBVIOUS
      <4> HIDE DEF low, is, wide, tv, odd, TooLow, Fine, Hd, Tv, Odd
      <4>3. L!Flag720(s) = TooLow
        BY <2>0, <4>1, <4>2, OneArm
      <4> QED BY <4>3 DEF TooLow
    <3> HIDE DEF Advised
    <3> QED BY <1>4, <3>1
  <2>2. CASE s.w = 1280 /\ s.h = 720
    <3>1. L!Flag720(s) = L!Only("OK")
      <4>1. ~ (s.h < 720)
        BY <1>1, <2>2
      <4>2. L!Shape(s) = "16:9"
        BY <2>2 DEF L!Shape, L!IsShape, L!Abs
      <4> QED BY <2>2, <4>1, <4>2 DEF L!Flag720
    <3> HIDE DEF Advised
    <3> QED BY <1>4, <3>1
  <2>3. CASE s.h >= 720 /\ ~ (s.w = 1280 /\ s.h = 720)
    <3>1. ~ (s.h < 720)
      BY <1>1, <2>3
    <3>2. CASE L!Shape(s) = "16:9"
      <4>1. L!Flag720(s) = L!Recommend("RECOMMEND", 1280, 720)
        BY <2>3, <3>1, <3>2 DEF L!Flag720
      <4> HIDE DEF Advised
      <4> QED BY <1>1, <1>3, <1>5, <2>3, <3>2, <4>1
    <3>3. CASE L!Shape(s) = "4:3"
      <4>1. L!Flag720(s) = L!Recommend("RECOMMEND", 960, 720)
        BY <2>3, <3>1, <3>3 DEF L!Flag720
      <4> HIDE DEF Advised
      <4> QED BY <1>1, <1>3, <1>5, <2>3, <3>3, <4>1
    <3>4. CASE L!Shape(s) = "other"
      <4>1. L!Flag720(s) = L!Only("MANUAL CHECK")
        <5>1. ~ low /\ ~ is /\ ~ wide /\ ~ tv /\ odd
          BY <2>3, <3>1, <3>4
        <5>2. /\ low \in BOOLEAN /\ is \in BOOLEAN /\ wide \in BOOLEAN
              /\ tv \in BOOLEAN /\ odd \in BOOLEAN
          OBVIOUS
        <5> HIDE DEF low, is, wide, tv, odd, TooLow, Fine, Hd, Tv, Odd
        <5>3. L!Flag720(s) = Odd
          BY <2>0, <5>1, <5>2, OneArm
        <5> QED BY <5>3 DEF Odd
      <4> HIDE DEF Advised
      <4> QED BY <1>4, <4>1
    <3> HIDE DEF Advised
    <3> QED BY <1>2, <3>2, <3>3, <3>4
  <2> HIDE DEF Advised
  <2> QED BY <1>1, <2>1, <2>2, <2>3
<1>7. Advised(L!Flag480(s))
  <2> DEFINE word == IF s.w = 720 /\ s.h = 480 THEN "NON-SQUARE" ELSE "RECOMMEND"
  <2>1. CASE s.h < 480
    <3>1. L!Flag480(s) = L!Only("TOO LOW")
      <4>1. ~ (s.h >= 480)
        BY <1>1, <2>1
      <4> QED BY <2>1, <4>1 DEF L!Flag480
    <3> HIDE DEF Advised
    <3> QED BY <1>4, <3>1
  <2>2. CASE s.h >= 480
    <3>1. ~ (s.h < 480)
      BY <1>1, <2>2
    <3>2. CASE L!Shape(s) = "16:9"
      <4>1. L!Flag480(s) = L!Recommend(word, 854, 480)
        BY <2>2, <3>1, <3>2 DEF L!Flag480
      <4> HIDE DEF Advised
      <4> QED BY <1>1, <1>3, <1>5, <2>2, <3>2, <4>1
    <3>3. CASE L!Shape(s) = "4:3"
      <4>1. L!Flag480(s) = L!Recommend(word, 640, 480)
        BY <2>2, <3>1, <3>3 DEF L!Flag480
      <4> HIDE DEF Advised
      <4> QED BY <1>1, <1>3, <1>5, <2>2, <3>3, <4>1
    <3>4. CASE L!Shape(s) = "other"
      <4>1. L!Flag480(s) = L!Only("MANUAL CHECK")
        BY <2>2, <3>1, <3>4 DEF L!Flag480
      <4> HIDE DEF Advised
      <4> QED BY <1>4, <4>1
    <3> HIDE DEF Advised
    <3> QED BY <1>2, <3>2, <3>3, <3>4
  <2> HIDE DEF Advised
  <2> QED BY <1>1, <2>1, <2>2
<1> QED BY <1>6, <1>7

LEMMA SameReportCounts ==
    /\ \A X : L!Cardinality(X) = Cardinality(X) /\ (L!IsFiniteSet(X) <=> IsFiniteSet(X))
    /\ \A s, x : x \in L!ToSet(s) <=> \E i \in DOMAIN s : s[i] = x
BY DEF L!Cardinality, Cardinality, L!IsFiniteSet, IsFiniteSet, L!ToSet

Running(f) == {j \in DOMAIN f : f[j] = "running"}

ReportRow == [entry : DOMAIN v3, save : Int, hd : L!Advice, sd : L!Advice]

FutureStates == {"pending", "running", "none", "result", "exit"}

LEMMA ReportFacts ==
    ASSUME L!Inv
    PROVE  /\ Len(v3) \in Nat /\ DOMAIN v3 = 1 .. Len(v3) /\ DOMAIN v4 = DOMAIN v3
           /\ \A i \in DOMAIN v3 : L!SourceAt(i) \in SourceShape /\ L!Saving(L!SourceAt(i)) \in Int
           /\ v5 \in 0 .. Len(v3)
           /\ v4 \in [DOMAIN v3 -> FutureStates]
           /\ IsFiniteSet(Running(v4)) /\ Cardinality(Running(v4)) \in Nat
           /\ Cardinality(Running(v4)) <= MaxWorkers /\ MaxWorkers \in Nat
<1>1. v3 \in ReportListings /\ v5 \in 0 .. Len(v3) /\ v4 \in [DOMAIN v3 -> FutureStates]
      /\ Cardinality(Running(v4)) <= MaxWorkers
  BY SameReportCounts DEF L!Inv, L!TypeOK, FutureStates, Running
<1>2. v3 \in Seq(DOMAIN Source) /\ Source \in [DOMAIN Source -> SourceShape] /\ MaxWorkers \in Nat
  BY <1>1, ToolsAssumption DEF L!ReportConstants, SourceShape
<1>3. Len(v3) \in Nat /\ DOMAIN v3 = 1 .. Len(v3) /\ \A i \in DOMAIN v3 : v3[i] \in DOMAIN Source
  BY <1>2
<1>4. \A s \in SourceShape : L!Saving(s) \in Int
  BY DEF SourceShape, L!Saving
<1>5. \A i \in DOMAIN v3 : L!SourceAt(i) \in SourceShape
  BY <1>2, <1>3 DEF L!SourceAt
<1>6. IsFiniteSet(Running(v4)) /\ Cardinality(Running(v4)) \in Nat
  <2>1. Running(v4) \subseteq 1 .. Len(v3)
    BY <1>1, <1>3 DEF Running
  <2>2. IsFiniteSet(1 .. Len(v3))
    BY <1>3, FS_Interval
  <2> QED BY <2>1, <2>2, FS_Subset, FS_CardinalityType
<1> QED BY <1>1, <1>2, <1>3, <1>4, <1>5, <1>6

\* The rows are printed in the order of Above, and none is left out.
LEMMA SortedFacts ==
    ASSUME L!Inv, NEW is, is \subseteq DOMAIN v3, NEW s, s = L!Sorted(is)
    PROVE  \E n \in Nat : /\ s \in [1 .. n -> is]
                          /\ \A k, l \in 1 .. n : k < l => L!Above(s[k], s[l])
                          /\ \A i \in is : \E k \in 1 .. n : s[k] = i
<1> DEFINE z == [i \in DOMAIN v3 |-> L!Saving(L!SourceAt(i))]
           m == Len(v3)
           n == Cardinality(is)
<1>1. m \in Nat /\ DOMAIN v3 = 1 .. m /\ (\A j \in 1 .. m : z[j] \in Int) /\ is \subseteq 1 .. m
  BY ReportFacts
<1>2. \A i, j \in is : Before(z, i, j) <=> L!Above(i, j)
  BY DEF Before, L!Above
<1> HIDE DEF z, m
<1>3. /\ IsFiniteSet(is) /\ n \in Nat
      /\ \E t \in [1 .. n -> is] : \A k, l \in 1 .. n : k < l => Before(z, t[k], t[l])
  BY <1>1, Sortable
<1> HIDE DEF n
<1>4. PICK t \in [1 .. n -> is] : \A k, l \in 1 .. n : k < l => L!Above(t[k], t[l])
  BY <1>2, <1>3
<1>5. s \in [1 .. n -> is] /\ \A k, l \in 1 .. n : k < l => L!Above(s[k], s[l])
  BY <1>4, SameReportCounts DEF L!Sorted, n
<1>6. \A i \in is : ~ L!Above(i, i)
  <2> SUFFICES ASSUME NEW i \in is PROVE ~ L!Above(i, i)
    OBVIOUS
  <2>1. i \in Int /\ L!Saving(L!SourceAt(i)) \in Int
    BY <1>1, ReportFacts
  <2> QED BY <2>1 DEF L!Above
<1>7. s \in Injection(1 .. n, is)
  <2>1. ASSUME NEW k \in 1 .. n, NEW l \in 1 .. n, s[k] = s[l] PROVE k = l
    <3>1. ~ (k < l) /\ ~ (l < k)
      BY <1>5, <1>6, <2>1
    <3> QED BY <3>1
  <2> QED BY <1>5, <2>1 DEF Injection, IsInjective
<1>8. s \in Surjection(1 .. n, is)
  <2>1. Cardinality(1 .. n) = n
    BY <1>3, FS_Interval
  <2> QED BY <1>3, <1>7, <2>1, FS_Injection DEF n
<1>9. \A i \in is : \E k \in 1 .. n : s[k] = i
  BY <1>8 DEF Surjection
<1> QED BY <1>3, <1>5, <1>9

LEMMA ReportInit == L!Init => L!Inv
<1> SUFFICES ASSUME L!Init PROVE L!Inv
  OBVIOUS
<1>1. v3 \in Seq(DOMAIN Source) /\ MaxWorkers \in Nat
  BY ToolsAssumption DEF L!Init, L!ReportConstants
<1>2. Len(v3) \in Nat /\ DOMAIN v3 = 1 .. Len(v3)
  BY <1>1
<1>3. Running(v4) = {}
  BY DEF Running, L!Init
<1>4. L!TypeOK
  <2>1. /\ v1 = "pool" /\ v2 \in BOOLEAN /\ v3 \in ReportListings /\ v5 = 0
        /\ v4 = [i \in DOMAIN v3 |-> "pending"] /\ v6 = <<>> /\ v7 = <<>>
    BY DEF L!Init
  <2>2. L!Cardinality({i \in DOMAIN v4 : v4[i] = "running"}) <= MaxWorkers
    BY <1>1, <1>3, SameReportCounts, FS_EmptySet DEF Running
  <2>3. v4 \in [DOMAIN v3 -> {"pending", "running", "none", "result", "exit"}]
    BY <2>1
  <2>4. v5 \in 0 .. Len(v3)
    BY <1>2, <2>1
  <2> QED BY <2>1, <2>2, <2>3, <2>4 DEF L!TypeOK
<1>5. L!ToSet(v6) = {i \in L!Found : i <= v5}
  BY SameReportCounts DEF L!Init, L!Found
<1> QED BY <1>2, <1>4, <1>5 DEF L!Init, L!Inv

\* A step of the pool: one future changes.
LEMMA PoolStep ==
    ASSUME L!Inv, NEW i \in DOMAIN v4, NEW a \in FutureStates \ {"pending"},
           v4' = [v4 EXCEPT ![i] = a],
           v1' = v1, v2' = v2, v3' = v3, v5' = v5, v6' = v6, v7' = v7,
           v4[i] \in {"pending", "running"},
           a = "running" => Cardinality(Running(v4)) < MaxWorkers,
           a = "exit" => ~ v2, a = "result" => v2
    PROVE  L!Inv'
<1>1. /\ Len(v3) \in Nat /\ DOMAIN v3 = 1 .. Len(v3) /\ DOMAIN v4 = DOMAIN v3
      /\ v4 \in [DOMAIN v3 -> FutureStates]
      /\ IsFiniteSet(Running(v4)) /\ Cardinality(Running(v4)) \in Nat
      /\ Cardinality(Running(v4)) <= MaxWorkers /\ MaxWorkers \in Nat
  BY ReportFacts
<1>2. v4' \in [DOMAIN v3 -> FutureStates] /\ v4'[i] = a /\ \A j \in DOMAIN v4 \ {i} : v4'[j] = v4[j]
  BY <1>1
<1>3. Cardinality(Running(v4')) <= MaxWorkers
  <2>1. CASE a = "running"
    <3>1. Running(v4') = Running(v4) \cup {i}
      BY <1>1, <1>2, <2>1 DEF Running
    <3> DEFINE X == Running(v4)
               Y == Running(v4')
    <3>2. IsFiniteSet(X) /\ Cardinality(X) \in Nat /\ Y = X \cup {i}
      BY <1>1, <3>1
    <3>3. Cardinality(X) < MaxWorkers
      BY <2>1
    <3> HIDE DEF X, Y
    <3>4. Cardinality(Y) = IF i \in X THEN Cardinality(X) ELSE Cardinality(X) + 1
      BY <3>2, FS_AddElement
    <3>5. Cardinality(Y) <= MaxWorkers
      BY <1>1, <3>2, <3>3, <3>4
    <3> QED BY <3>5 DEF Y
  <2>2. CASE a # "running"
    <3>1. Running(v4') \subseteq Running(v4)
      BY <1>1, <1>2, <2>2 DEF Running
    <3>2. Cardinality(Running(v4')) <= Cardinality(Running(v4))
      BY <1>1, <3>1, FS_Subset
    <3>3. IsFiniteSet(Running(v4')) /\ Cardinality(Running(v4')) \in Nat
      BY <1>1, <3>1, FS_Subset, FS_CardinalityType
    <3> QED BY <1>1, <3>2, <3>3
  <2> QED BY <2>1, <2>2
<1>4. L!TypeOK'
  BY <1>1, <1>2, <1>3, SameReportCounts DEF L!Inv, L!TypeOK, FutureStates, Running, L!Advice
<1>5. ~ (i <= v5) /\ v1 \notin {"print", "ended"}
  BY DEF L!Inv
<1>6. {j \in L!Found' : j <= v5} = {j \in L!Found : j <= v5}
  BY <1>1, <1>2, <1>5 DEF L!Found
<1>7. \A j \in DOMAIN v4' : /\ v4'[j] = "exit" => ~ v2'
                            /\ v4'[j] = "result" => v2'
                            /\ j <= v5' => v4'[j] \in {"none", "result"}
  BY <1>1, <1>2, <1>5 DEF L!Inv
<1>8. L!ToSet(v6') = {j \in L!Found' : j <= v5'}
  BY <1>6 DEF L!Inv
<1> QED BY <1>4, <1>5, <1>7, <1>8 DEF L!Inv

LEMMA OtherPoolSteps ==
    ASSUME L!Inv, L!Take \/ L!Probe \/ L!ProbeFails \/ L!NotInstalled
    PROVE  L!Inv'
<1>1. CASE L!Take
  <2>1. PICK i \in DOMAIN v4 :
           /\ v4[i] = "pending" /\ v4' = [v4 EXCEPT ![i] = "running"]
           /\ L!Cardinality({j \in DOMAIN v4 : v4[j] = "running"}) < MaxWorkers
    BY <1>1 DEF L!Take
  <2>2. Cardinality(Running(v4)) < MaxWorkers
    BY <2>1, SameReportCounts DEF Running
  <2>3. v1' = v1 /\ v2' = v2 /\ v3' = v3 /\ v5' = v5 /\ v6' = v6 /\ v7' = v7
    BY <1>1 DEF L!Take
  <2>4. "running" \in FutureStates \ {"pending"}
    BY DEF FutureStates
  <2> QED BY <2>1, <2>2, <2>3, <2>4, PoolStep
<1>2. CASE L!Probe \/ L!ProbeFails \/ L!NotInstalled
  <2>1. PICK i \in DOMAIN v4, a \in {"none", "result", "exit"} :
           /\ v4[i] = "running" /\ v4' = [v4 EXCEPT ![i] = a]
           /\ a = "exit" => ~ v2
           /\ a = "result" => v2
    BY <1>2 DEF L!Probe, L!ProbeFails, L!NotInstalled, L!Finish
  <2>2. v1' = v1 /\ v2' = v2 /\ v3' = v3 /\ v5' = v5 /\ v6' = v6 /\ v7' = v7
    BY <1>2 DEF L!Probe, L!ProbeFails, L!NotInstalled, L!Finish
  <2>3. a \in FutureStates \ {"pending"} /\ a # "running"
    BY <2>1 DEF FutureStates
  <2> QED BY <2>1, <2>2, <2>3, PoolStep
<1> QED BY <1>1, <1>2

LEMMA CollectStep == L!Inv /\ L!Collect => L!Inv'
<1> SUFFICES ASSUME L!Inv, L!Collect PROVE L!Inv'
  OBVIOUS
<1> DEFINE n == v5 + 1
<1>1. /\ v1 = "pool" /\ v5 < Len(v3) /\ v4[n] \in {"none", "result"}
      /\ v5' = n /\ v6' = IF v4[n] = "result" THEN Append(v6, n) ELSE v6
      /\ v1' = v1 /\ v2' = v2 /\ v3' = v3 /\ v4' = v4 /\ v7' = v7
  BY DEF L!Collect
<1>2. /\ Len(v3) \in Nat /\ DOMAIN v3 = 1 .. Len(v3) /\ DOMAIN v4 = DOMAIN v3 /\ v5 \in Nat
      /\ n \in DOMAIN v3 /\ n \in 0 .. Len(v3)
      /\ \A j \in DOMAIN v4 : j \in Nat /\ (j <= n <=> j <= v5 \/ j = n)
  BY <1>1, ReportFacts
<1>3. v6 \in Seq(DOMAIN v3) /\ L!ToSet(v6) = {j \in L!Found : j <= v5}
  BY DEF L!Inv, L!TypeOK
<1> HIDE DEF n
<1>4. v6' \in Seq(DOMAIN v3) /\ L!ToSet(v6') = {j \in L!Found : j <= n}
  <2>1. CASE v4[n] = "result"
    <3> DEFINE w == Append(v6, n)
               l == Len(v6)
    <3>1. v6' = w
      BY <1>1, <2>1
    <3>2. /\ l \in Nat /\ DOMAIN v6 = 1 .. l /\ w \in Seq(DOMAIN v3) /\ DOMAIN w = 1 .. l + 1
          /\ w[l + 1] = n /\ \A k \in 1 .. l : w[k] = v6[k]
      BY <1>2, <1>3, AppendProperties
    <3>3. \A k : k \in 1 .. l + 1 <=> k \in 1 .. l \/ k = l + 1
      BY <3>2
    <3> HIDE DEF w, l
    <3>4. \A x : x \in L!ToSet(w) <=> x \in L!ToSet(v6) \/ x = n
      BY <3>2, <3>3, SameReportCounts
    <3>5. n \in L!Found /\ \A j \in L!Found : j \in DOMAIN v4
      BY <1>2, <2>1 DEF L!Found
    <3>6. \A x : x \in L!ToSet(w) <=> x \in L!Found /\ x <= n
      BY <1>2, <1>3, <3>4, <3>5
    <3> QED BY <3>1, <3>2, <3>6
  <2>2. CASE v4[n] # "result"
    <3>1. v6' = v6
      BY <1>1, <2>2
    <3>2. n \notin L!Found /\ \A j \in L!Found : j \in DOMAIN v4
      BY <2>2 DEF L!Found
    <3> QED BY <1>2, <1>3, <3>1, <3>2
  <2> QED BY <2>1, <2>2
<1>5. L!Found' = L!Found
  BY <1>1 DEF L!Found
<1>6. L!TypeOK'
  BY <1>1, <1>2, <1>4 DEF L!Inv, L!TypeOK, L!Advice
<1>7. \A j \in DOMAIN v4' : /\ v4'[j] = "exit" => ~ v2'
                            /\ v4'[j] = "result" => v2'
                            /\ j <= v5' => v4'[j] \in {"none", "result"}
  BY <1>1, <1>2 DEF L!Inv
<1>8. L!ToSet(v6') = {j \in L!Found' : j <= v5'}
  BY <1>1, <1>4, <1>5
<1> QED BY <1>1, <1>6, <1>7, <1>8 DEF L!Inv

LEMMA PrintStep == L!Inv /\ L!PrintReport => L!Inv'
<1> SUFFICES ASSUME L!Inv, L!PrintReport PROVE L!Inv'
  OBVIOUS
<1> DEFINE is == L!ToSet(v6)
           s == L!Sorted(is)
<1>1. /\ v1 = "print" /\ v1' = "ended" /\ v7' = [k \in DOMAIN s |-> L!Row(s[k])]
      /\ v2' = v2 /\ v3' = v3 /\ v4' = v4 /\ v5' = v5 /\ v6' = v6
  BY DEF L!PrintReport
<1>2. is = L!Found /\ is \subseteq DOMAIN v3
  <2>1. v5 = Len(v3) /\ is = {j \in L!Found : j <= v5}
    BY <1>1 DEF L!Inv
  <2>2. \A j \in L!Found : j \in DOMAIN v3 /\ j <= Len(v3)
    BY ReportFacts DEF L!Found
  <2> QED BY <2>1, <2>2
<1> HIDE DEF is
<1>3. PICK n \in Nat : /\ s \in [1 .. n -> is]
                       /\ \A k, l \in 1 .. n : k < l => L!Above(s[k], s[l])
                       /\ \A i \in is : \E k \in 1 .. n : s[k] = i
  <2>1. is \subseteq DOMAIN v3 /\ s = L!Sorted(is)
    BY <1>2
  <2> HIDE DEF s
  <2> QED BY <2>1, SortedFacts
<1> HIDE DEF s
<1>4. \A i \in DOMAIN v3 : L!Row(i) \in ReportRow /\ L!Row(i).entry = i
  BY ReportFacts, ShapeAdvised DEF L!Row, ReportRow
<1>5. /\ v7' \in [1 .. n -> ReportRow]
      /\ \A k \in 1 .. n : v7'[k] = L!Row(s[k]) /\ v7'[k].entry = s[k] /\ s[k] \in is
  BY <1>1, <1>2, <1>3, <1>4
<1>6. v7' \in Seq(ReportRow) /\ DOMAIN v7' = 1 .. n
  <2>1. v7' \in [1 .. n -> ReportRow]
    BY <1>5
  <2> QED BY <2>1
<1>7. L!TypeOK'
  BY <1>1, <1>6 DEF L!Inv, L!TypeOK, ReportRow, L!Advice
<1>8. {v7'[k].entry : k \in DOMAIN v7'} = L!Found
  BY <1>2, <1>3, <1>5, <1>6
<1>9. \A i, j : (L!Row(i))' = L!Row(i) /\ (L!Above(i, j))' = L!Above(i, j)
  BY <1>1 DEF L!Row, L!Above, L!SourceAt
<1>10. L!Found' = L!Found
  BY <1>1 DEF L!Found
<1>11. /\ \A k \in DOMAIN v7' : v7'[k] = (L!Row(v7[k].entry))'
       /\ \A k, l \in DOMAIN v7' : k < l => (L!Above(v7[k].entry, v7[l].entry))'
  <2>1. \A k \in DOMAIN v7' : v7'[k] = L!Row(v7'[k].entry)
    BY <1>5, <1>6
  <2>2. \A k, l \in DOMAIN v7' : k < l => L!Above(v7'[k].entry, v7'[l].entry)
    BY <1>3, <1>5, <1>6
  <2> QED BY <1>1, <2>1, <2>2 DEF L!Row, L!Above, L!SourceAt
<1> QED BY <1>1, <1>7, <1>8, <1>10, <1>11 DEF L!Inv

LEMMA OtherReportSteps ==
    ASSUME L!Inv, L!CollectExit \/ L!LeavePool \/ UNCHANGED L!vars
    PROVE  L!Inv'
<1>1. CASE UNCHANGED L!vars
  <2>1. /\ v1' = v1 /\ v2' = v2 /\ v3' = v3 /\ v4' = v4 /\ v5' = v5 /\ v6' = v6 /\ v7' = v7
    BY <1>1 DEF L!vars
  <2>2. L!TypeOK'
    BY <2>1 DEF L!Inv, L!TypeOK, L!Advice
  <2>3. L!Found' = L!Found
    BY <2>1 DEF L!Found
  <2>4. v1' = "ended" =>
          /\ {v7'[k].entry : k \in DOMAIN v7'} = L!Found'
          /\ \A k \in DOMAIN v7' : v7'[k] = (L!Row(v7[k].entry))'
          /\ \A k, l \in DOMAIN v7' : k < l => (L!Above(v7[k].entry, v7[l].entry))'
    <3> SUFFICES ASSUME v1 = "ended" PROVE
          /\ {v7'[k].entry : k \in DOMAIN v7'} = L!Found'
          /\ \A k \in DOMAIN v7' : v7'[k] = (L!Row(v7[k].entry))'
          /\ \A k, l \in DOMAIN v7' : k < l => (L!Above(v7[k].entry, v7[l].entry))'
      BY <2>1
    <3>1. /\ {v7[k].entry : k \in DOMAIN v7} = L!Found
          /\ \A k \in DOMAIN v7 : v7[k] = L!Row(v7[k].entry)
          /\ \A k, l \in DOMAIN v7 : k < l => L!Above(v7[k].entry, v7[l].entry)
      BY DEF L!Inv
    <3> QED BY <2>1, <2>3, <3>1 DEF L!Row, L!Above, L!SourceAt
  <2> QED BY <2>1, <2>2, <2>3, <2>4 DEF L!Inv
<1>2. CASE L!CollectExit
  <2>1. /\ v1' = "unwind" /\ v2' = v2 /\ v3' = v3 /\ v4' = v4 /\ v5' = v5 /\ v6' = v6 /\ v7' = v7
        /\ v5 < Len(v3) /\ v4[v5 + 1] = "exit" /\ v1 = "pool"
    BY <1>2 DEF L!CollectExit
  <2>2. v5 + 1 \in DOMAIN v4
    BY <2>1, ReportFacts
  <2>3. ~ v2
    BY <2>1, <2>2 DEF L!Inv
  <2>4. L!TypeOK'
    BY <2>1 DEF L!Inv, L!TypeOK, L!Advice
  <2>5. L!Found' = L!Found
    BY <2>1 DEF L!Found
  <2>6. v7 = <<>>
    BY <2>1 DEF L!Inv
  <2> QED BY <2>1, <2>3, <2>4, <2>5, <2>6 DEF L!Inv
<1>3. CASE L!LeavePool
  <2>1. /\ v2' = v2 /\ v3' = v3 /\ v4' = v4 /\ v5' = v5 /\ v6' = v6 /\ v7' = v7
        /\ \A i \in DOMAIN v4 : v4[i] \in {"none", "result", "exit"}
        /\ \/ v1 = "pool" /\ v5 = Len(v3) /\ v1' = "print"
           \/ v1 = "unwind" /\ v1' = "ended"
    BY <1>3 DEF L!LeavePool
  <2>2. L!TypeOK'
    BY <2>1 DEF L!Inv, L!TypeOK, L!Advice
  <2>3. L!Found' = L!Found
    BY <2>1 DEF L!Found
  <2>4. v1 = "unwind" => L!Found = {} /\ v7 = <<>>
    BY DEF L!Inv, L!Found
  <2> QED BY <2>1, <2>2, <2>3, <2>4 DEF L!Inv
<1> QED BY <1>1, <1>2, <1>3

LEMMA ReportStep == L!Inv /\ [L!Next]_(L!vars) => L!Inv'
BY OtherPoolSteps, CollectStep, PrintStep, OtherReportSteps DEF L!Next

LEMMA ReportHolds == Spec => [](program = "delta_calc_encode" => L!Inv)
<1>1. Init => (program = "delta_calc_encode" => L!Inv)
  BY ReportInit DEF Init
<1>2. (program = "delta_calc_encode" => L!Inv) /\ [Next]_vars
         => (program = "delta_calc_encode" => L!Inv)'
  BY ProgramStep, ReportStep
<1> QED BY <1>1, <1>2, PTL DEF Spec

\* ReportComplete: whatever order the threads answer in, the report of
\* delta_calc_encode has each file worth encoding once, sorted, with sizes
\* that fit the file.
THEOREM ReportCompleteSound == Spec => []ReportComplete
<1>1. (program = "delta_calc_encode" => L!Inv) => ReportComplete
  <2> SUFFICES ASSUME L!Inv, v1 = "ended" PROVE L!ReportComplete
    BY DEF ReportComplete, L!ReportComplete
  <2>1. /\ {v7[k].entry : k \in DOMAIN v7} = L!Found
        /\ \A k \in DOMAIN v7 : v7[k] = L!Row(v7[k].entry)
        /\ \A k, l \in DOMAIN v7 : k < l => L!Above(v7[k].entry, v7[l].entry)
        /\ \A i \in DOMAIN v4 : v4[i] = "result" => v2
    BY DEF L!Inv
  <2>2. L!Found = {i \in DOMAIN v4 : v2 /\ v4[i] = "result"}
    BY <2>1 DEF L!Found
  <2>3. \A k \in DOMAIN v7 : v7[k].entry \in DOMAIN v3 /\ v7[k].entry \in Nat
    BY <2>1, ReportFacts DEF L!Found
  <2>4. \A k \in DOMAIN v7 : /\ v7[k].save = L!Saving(L!SourceAt(v7[k].entry))
                             /\ v7[k].hd = L!Flag720(L!SourceAt(v7[k].entry))
                             /\ v7[k].sd = L!Flag480(L!SourceAt(v7[k].entry))
    BY <2>1 DEF L!Row
  <2>5. ASSUME NEW k \in DOMAIN v7, NEW l \in DOMAIN v7, k < l
        PROVE  v7[k].entry # v7[l].entry /\ v7[k].save >= v7[l].save
    <3>1. L!Above(v7[k].entry, v7[l].entry)
      BY <2>1, <2>5
    <3>2. v7[k].save \in Int /\ v7[l].save \in Int
      BY <2>3, <2>4, ReportFacts
    <3> QED BY <2>3, <2>4, <3>1, <3>2 DEF L!Above
  <2>6. ASSUME NEW k \in DOMAIN v7, NEW flag \in {v7[k].hd, v7[k].sd},
               flag.advice \in {"RECOMMEND", "NON-SQUARE"}
        PROVE  /\ flag.h <= L!SourceAt(v7[k].entry).h
               /\ L!Shape(flag) = L!Shape(L!SourceAt(v7[k].entry))
    <3>1. L!SourceAt(v7[k].entry) \in SourceShape
      BY <2>3, ReportFacts
    <3> QED BY <2>4, <2>6, <3>1, ShapeAdvised
  <2> QED BY <2>1, <2>2, <2>5, <2>6 DEF L!ReportComplete
<1> QED BY <1>1, ReportHolds, PTL

-----------------------------------------------------------------------------
(* Type correctness.  Where the invariants above have no use for the type  *)
(* of a variable, it is added here.                                        *)

LEMMA CopyTypesInit == D!Init => D!TypeOK
BY ToolsAssumption DEF D!Init, D!TypeOK

LEMMA CopyTypesStep == D!TypeOK /\ [D!Next]_(D!vars) => D!TypeOK'
<1> SUFFICES ASSUME D!TypeOK, [D!Next]_(D!vars) PROVE D!TypeOK'
  OBVIOUS
<1>1. CASE D!WalkFind
  BY <1>1 DEF D!WalkFind, D!TypeOK, D!FindGroups, D!SameHash, D!Readable
<1>2. CASE D!WalkClean
  BY <1>2 DEF D!WalkClean, D!TypeOK, D!CleanGroups, D!SameHash, D!NoHash, D!Readable
<1>3. CASE D!ChooseKeeper
  BY <1>3 DEF D!ChooseKeeper, D!TypeOK
<1>4. CASE D!DeleteCopy
  BY <1>4 DEF D!DeleteCopy, D!TypeOK
<1>5. CASE D!AskDelete
  BY <1>5 DEF D!AskDelete, D!TypeOK
<1>6. CASE D!NextGroup \/ D!RemoveRaises \/ D!AllGroups
  BY <1>6 DEF D!NextGroup, D!RemoveRaises, D!AllGroups, D!TypeOK
<1>7. CASE UNCHANGED D!vars
  BY <1>7 DEF D!vars, D!TypeOK
<1> QED BY <1>1, <1>2, <1>3, <1>4, <1>5, <1>6, <1>7 DEF D!Next

\* GroupInv and PairInv say the rest of TypeOK.
VideoTypes ==
    /\ v1 \in {"probe", "audio", "frame", "confirm", "ended"}
    /\ v2 \subseteq Videos
    /\ v7 \in Seq(Videos)

LEMMA VideoTypesInit == V!Init => VideoTypes
BY DEF V!Init, VideoTypes

LEMMA VideoTypesStep == VideoTypes /\ V!Inv /\ [V!Next]_(V!vars) => VideoTypes'
<1> SUFFICES ASSUME VideoTypes, V!Inv, [V!Next]_(V!vars) PROVE VideoTypes'
  OBVIOUS
<1>1. V!PairInv'
  BY VideosStep DEF V!Inv
<1>2. CASE V!AudioCheck
  BY <1>1, <1>2 DEF V!AudioCheck, V!PairInv, VideoTypes
<1>3. CASE V!FrameCheck
  BY <1>3 DEF V!FrameCheck, VideoTypes
<1>4. CASE V!Confirm
  BY <1>4 DEF V!Confirm, VideoTypes
<1>5. CASE V!Probe \/ V!GroupsDone \/ V!ChecksDone \/ V!CheckExits \/ V!ConfirmDone
  BY <1>5 DEF V!Probe, V!GroupsDone, V!ChecksDone, V!CheckExits, V!ConfirmDone, VideoTypes
<1>6. CASE UNCHANGED V!vars
  BY <1>6 DEF V!vars, VideoTypes
<1> QED BY <1>2, <1>3, <1>4, <1>5, <1>6 DEF V!Next

LEMMA VideoTypesAll == VideoTypes /\ V!Inv => V!TypeOK
<1> SUFFICES ASSUME VideoTypes, V!GroupInv, V!PairInv PROVE V!TypeOK
  BY DEF V!Inv
<1>1. v6 \in Seq([key : Nat, files : Seq(Videos)])
  <2> DEFINE Some == [key : Nat, files : Seq(Videos) \ {<<>>}]
             Any == [key : Nat, files : Seq(Videos)]
  <2>1. v6 \in Seq(Some)
    BY DEF V!GroupInv
  <2>2. Some \subseteq Any
    OBVIOUS
  <2> HIDE DEF Some, Any
  <2>3. v6 = [i \in 1 .. Len(v6) |-> v6[i]] /\ Len(v6) \in Nat
    BY <2>1
  <2>4. \A i \in 1 .. Len(v6) : v6[i] \in Any
    BY <2>1, <2>2
  <2>5. [i \in 1 .. Len(v6) |-> v6[i]] \in Seq(Any)
    BY <2>3, <2>4
  <2>6. v6 \in Seq(Any)
    BY <2>3, <2>5, Zenon
  <2> QED BY <2>6 DEF Any
<1>2. v8 \subseteq v9 /\ \A e \in v9 : e \in Videos \X Videos
  BY DEF V!PairInv
<1>3. /\ v4 \in Seq(Videos) /\ v5 \subseteq Videos
      /\ v3 \in [duration : [Videos -> Durations], audio : [Videos -> Audio \cup {V!None}],
                 frame : [Videos -> Frame \cup {V!None}]]
  BY DEF V!GroupInv
<1> QED BY <1>1, <1>2, <1>3 DEF VideoTypes, V!TypeOK

-----------------------------------------------------------------------------

\* The elements of a finite set of numbers can be counted through.
Rank(X, j) == Cardinality({m \in X : m <= j})

LEMMA Ranks ==
    ASSUME NEW n \in Nat, NEW X, X \subseteq 1 .. n
    PROVE  \A k \in 1 .. Cardinality(X) : \E i \in X : Rank(X, i) = k
<1> DEFINE upto(j) == {m \in X : m <= j}
           N == {j \in Nat : j <= n => \A k \in 1 .. Rank(X, j) : \E i \in X : Rank(X, i) = k}
<1>0. \A m \in X : m \in Nat /\ 1 <= m /\ m <= n
  OBVIOUS
<1>1. \A j \in Nat : IsFiniteSet(upto(j)) /\ Cardinality(upto(j)) \in Nat
  <2> SUFFICES ASSUME NEW j \in Nat
               PROVE  IsFiniteSet(upto(j)) /\ Cardinality(upto(j)) \in Nat
    OBVIOUS
  <2>1. IsFiniteSet(1 .. n)
    BY FS_Interval
  <2>2. upto(j) \subseteq 1 .. n
    OBVIOUS
  <2> HIDE DEF upto
  <2> QED BY <2>1, <2>2, FS_Subset, FS_CardinalityType
<1>2. 0 \in N
  <2>1. upto(0) = {}
    <3>1. \A m \in X : ~ (m <= 0)
      BY <1>0
    <3> QED BY <3>1
  <2>2. Rank(X, 0) = 0
    BY <2>1, FS_EmptySet DEF Rank
  <2>3. 1 .. Rank(X, 0) = {}
    BY <2>2
  <2> QED BY <2>3
<1>3. ASSUME NEW j \in Nat, j \in N PROVE j + 1 \in N
  <2> SUFFICES ASSUME j + 1 <= n, NEW k \in 1 .. Rank(X, j + 1)
               PROVE  \E i \in X : Rank(X, i) = k
    BY DEF N
  <2>1. \A i \in 1 .. Rank(X, j) : \E m \in X : Rank(X, m) = i
    BY <1>3
  <2>2. CASE j + 1 \in X
    <3>1. upto(j + 1) = upto(j) \cup {j + 1} /\ j + 1 \notin upto(j)
      <4>1. \A m \in X : m <= j + 1 <=> m <= j \/ m = j + 1
        BY <1>0
      <4>2. j + 1 <= j + 1 /\ ~ (j + 1 <= j)
        OBVIOUS
      <4> QED BY <2>2, <4>1, <4>2
    <3>2. Rank(X, j + 1) = Rank(X, j) + 1 /\ Rank(X, j) \in Nat
      <4> HIDE DEF upto
      <4>1. Cardinality(upto(j) \cup {j + 1}) = Cardinality(upto(j)) + 1
        BY <1>1, <3>1, FS_AddElement
      <4> QED BY <1>1, <3>1, <4>1 DEF Rank, upto
    <3>3. k \in 1 .. Rank(X, j) \/ k = Rank(X, j + 1)
      BY <3>2
    <3> QED BY <2>1, <2>2, <3>3
  <2>3. CASE j + 1 \notin X
    <3>1. upto(j + 1) = upto(j)
      <4>1. \A m \in X : m <= j + 1 <=> m <= j
        BY <1>0, <2>3
      <4> QED BY <4>1
    <3>2. Rank(X, j + 1) = Rank(X, j)
      BY <3>1 DEF Rank
    <3> QED BY <2>1, <3>2
  <2> QED BY <2>2, <2>3
<1>4. n \in N
  <2> HIDE DEF N
  <2>1. Nat \subseteq N
    BY <1>2, <1>3, Induction
  <2> QED BY <2>1
<1>5. upto(n) = X
  BY <1>0
<1> QED BY <1>4, <1>5 DEF Rank

LEMMA SearchTypesInit == I!Init => I!TypeOK
<1>1. Len(Dtos) \in Nat
  BY ToolsAssumption DEF I!IndexConstants
<1> QED BY <1>1 DEF I!Init, I!TypeOK

LEMMA SearchTypesStep == I!TypeOK /\ I!Inv /\ [I!Next]_(I!vars) => I!TypeOK'
<1> SUFFICES ASSUME I!TypeOK, I!Inv, [I!Next]_(I!vars) PROVE I!TypeOK'
  OBVIOUS
<1>1. DOMAIN Dtos = 1 .. Len(Dtos) /\ Len(Dtos) \in Nat /\ Groups \subseteq Seq(IndexPaths)
      /\ \A i \in DOMAIN Dtos : Dtos[i].path \in IndexPaths
  BY ToolsAssumption DEF I!IndexConstants
<1>2. CASE I!NextGroup
  BY <1>1, <1>2 DEF I!NextGroup, I!TypeOK
<1>3. CASE I!Delete
  <2>1. PICK n \in I!Numbers \cap DOMAIN v6 :
            /\ v3' \in {v3, v3 \ {v6[n]}}
            /\ v10' = v10 \cup {<<n, v6[n]>>}
    BY <1>3 DEF I!Delete, I!Recycle
  <2>2. /\ v1 = "check-dirs" /\ v2 = "line"
        /\ v1' = v1 /\ v2' = v2 /\ v4' = v4 /\ v5' = v5 /\ v7' = v7 /\ v8' = v8 /\ v9' = v9
        /\ v11' = v11
    BY <1>3 DEF I!Delete
  <2>3. v6' \in Seq(IndexPaths)
    <3>1. I!GroupInv'
      BY SearchStep DEF I!Inv
    <3> QED BY <2>2, <3>1 DEF I!GroupInv
  <2>4. v6[n] \in IndexPaths /\ n \in 1 .. 9
    <3>1. v6 \in Seq(IndexPaths)
      BY DEF I!TypeOK
    <3> QED BY <2>1, <3>1 DEF I!Numbers
  <2> QED BY <2>1, <2>2, <2>3, <2>4 DEF I!TypeOK
<1>4. CASE I!NextCluster
  <2> DEFINE found == {j \in I!Cluster(v5) : Dtos[j].path \in v3}
             c == I!Cardinality(found)
             at == [k \in 1 .. c |->
                      CHOOSE j \in found : I!Cardinality({m \in found : m <= j}) = k]
  <2>1. /\ v5 <= Len(Dtos) /\ v5' = v5 + 1 /\ v2' \in {v2, "line"} /\ v7' = v6'
        /\ v8' = I!NoFile /\ v9' = "none"
        /\ v1' = v1 /\ v3' = v3 /\ v4' = v4 /\ v10' = v10
        /\ \/ v6' = v6 /\ v11' = v11
           \/ /\ v6' = [k \in 1 .. I!Cardinality(found) |->
                    Dtos[CHOOSE j \in found : I!Cardinality({m \in found : m <= j}) = k].path]
              /\ v11' = v11 \cup {{Dtos[j].path : j \in found}}
    BY <1>4 DEF I!NextCluster
  <2>2. v5 \in 1 .. Len(Dtos)
    BY <1>1, <2>1 DEF I!TypeOK
  <2>3. found \subseteq 1 .. Len(Dtos)
    BY <1>1, <2>2 DEF I!Cluster
  <2>4. \A k \in 1 .. c : at[k] \in found
    <3>1. \A k \in 1 .. c : \E j \in found : I!Cardinality({m \in found : m <= j}) = k
      <4> HIDE DEF found
      <4>1. c = Cardinality(found)
        BY SameCounts
      <4>2. \A j : I!Cardinality({m \in found : m <= j}) = Rank(found, j)
        BY SameCounts DEF Rank
      <4>3. \A k \in 1 .. Cardinality(found) : \E j \in found : Rank(found, j) = k
        BY <1>1, <2>3, Ranks
      <4> QED BY <4>1, <4>2, <4>3
    <3> HIDE DEF found, c
    <3> QED BY <3>1
  <2>5. c \in Nat
    <3>1. IsFiniteSet(1 .. Len(Dtos))
      BY <1>1, FS_Interval
    <3> HIDE DEF found
    <3>2. c = Cardinality(found)
      BY SameCounts
    <3> QED BY <2>3, <3>1, <3>2, FS_Subset, FS_CardinalityType
  <2>6. v6' = v6 \/ v6' = [k \in 1 .. c |-> Dtos[at[k]].path]
    <3> HIDE DEF found
    <3> QED BY <2>1
  <2>7. v6' \in Seq(IndexPaths)
    <3>1. v6 \in Seq(IndexPaths)
      BY DEF I!TypeOK
    <3>2. \A k \in 1 .. c : Dtos[at[k]].path \in IndexPaths
      BY <1>1, <2>3, <2>4
    <3> HIDE DEF found, c, at
    <3>3. [k \in 1 .. c |-> Dtos[at[k]].path] \in Seq(IndexPaths)
      BY <2>5, <3>2
    <3> QED BY <2>6, <3>1, <3>3
  <2>8. v11' \subseteq SUBSET IndexPaths
    <3>1. {Dtos[j].path : j \in found} \subseteq IndexPaths
      BY <1>1, <2>3
    <3> HIDE DEF found
    <3> QED BY <2>1, <3>1 DEF I!TypeOK
  <2> HIDE DEF found, c, at
  <2> QED BY <1>1, <2>1, <2>2, <2>7, <2>8 DEF I!TypeOK
<1>5. CASE I!ChooseFile
  <2>1. PICK n \in I!Numbers \cap DOMAIN v6 : v8' = v6[n]
    BY <1>5 DEF I!ChooseFile
  <2>2. v6[n] \in IndexPaths
    <3>1. v6 \in Seq(IndexPaths)
      BY DEF I!TypeOK
    <3> QED BY <2>1, <3>1
  <2> QED BY <1>5, <2>1, <2>2 DEF I!ChooseFile, I!TypeOK
<1>6. CASE I!DeleteChosen
  BY <1>6 DEF I!DeleteChosen, I!Recycle, I!TypeOK
<1>7. CASE I!Ask \/ I!EndLine \/ I!SkipOrQuit \/ I!ChooseMenu \/ I!AllDone
  BY <1>7 DEF I!Ask, I!EndLine, I!SkipOrQuit, I!ChooseMenu, I!AllDone, I!TypeOK
<1>8. CASE I!EndMenuLine
  <2>1. v2' \in {"line", "ended", "next"}
    BY <1>8 DEF I!EndMenuLine
  <2> QED BY <1>8, <2>1 DEF I!EndMenuLine, I!TypeOK
<1>9. CASE UNCHANGED I!vars
  BY <1>9 DEF I!vars, I!TypeOK
<1> QED BY <1>2, <1>3, <1>4, <1>5, <1>6, <1>7, <1>8, <1>9 DEF I!Next

-----------------------------------------------------------------------------

\* The types that none of the invariants above has.
MoreTypes ==
    /\ program \in Programs
    /\ program = "dupe_scripts" => D!TypeOK
    /\ program = "video_dupe_finder" => V!Inv /\ VideoTypes
    /\ program = "ihb_video_tools" => I!Inv /\ I!TypeOK

LEMMA MoreTypesHold == Spec => []MoreTypes
<1>1. Init => MoreTypes
  BY CopyTypesInit, VideosInit, VideoTypesInit, SearchInit, SearchTypesInit
  DEF Init, MoreTypes, Programs
<1>2. MoreTypes /\ [Next]_vars => MoreTypes'
  BY ProgramStep, CopyTypesStep, VideosStep, VideoTypesStep, SearchStep, SearchTypesStep
  DEF MoreTypes
<1> QED BY <1>1, <1>2, PTL DEF Spec

\* TypeOK: in every program every variable keeps its type.
THEOREM TypesSound == Spec => []TypeOK
<1>1. /\ MoreTypes
      /\ program = "run_command" => R!Inv
      /\ program = "dir_utils" => U!Inv /\ U!ReorgInv
      /\ program = "file_type_reorg" => T!Inv /\ T!ExtractInv
      /\ program = "default_streams" => S!Inv
      /\ program = "concan" => C!Inv
      /\ program = "delta_calc_encode" => L!Inv
      /\ program = "calc_target_resolution" => G!Inv
      => TypeOK
  BY VideoTypesAll
  DEF MoreTypes, TypeOK, R!Inv, U!Inv, T!ExtractInv, S!Inv, C!Inv, L!Inv, G!Inv
<1> QED BY <1>1, MoreTypesHold, RunCommandHolds, DirToolsHolds, TypeReorgHolds, DefaultStreamsHolds,
           ConcatHolds, ReportHolds, SizesHold, PTL
=============================================================================
