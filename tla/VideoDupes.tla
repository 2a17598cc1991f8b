----------------------------- MODULE VideoDupes -----------------------------
(***************************************************************************)
(* scripts/video_dupe_finder.py: videos of about the same duration are     *)
(* grouped; in each group the ones that sound alike, and then those of the *)
(* rest that look alike, are paired with the largest of them, and the user *)
(* is asked for each pair whether to delete the smaller one.               *)
(*                                                                         *)
(* Durations and the tolerance are whole units, rounding is to multiples   *)
(* of KeyUnit.  A hash is a value or None.  Directories that overlap put a *)
(* file into the list twice.  The order of the questions is left open.     *)
(***************************************************************************)
EXTENDS Integers, Sequences, SequencesExt, FiniteSets

CONSTANTS Videos,    \* the files
          Listings,  \* lists find_all_video_files may return
          Durations, \* a set of durations
          Tolerance, \* DURATION_TOLERANCE_S
          KeyUnit,   \* what durations are rounded to in the key of a group
          SizeOf,    \* the size of each file
          Audio,     \* audio hashes
          Frame      \* keyframe hashes

VARIABLES pc,
          disk,    \* the files that are there
          video,   \* what ffprobe and ffmpeg say of each; never changes
          queue,   \* files whose metadata have still to be collected
          failed,  \* those whose metadata could not be had
          groups,  \* duration_groups: a sequence of [key, files]
          rest,    \* what the audio check left of the group at hand
          pairs,   \* confirmed_duplicates <<smaller, larger>>, still to be asked
          told     \* all pairs ever confirmed

vars == <<pc, disk, video, queue, failed, groups, rest, pairs, told>>

None == "None"

TypeOK ==
    /\ pc \in {"probe", "audio", "frame", "confirm", "ended"}
    /\ disk \subseteq Videos
    /\ video \in [duration: [Videos -> Durations], audio: [Videos -> Audio \cup {None}],
                  frame: [Videos -> Frame \cup {None}]]
    /\ queue \in Seq(Videos) /\ rest \in Seq(Videos)
    /\ failed \subseteq Videos
    /\ groups \in Seq([key: Nat, files: Seq(Videos)])
    /\ pairs \subseteq told /\ told \subseteq Videos \X Videos

Init ==
    /\ pc = "probe"
    /\ disk = Videos
    /\ video \in [duration: [Videos -> Durations], audio: [Videos -> Audio \cup {None}],
                  frame: [Videos -> Frame \cup {None}]]
    /\ queue \in Listings
    /\ failed = {}
    /\ groups = <<>>
    /\ rest = <<>>
    /\ pairs = {} /\ told = {}

-----------------------------------------------------------------------------
(* group_by_duration: the pool's answers are taken in the order of the list. *)

Near(d, e) == d - e <= Tolerance /\ e - d <= Tolerance

\* Mutant: durations rounded so far that two groups share a key.
CoarseKey(d) == d \div (2 * Tolerance + 2)

Key(d) == (d + KeyUnit \div 2) \div KeyUnit

\* The first group whose first file is near enough, or a new one under the
\* key of the duration - which would replace a group that has that key.
Grouped(p) ==
    LET d == video.duration[p]
        near == {i \in DOMAIN groups : Near(d, video.duration[Head(groups[i].files)])}
        same == {i \in DOMAIN groups : groups[i].key = Key(d)}
        new == [key |-> Key(d), files |-> <<p>>]
    IN  IF near # {}
        THEN LET i == CHOOSE i \in near : \A j \in near : i <= j
             IN  [groups EXCEPT ![i].files = Append(@, p)]
        ELSE IF same # {} THEN [i \in DOMAIN groups |-> IF i \in same THEN new ELSE groups[i]]
        ELSE Append(groups, new)

\* A probe that fails or takes too long leaves the file out.
Probe ==
    /\ pc = "probe" /\ queue # <<>>
    /\ queue' = Tail(queue)
    /\ \/ groups' = Grouped(Head(queue)) /\ UNCHANGED failed
       \/ failed' = failed \cup {Head(queue)} /\ UNCHANGED groups
    /\ UNCHANGED <<pc, disk, video, rest, pairs, told>>

\* The entries of s that are in X, in their order.
Kept(s, X) ==
    LET upto[n \in 0 .. Len(s)] == IF n = 0 THEN <<>>
                                   ELSE IF s[n] \in X THEN Append(upto[n - 1], s[n])
                                   ELSE upto[n - 1]
    IN  upto[Len(s)]

\* Groups of one file are dropped.
GroupsDone ==
    /\ pc = "probe" /\ queue = <<>>
    /\ groups' = Kept(groups, {g \in Range(groups) : Len(g.files) > 1})
    /\ pc' = "audio"
    /\ UNCHANGED <<disk, video, queue, failed, rest, pairs, told>>

-----------------------------------------------------------------------------
(* process_duplicates                                                      *)

LargeEnough(s, l) == 10 * SizeOf[s] >= 7 * SizeOf[l]

\* Mutant: a file listed twice is paired with itself.
MatchesAll(files, hash) ==
    LET alike(i) == {j \in DOMAIN files : hash[files[j]] = hash[files[i]]}
        last(is) == CHOOSE i \in is : \A j \in is :
                        \/ SizeOf[files[j]] < SizeOf[files[i]]
                        \/ SizeOf[files[j]] = SizeOf[files[i]] /\ j <= i
    IN  {<<files[i], files[last(alike(i))]>> : i \in {i \in DOMAIN files :
             /\ hash[files[i]] # None
             /\ i # last(alike(i))
             /\ LargeEnough(files[i], files[last(alike(i))])}}

\* Of the files with equal hashes, sorted by size, the last one is kept.
Matches(files, hash) ==
    LET alike(i) == {j \in DOMAIN files : hash[files[j]] = hash[files[i]]}
        last(is) == CHOOSE i \in is : \A j \in is :
                        \/ SizeOf[files[j]] < SizeOf[files[i]]
                        \/ SizeOf[files[j]] = SizeOf[files[i]] /\ j <= i
    IN  {<<files[i], files[last(alike(i))]>> : i \in {i \in DOMAIN files :
             /\ hash[files[i]] # None
             /\ files[i] # files[last(alike(i))]
             /\ LargeEnough(files[i], files[last(alike(i))])}}

Smaller(ps) == {p[1] : p \in ps}

AudioCheck ==
    /\ pc = "audio" /\ groups # <<>>
    /\ LET found == Matches(Head(groups).files, video.audio)
       IN  /\ pairs' = pairs \cup found
           /\ told' = told \cup found
           /\ rest' = Kept(Head(groups).files, Videos \ Smaller(found))
    /\ pc' = "frame"
    /\ UNCHANGED <<disk, video, queue, failed, groups>>

\* What the audio check paired is not looked at any more.
FrameCheck ==
    /\ pc = "frame"
    /\ LET found == Matches(rest, video.frame)
       IN  pairs' = pairs \cup found /\ told' = told \cup found
    /\ groups' = Tail(groups)
    /\ rest' = <<>>
    /\ pc' = "audio"
    /\ UNCHANGED <<disk, video, queue, failed>>

ChecksDone ==
    /\ pc = "audio" /\ groups = <<>>
    /\ pc' = "confirm"
    /\ UNCHANGED <<disk, video, queue, failed, groups, rest, pairs, told>>

\* Without ffmpeg, or without the sample it should have written, the script
\* exits; no file has been touched.
CheckExits ==
    /\ pc \in {"probe", "audio"}
    /\ pc' = "ended"
    /\ UNCHANGED <<disk, video, queue, failed, groups, rest, pairs, told>>

-----------------------------------------------------------------------------
(* confirm_and_delete: nothing looks whether the larger file is still there. *)

Confirm == \E p \in pairs :
    /\ pc = "confirm"
    /\ pairs' = pairs \ {p}
    /\ disk' \in {disk, disk \ {p[1]}}
    /\ UNCHANGED <<pc, video, queue, failed, groups, rest, told>>

ConfirmDone ==
    /\ pc = "confirm" /\ pairs = {}
    /\ pc' = "ended"
    /\ UNCHANGED <<disk, video, queue, failed, groups, rest, pairs, told>>

Next ==
    \/ Probe \/ GroupsDone
    \/ AudioCheck \/ FrameCheck \/ ChecksDone \/ CheckExits
    \/ Confirm \/ ConfirmDone

Spec == Init /\ [][Next]_vars

-----------------------------------------------------------------------------

\* The larger file of one pair may be the smaller one of another: what p was
\* matched with, what that was matched with, and so on.
Originals(p) ==
    LET chain[n \in 0 .. Cardinality(Videos)] ==
            IF n = 0 THEN {p}
            ELSE chain[n - 1] \cup {q[2] : q \in {q \in told : q[1] \in chain[n - 1]}}
    IN  chain[Cardinality(Videos)]

\* Whatever the user answers, a deleted video was matched, at some removes,
\* with one that stays.
OriginalStays == \A p \in Videos : Originals(p) \cap disk # {}

\* No video gets lost on the way to the checks: each that could be probed is
\* in a group, and near the first one of it.
GroupsComplete ==
    /\ pc = "probe" => \A p \in Videos \ failed :
          \/ p \in Range(queue)
          \/ \E i \in DOMAIN groups : p \in Range(groups[i].files)
    /\ \A i \in DOMAIN groups : \A p \in Range(groups[i].files) :
          Near(video.duration[p], video.duration[Head(groups[i].files)])
-----------------------------------------------------------------------------
(* For the proofs of the two.                                              *)

\* Durations with the same key are near: 0.01 s is less than 0.05 s.
VideoConstants ==
    /\ Durations \subseteq Nat
    /\ Tolerance \in Nat /\ KeyUnit \in 1 .. Tolerance + 1
    /\ IsFiniteSet(Videos) /\ SizeOf \in [Videos -> Nat]
    /\ \A l \in Listings : l \in Seq(Videos) /\ Range(l) = Videos

Ref(g) == video.duration[Head(g.files)]

\* A file is in the first group that it is near to, and in no other.
GroupInv ==
    /\ video \in [duration: [Videos -> Durations], audio: [Videos -> Audio \cup {None}],
                  frame: [Videos -> Frame \cup {None}]]
    /\ queue \in Seq(Videos) /\ failed \subseteq Videos
    /\ groups \in Seq([key: Nat, files: Seq(Videos) \ {<<>>}])
    /\ \A i \in DOMAIN groups : \A p \in Range(groups[i].files) :
          Near(video.duration[p], Ref(groups[i]))
    /\ \A i, j \in DOMAIN groups :
          i # j => Range(groups[i].files) \cap Range(groups[j].files) = {}
    /\ pc = "probe" =>
          /\ \A i \in DOMAIN groups : groups[i].key = Key(Ref(groups[i]))
          /\ \A i, j \in DOMAIN groups : j < i =>
                \A p \in Range(groups[i].files) : ~ Near(video.duration[p], Ref(groups[j]))
          /\ \A p \in Videos \ failed :
                p \in Range(queue) \/ \E i \in DOMAIN groups : p \in Range(groups[i].files)

\* The file was not paired with a larger one.
Stays(p) == p \notin Smaller(told)

\* What a file was paired with stays, or was paired with one that does: the
\* first when the audio check found it, the second when the frame check then
\* found a larger one than the one it had been paired with.
PairInv ==
    /\ pairs \subseteq told /\ \A p \in Videos \ disk : ~ Stays(p)
    /\ \A e \in told :
          /\ e \in Videos \X Videos /\ e[1] # e[2]
          /\ Stays(e[2]) \/ \E f \in told : f[1] = e[2] /\ Stays(f[2])
    /\ pc = "probe" => told = {}
    /\ pc = "audio" => \A e \in told, i \in DOMAIN groups :
          {e[1], e[2]} \cap Range(groups[i].files) = {}
    /\ pc = "frame" =>
          /\ groups # <<>> /\ rest \in Seq(Videos)
          /\ \A p \in Range(rest) : p \in Range(groups[1].files) /\ Stays(p)
          /\ \A e \in told :
                /\ e[1] \in Range(groups[1].files) <=> e[2] \in Range(groups[1].files)
                /\ e[2] \in Range(groups[1].files) => Stays(e[2])
                /\ \A i \in DOMAIN groups \ {1} : {e[1], e[2]} \cap Range(groups[i].files) = {}

Inv == GroupInv /\ PairInv
=============================================================================
