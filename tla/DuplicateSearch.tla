-------------------------- MODULE DuplicateSearch --------------------------
(***************************************************************************)
(* The two commands of ihb_video_tools' DuplicateManager.  check-dirs asks *)
(* about every group of files with equal hashes below the given            *)
(* directories (prompt_duplicate_action); full-duration asks about every   *)
(* cluster of indexed files of nearly the same duration                    *)
(* (show_multi_file_options).                                              *)
(*                                                                         *)
(* The user answers in lines of letters.  A line is given letter by        *)
(* letter: what is typed does not depend on when it is typed.  v and       *)
(* letters that mean nothing change nothing and are left out, but for v    *)
(* with a number in full-duration, which chooses a file.  check-dirs with  *)
(* the default of its mode argument raises before it reads a directory.    *)
(***************************************************************************)
EXTENDS Integers, Sequences, SequencesExt, FiniteSets

CONSTANTS Paths,   \* the files
          Groups,  \* lists of hash_map with more than one entry; overlapping
                   \* directories list a path twice
          Dtos,    \* read_all_records: [path, duration], the longest first
          Radius   \* of a cluster, in the unit of the durations

VARIABLES mode,
          pc,
          disk,     \* the files that are there
          groups,   \* groups still to be asked about
          idx,      \* the record the next cluster starts with
          list,     \* file_list of the prompt
          printed,  \* file_list when it was printed with its numbers
          chosen,   \* chosen_file of the menu
          choice,   \* menu_choice of the menu
          named,    \* <<number, file>> of the deletes of this line
          clusters  \* clusters printed so far

vars == <<mode, pc, disk, groups, idx, list, printed, chosen, choice, named, clusters>>

NoFile == "none"

TypeOK ==
    /\ mode \in {"check-dirs", "full-duration"}
    /\ pc \in {"start", "next", "ask", "line", "ended"}
    /\ disk \subseteq Paths
    /\ groups \subseteq Groups
    /\ idx \in 1 .. Len(Dtos) + 1
    /\ list \in Seq(Paths) /\ printed \in Seq(Paths)
    /\ chosen \in Paths \cup {NoFile}
    /\ choice \in {"none", "i", "s", "q"}
    /\ named \subseteq (1 .. 9) \X Paths
    /\ clusters \subseteq SUBSET Paths

Init ==
    /\ mode \in {"check-dirs", "full-duration"}
    /\ pc = "next"
    /\ disk \in SUBSET Paths
    /\ mode = "check-dirs" => disk = Paths
    /\ groups = IF mode = "check-dirs" THEN Groups ELSE {}
    /\ idx = 1
    /\ list = <<>> /\ printed = <<>>
    /\ chosen = NoFile /\ choice = "none"
    /\ named = {}
    /\ clusters = {}

\* One digit is taken for a number.
Numbers == 1 .. 9

\* recycle_file answers False when it fails; nobody looks.
Recycle(f) == disk' \in {disk, disk \ {f}}

-----------------------------------------------------------------------------
(* check-dirs                                                              *)

NextGroup == \E g \in groups :
    /\ mode = "check-dirs" /\ pc = "next"
    /\ groups' = groups \ {g}
    /\ list' = g /\ printed' = g
    /\ pc' = "ask"
    /\ UNCHANGED <<mode, disk, idx, chosen, choice, named, clusters>>

\* Mutant: the prompt goes on as long as there is a file.
AskWhileAny ==
    /\ mode = "check-dirs" /\ pc = "ask"
    /\ pc' = IF Len(list) > 0 THEN "line" ELSE "next"
    /\ named' = {}
    /\ UNCHANGED <<mode, disk, groups, idx, list, printed, chosen, choice, clusters>>

\* Only here is looked whether there is more than one file left.
Ask ==
    /\ mode = "check-dirs" /\ pc = "ask"
    /\ pc' = IF Len(list) > 1 THEN "line" ELSE "next"
    /\ named' = {}
    /\ UNCHANGED <<mode, disk, groups, idx, list, printed, chosen, choice, clusters>>

\* The number is looked up in what is left of the list, and the first entry
\* with that path goes.
Delete == \E n \in Numbers \cap DOMAIN list :
    /\ mode = "check-dirs" /\ pc = "line"
    /\ Recycle(list[n])
    /\ list' = RemoveFirst(list, list[n])
    /\ named' = named \cup {<<n, list[n]>>}
    /\ UNCHANGED <<mode, pc, groups, idx, printed, chosen, choice, clusters>>

\* The end of the line, or i, which drops the rest of it.
EndLine ==
    /\ mode = "check-dirs" /\ pc = "line"
    /\ pc' = "ask"
    /\ UNCHANGED <<mode, disk, groups, idx, list, printed, chosen, choice, named, clusters>>

SkipOrQuit ==
    /\ mode = "check-dirs" /\ pc = "line"
    /\ pc' \in {"next", "ended"}
    /\ UNCHANGED <<mode, disk, groups, idx, list, printed, chosen, choice, named, clusters>>

-----------------------------------------------------------------------------
(* full-duration                                                           *)

\* Mutant: a record on the border of the radius is left out.
InsideOf(i) == {j \in i .. Len(Dtos) :
                    j = i \/ Dtos[j].duration > Dtos[i].duration - Radius}

Cluster(i) == {j \in i .. Len(Dtos) : Dtos[j].duration >= Dtos[i].duration - Radius}

\* Files that are gone are passed over; a single file makes no cluster.
NextCluster ==
    LET found == {j \in Cluster(idx) : Dtos[j].path \in disk}
    IN  /\ mode = "full-duration" /\ pc = "next"
        /\ idx <= Len(Dtos)
        /\ IF Dtos[idx].path \in disk /\ Cardinality(found) > 1
           THEN /\ list' = [k \in 1 .. Cardinality(found) |->
                              Dtos[CHOOSE j \in found : Cardinality({m \in found : m <= j}) = k].path]
                /\ clusters' = clusters \cup {{Dtos[j].path : j \in found}}
                /\ pc' = "line"
           ELSE UNCHANGED <<list, clusters, pc>>
        /\ printed' = list'
        /\ idx' = idx + 1
        /\ chosen' = NoFile /\ choice' = "none"
        /\ UNCHANGED <<mode, disk, groups, named>>

ChooseFile == \E n \in Numbers \cap DOMAIN list :
    /\ mode = "full-duration" /\ pc = "line"
    /\ chosen' = list[n]
    /\ UNCHANGED <<mode, pc, disk, groups, idx, list, printed, choice, named, clusters>>

\* A delete without a number takes the file of the command before it.
DeleteChosen ==
    /\ mode = "full-duration" /\ pc = "line"
    /\ chosen # NoFile
    /\ Recycle(chosen)
    /\ UNCHANGED <<mode, pc, groups, idx, list, printed, chosen, choice, named, clusters>>

ChooseMenu ==
    /\ mode = "full-duration" /\ pc = "line"
    /\ choice' \in {"i", "s", "q"}
    /\ UNCHANGED <<mode, pc, disk, groups, idx, list, printed, chosen, named, clusters>>

\* The last menu letter of the line counts; without one the menu asks again.
EndMenuLine ==
    /\ mode = "full-duration" /\ pc = "line"
    /\ pc' = CASE choice = "none" -> "line" [] choice = "q" -> "ended" [] OTHER -> "next"
    /\ chosen' = NoFile
    /\ UNCHANGED <<mode, disk, groups, idx, list, printed, choice, named, clusters>>

AllDone ==
    /\ pc = "next" /\ groups = {}
    /\ mode = "full-duration" => idx > Len(Dtos)
    /\ pc' = "ended"
    /\ UNCHANGED <<mode, disk, groups, idx, list, printed, chosen, choice, named, clusters>>

Next ==
    \/ NextGroup \/ Ask \/ Delete \/ EndLine \/ SkipOrQuit
    \/ NextCluster \/ ChooseFile \/ DeleteChosen \/ ChooseMenu \/ EndMenuLine
    \/ AllDone

Spec == Init /\ [][Next]_vars

-----------------------------------------------------------------------------

\* The last copy of a group goes only by a line with two deletes in it: no
\* single answer of the user ever deletes it - unless the group has one file
\* listed twice.
LastCopyStays ==
    pc = "line" /\ mode = "check-dirs" /\ Cardinality(Range(printed)) = Len(printed) =>
        Range(printed) \cap disk # {} \/ Cardinality(named) >= 2

\* Unless the user quits, any two files that are there and whose durations
\* differ by no more than the radius have been shown side by side.
PairsShown ==
    mode = "full-duration" /\ pc = "ended" /\ choice # "q" =>
        \A i, j \in DOMAIN Dtos :
            /\ i < j /\ Dtos[i].duration - Dtos[j].duration <= Radius
            /\ {Dtos[i].path, Dtos[j].path} \subseteq disk
            => \E c \in clusters : {Dtos[i].path, Dtos[j].path} \subseteq c

\* user_prompts.py:17 and 19: "[{idx}] {file}", "[d]x [D]elete file": the file
\* deleted is the one that was printed with the number.
DeletesTheNumbered ==
    mode = "check-dirs" => \A d \in named : printed[d[1]] = d[2]
-----------------------------------------------------------------------------
(* For the proofs of the first two.                                        *)

\* A path has one hash.  The records come longest first: the loop that ends
\* a cluster at the first record out of reach leaves out none that is in reach.
IndexConstants ==
    /\ Groups \subseteq Seq(Paths)
    /\ \A g, h \in Groups : g # h => Range(g) \cap Range(h) = {}
    /\ DOMAIN Dtos = 1 .. Len(Dtos) /\ Len(Dtos) \in Nat
    /\ \A i \in DOMAIN Dtos : Dtos[i].path \in Paths /\ Dtos[i].duration \in Int
    /\ \A i, j \in DOMAIN Dtos : i <= j => Dtos[j].duration <= Dtos[i].duration
    /\ Radius \in Nat

Once(s) == \A i, j \in DOMAIN s : s[i] = s[j] => i = j

\* The files of the groups to come are there; of the group at hand, those
\* still listed.  Each delete of the line takes one off the list.
GroupInv == mode = "check-dirs" =>
    /\ groups \subseteq Groups /\ \A g \in groups : Range(g) \subseteq disk
    /\ IsFiniteSet(named)
    /\ pc \in {"ask", "line"} =>
          /\ printed \in Groups \ groups
          /\ list \in Seq(Paths) /\ Range(list) \subseteq Range(printed)
          /\ Once(printed) => Once(list) /\ Range(list) \subseteq disk
    /\ pc = "line" /\ Once(printed) =>
          /\ Cardinality(named) + Len(list) >= 2
          /\ \A d \in named : d[2] \notin Range(list)

\* The pairs that begin with a record passed over have been shown.
ShownInv == mode = "full-duration" =>
    /\ idx \in 1 .. Len(Dtos) + 1
    /\ \A i, j \in DOMAIN Dtos :
          /\ i < idx /\ i < j /\ Dtos[i].duration - Dtos[j].duration <= Radius
          /\ {Dtos[i].path, Dtos[j].path} \subseteq disk
          => \E c \in clusters : {Dtos[i].path, Dtos[j].path} \subseteq c
    /\ pc = "ended" /\ choice # "q" => idx > Len(Dtos)

Inv == GroupInv /\ ShownInv
=============================================================================
