---------------------------- MODULE DupeScripts ----------------------------
(***************************************************************************)
(* scripts/dupe_find.py and scripts/dupe_cleaner.py: both walk the given   *)
(* directories, compare the files of equal size by their hash, and delete  *)
(* copies.  dupe_find deletes all copies but one without asking;           *)
(* dupe_cleaner asks, for every group of copies, which one to delete.      *)
(*                                                                         *)
(* A file is its path; equal hashes are taken for equal contents.  A file  *)
(* that cannot be read has no hash: dupe_find leaves it out, dupe_cleaner  *)
(* files it under None.  Directories that overlap list a path twice.       *)
(***************************************************************************)
EXTENDS Integers, FiniteSets

CONSTANTS Paths,      \* the files of the directories
          FirstDir,   \* those in the first directory, or in the reference
          NameLength, \* the length of the name of each
          SizeOf      \* the size of each content

VARIABLES script, \* which of the two runs
          pc,
          disk,   \* the files that are there
          files,  \* what there is to know of them; never changes
          groups, \* groups of copies still to be gone through
          left    \* of the present group, files still to be deleted

vars == <<script, pc, disk, files, groups, left>>

Contents == DOMAIN SizeOf

TypeOK ==
    /\ script \in {"dupe_find", "dupe_cleaner"}
    /\ pc \in {"walk", "groups", "delete", "ended"}
    /\ disk \subseteq Paths
    /\ files \in [content: [Paths -> Contents], unreadable: SUBSET Paths, twice: SUBSET Paths]
    /\ groups \subseteq SUBSET Paths
    /\ left \subseteq Paths

Init ==
    /\ script \in {"dupe_find", "dupe_cleaner"}
    /\ pc = "walk"
    /\ disk = Paths
    /\ files \in [content: [Paths -> Contents], unreadable: SUBSET Paths,
                  twice: {{}, FirstDir}]
    /\ groups = {}
    /\ left = {}

Readable == Paths \ files.unreadable

\* The readable files with the hash of p.
SameHash(p) == {q \in Readable : files.content[q] = files.content[p]}

\* A list of paths, those of twice in it two times, has more than one entry.
Several(ps) == Cardinality(ps) > 1 \/ ps \cap files.twice # {}

\* The unreadable files of the size of p.
NoHash(p) == {q \in files.unreadable :
                 SizeOf[files.content[q]] = SizeOf[files.content[p]]}

\* dupe_find groups lists of paths.
FindGroups == {g \in {SameHash(p) : p \in Readable} : Several(g)}

\* dupe_cleaner groups sets of paths, and None is a hash like any other.
CleanGroups == {g \in {SameHash(p) : p \in Readable} \cup {NoHash(p) : p \in files.unreadable} :
                   Cardinality(g) > 1}

WalkFind ==
    /\ script = "dupe_find" /\ pc = "walk"
    /\ groups' = FindGroups
    /\ pc' = "groups"
    /\ UNCHANGED <<script, disk, files, left>>

WalkClean ==
    /\ script = "dupe_cleaner" /\ pc = "walk"
    /\ groups' = CleanGroups
    /\ pc' = "groups"
    /\ UNCHANGED <<script, disk, files, left>>

\* The longest names of the first directory, or else of all.
Keepers(g) ==
    LET ps == IF g \cap FirstDir = {} THEN g ELSE g \cap FirstDir
    IN  {p \in ps : \A q \in ps : NameLength[p] >= NameLength[q]}

\* Mutant: every entry of the list but the first of the kept file goes.
ChooseByIndex == \E g \in groups : \E keep \in Keepers(g) :
    /\ script = "dupe_find" /\ pc = "groups"
    /\ groups' = groups \ {g}
    /\ left' = (g \ {keep}) \cup (g \cap files.twice)
    /\ pc' = "delete"
    /\ UNCHANGED <<script, disk, files>>

\* Everything but the kept path goes.
ChooseKeeper == \E g \in groups : \E keep \in Keepers(g) :
    /\ script = "dupe_find" /\ pc = "groups"
    /\ groups' = groups \ {g}
    /\ left' = g \ {keep}
    /\ pc' = "delete"
    /\ UNCHANGED <<script, disk, files>>

\* An error is printed and the file stays.
DeleteCopy == \E p \in left :
    /\ script = "dupe_find" /\ pc = "delete"
    /\ left' = left \ {p}
    /\ disk' \in {disk, disk \ {p}}
    /\ UNCHANGED <<script, pc, files, groups>>

NextGroup ==
    /\ script = "dupe_find" /\ pc = "delete"
    /\ left = {}
    /\ pc' = "groups"
    /\ UNCHANGED <<script, disk, files, groups, left>>

\* The user names one file of the group, in the reference or not, or skips.
AskDelete == \E g \in groups :
    /\ script = "dupe_cleaner" /\ pc = "groups"
    /\ groups' = groups \ {g}
    /\ disk' \in {disk} \cup {disk \ {p} : p \in g}
    /\ UNCHANGED <<script, pc, files, left>>

\* os.remove raises and nothing catches it.
RemoveRaises ==
    /\ script = "dupe_cleaner" /\ pc = "groups"
    /\ groups # {}
    /\ pc' = "ended"
    /\ UNCHANGED <<script, disk, files, groups, left>>

AllGroups ==
    /\ pc = "groups" /\ groups = {}
    /\ pc' = "ended"
    /\ UNCHANGED <<script, disk, files, groups, left>>

Next ==
    \/ WalkFind \/ ChooseKeeper \/ DeleteCopy \/ NextGroup
    \/ WalkClean \/ AskDelete \/ RemoveRaises
    \/ AllGroups

Spec == Init /\ [][Next]_vars

-----------------------------------------------------------------------------

\* At every moment each content has a copy left on the disk, whatever the
\* directories list twice and whatever the user answers - but for contents of
\* unreadable files, which dupe_cleaner takes for copies of each other.
OneCopyStays == \A p \in Paths :
    \/ script = "dupe_cleaner" /\ p \in files.unreadable
    \/ \E q \in disk : files.content[q] = files.content[p]
=============================================================================
