------------------------- MODULE DupeScriptsProofs -------------------------
(***************************************************************************)
(* dupe_find and dupe_cleaner never delete the last copy of a content,     *)
(* whatever files and directories there are and whatever the user answers. *)
(***************************************************************************)
EXTENDS DupeScripts, FiniteSetTheorems, TLAPS

\* A group still to be gone through is one of copies that are all there, two
\* of them at least where the user decides; or one of unreadable files.
GroupSound(g) ==
    \/ script = "dupe_cleaner" /\ g \subseteq files.unreadable
    \/ /\ \E p \in Readable : g = SameHash(p)
       /\ g \subseteq disk /\ g \cap left = {}
       /\ script = "dupe_cleaner" => \E x, y \in g : x # y

\* A copy stays that is not marked for deletion.
Kept(p) ==
    \/ script = "dupe_cleaner" /\ p \in files.unreadable
    \/ \E q \in disk \ left : /\ files.content[q] = files.content[p]
                              /\ script = "dupe_cleaner" => q \in Readable

Inv ==
    /\ script \in {"dupe_find", "dupe_cleaner"}
    /\ disk \subseteq Paths
    /\ pc = "walk" => disk = Paths /\ groups = {}
    /\ pc # "delete" => left = {}
    /\ \A g \in groups : GroupSound(g)
    /\ \A p \in Paths : Kept(p)

-----------------------------------------------------------------------------

\* A set with more than one element has two.
LEMMA TwoElements ==
    ASSUME NEW S, Cardinality(S) > 1
    PROVE  \E x, y \in S : x # y
<1>1. SUFFICES ASSUME \A x, y \in S : x = y PROVE FALSE
  OBVIOUS
<1>2. S # {}
  BY FS_EmptySet
<1>3. PICK x : x \in S
  BY <1>2
<1>4. S = {x}
  BY <1>1, <1>3
<1>5. Cardinality(S) = 1
  BY <1>4, FS_Singleton
<1> QED
  BY <1>5

\* The files with the hash of p have equal contents and are all of them.
LEMMA SameHashClass ==
    ASSUME NEW p \in Readable
    PROVE  /\ p \in SameHash(p)
           /\ SameHash(p) \subseteq Readable
           /\ \A q \in Readable : q \in SameHash(p) <=> files.content[q] = files.content[p]
BY DEF SameHash

\* Two groups of readable files are equal or disjoint.
LEMMA ClassesDisjoint ==
    ASSUME NEW p \in Readable, NEW q \in Readable, SameHash(p) # SameHash(q)
    PROVE  SameHash(p) \cap SameHash(q) = {}
BY DEF SameHash

LEMMA InitInv == Init => Inv
<1> SUFFICES ASSUME Init PROVE Inv
  OBVIOUS
<1>1. \A p \in Paths : Kept(p)
  BY DEF Init, Kept, Readable
<1> QED
  BY <1>1 DEF Init, Inv

-----------------------------------------------------------------------------

LEMMA WalkFindInv == Inv /\ WalkFind => Inv'
<1> SUFFICES ASSUME Inv, WalkFind PROVE Inv'
  OBVIOUS
<1>1. \A g \in groups' : GroupSound(g)'
  <2>1. SUFFICES ASSUME NEW g \in FindGroups PROVE GroupSound(g)'
    BY DEF WalkFind
  <2>2. PICK p \in Readable : g = SameHash(p)
    BY DEF FindGroups
  <2>3. g \subseteq Paths
    BY <2>2 DEF SameHash, Readable
  <2> QED
    BY <2>2, <2>3 DEF Inv, WalkFind, GroupSound, SameHash, Readable
<1>2. \A p \in Paths : Kept(p)'
  BY DEF Inv, WalkFind, Kept, Readable
<1> QED
  BY <1>1, <1>2 DEF Inv, WalkFind

LEMMA WalkCleanInv == Inv /\ WalkClean => Inv'
<1> SUFFICES ASSUME Inv, WalkClean PROVE Inv'
  OBVIOUS
<1>1. \A g \in groups' : GroupSound(g)'
  <2>1. SUFFICES ASSUME NEW g \in CleanGroups PROVE GroupSound(g)'
    BY DEF WalkClean
  <2>2. CASE \E p \in files.unreadable : g = NoHash(p)
    BY <2>2 DEF WalkClean, GroupSound, NoHash
  <2>3. CASE \E p \in Readable : g = SameHash(p)
    <3>1. PICK p \in Readable : g = SameHash(p)
      BY <2>3
    <3>2. g \subseteq Paths
      BY <3>1 DEF SameHash, Readable
    <3>3. \E x, y \in g : x # y
      BY <2>1, TwoElements DEF CleanGroups
    <3> QED
      BY <3>1, <3>2, <3>3 DEF Inv, WalkClean, GroupSound, SameHash, Readable
  <2> QED
    BY <2>2, <2>3 DEF CleanGroups
<1>2. \A p \in Paths : Kept(p)'
  BY DEF Inv, WalkClean, Kept, Readable
<1> QED
  BY <1>1, <1>2 DEF Inv, WalkClean

\* The kept file stands for its whole group, and the other groups are disjoint.
LEMMA ChooseKeeperInv == Inv /\ ChooseKeeper => Inv'
<1> SUFFICES ASSUME Inv, ChooseKeeper PROVE Inv'
  OBVIOUS
<1>1. PICK g \in groups, keep \in UNION {Keepers(h) : h \in groups} :
        /\ keep \in Keepers(g)
        /\ script = "dupe_find" /\ pc = "groups"
        /\ groups' = groups \ {g} /\ left' = g \ {keep} /\ pc' = "delete"
        /\ UNCHANGED <<script, disk, files>>
  BY DEF ChooseKeeper
<1>2. keep \in g
  BY <1>1 DEF Keepers
<1>3. PICK p \in Readable : g = SameHash(p)
  BY <1>1 DEF Inv, GroupSound
<1>4. g \subseteq disk
  BY <1>1 DEF Inv, GroupSound
<1>5. \A h \in groups' : GroupSound(h)'
  <2>1. SUFFICES ASSUME NEW h \in groups, h # g PROVE GroupSound(h)'
    BY <1>1
  <2>2. PICK q \in Readable : h = SameHash(q)
    BY <1>1 DEF Inv, GroupSound
  <2>3. h \cap g = {}
    BY <1>3, <2>1, <2>2, ClassesDisjoint
  <2>4. h \subseteq disk
    BY <1>1 DEF Inv, GroupSound
  <2> QED
    BY <1>1, <2>2, <2>3, <2>4 DEF GroupSound, SameHash, Readable
<1>6. \A q \in Paths : Kept(q)'
  <2>1. SUFFICES ASSUME NEW q \in Paths PROVE Kept(q)'
    OBVIOUS
  <2>2. PICK r \in disk \ left : files.content[r] = files.content[q]
    BY <1>1 DEF Inv, Kept
  <2>3. CASE r \in g
    <3>1. files.content[keep] = files.content[q]
      BY <1>2, <1>3, <2>2, <2>3 DEF SameHash
    <3> QED
      BY <1>1, <1>2, <1>4, <3>1 DEF Kept
  <2>4. CASE r \notin g
    BY <1>1, <2>2, <2>4 DEF Kept
  <2> QED
    BY <2>3, <2>4
<1> QED
  BY <1>1, <1>5, <1>6 DEF Inv

LEMMA DeleteCopyInv == Inv /\ DeleteCopy => Inv'
<1> SUFFICES ASSUME Inv, DeleteCopy PROVE Inv'
  OBVIOUS
<1>1. PICK p \in left :
        /\ script = "dupe_find" /\ pc = "delete"
        /\ left' = left \ {p} /\ disk' \in {disk, disk \ {p}}
        /\ UNCHANGED <<script, pc, files, groups>>
  BY DEF DeleteCopy
<1>2. disk \ left \subseteq disk' \ left'
  BY <1>1
<1>3. \A g \in groups' : GroupSound(g)'
  BY <1>1 DEF Inv, GroupSound, SameHash, Readable
<1>4. \A q \in Paths : Kept(q)'
  BY <1>1, <1>2 DEF Inv, Kept, Readable
<1> QED
  BY <1>1, <1>3, <1>4 DEF Inv

\* One file of a group goes: of a group of copies another one stays.
LEMMA AskDeleteInv == Inv /\ AskDelete => Inv'
<1> SUFFICES ASSUME Inv, AskDelete PROVE Inv'
  OBVIOUS
<1>1. PICK g \in groups :
        /\ script = "dupe_cleaner" /\ pc = "groups"
        /\ groups' = groups \ {g}
        /\ disk' \in {disk} \cup {disk \ {p} : p \in g}
        /\ UNCHANGED <<script, pc, files, left>>
  BY DEF AskDelete
<1>2. left = {}
  BY <1>1 DEF Inv
<1>3. GroupSound(g)
  BY DEF Inv
<1>4. \A h \in groups' : GroupSound(h)'
  <2>1. SUFFICES ASSUME NEW h \in groups, h # g, ~ h \subseteq files.unreadable
                 PROVE  GroupSound(h)'
    BY <1>1 DEF GroupSound
  <2>2. PICK q \in Readable : h = SameHash(q)
    BY <2>1 DEF Inv, GroupSound
  <2>3. h \cap g = {}
    <3>1. CASE g \subseteq files.unreadable
      BY <2>2, <3>1 DEF SameHash, Readable
    <3>2. CASE ~ g \subseteq files.unreadable
      BY <1>3, <2>1, <2>2, <3>2, ClassesDisjoint DEF GroupSound
    <3> QED
      BY <3>1, <3>2
  <2>4. h \subseteq disk /\ \E x, y \in h : x # y
    BY <1>1, <2>1 DEF Inv, GroupSound
  <2>5. h \subseteq disk'
    BY <1>1, <2>3, <2>4
  <2> QED
    BY <1>1, <1>2, <2>2, <2>4, <2>5 DEF GroupSound, SameHash, Readable
<1>5. \A q \in Paths : Kept(q)'
  <2>1. SUFFICES ASSUME NEW q \in Paths, q \notin files.unreadable PROVE Kept(q)'
    BY <1>1 DEF Kept
  <2>2. PICK r \in disk \cap Readable : files.content[r] = files.content[q]
    BY <1>1, <2>1 DEF Inv, Kept
  <2>3. CASE r \in disk'
    BY <1>1, <1>2, <2>2, <2>3 DEF Kept, Readable
  <2>4. CASE r \notin disk'
    <3>1. r \in g /\ disk' = disk \ {r}
      BY <1>1, <2>2, <2>4
    <3>2. /\ \E p \in Readable : g = SameHash(p)
          /\ g \subseteq disk
          /\ \E x, y \in g : x # y
      BY <1>1, <1>3, <2>2, <3>1 DEF GroupSound, Readable
    <3>3. PICK z \in g : z # r
      BY <3>2
    <3>4. z \in Readable /\ files.content[z] = files.content[q]
      BY <2>2, <3>1, <3>2, <3>3 DEF SameHash
    <3> QED
      BY <1>1, <1>2, <3>1, <3>2, <3>3, <3>4 DEF Kept, Readable
  <2> QED
    BY <2>3, <2>4
<1>6. disk' \subseteq Paths
  BY <1>1 DEF Inv
<1> QED
  BY <1>1, <1>4, <1>5, <1>6 DEF Inv

LEMMA StepInv == Inv /\ [Next]_vars => Inv'
<1> SUFFICES ASSUME Inv, [Next]_vars PROVE Inv'
  OBVIOUS
<1>1. CASE NextGroup \/ RemoveRaises \/ AllGroups \/ UNCHANGED vars
  <2>1. UNCHANGED <<script, disk, files, left>> /\ groups' = groups
    BY <1>1 DEF NextGroup, RemoveRaises, AllGroups, vars
  <2>2. pc' # "delete" => left' = {}
    BY <1>1 DEF Inv, NextGroup, RemoveRaises, AllGroups, vars
  <2>3. pc' = "walk" => pc = "walk"
    BY <1>1 DEF NextGroup, RemoveRaises, AllGroups, vars
  <2> QED
    BY <2>1, <2>2, <2>3 DEF Inv, GroupSound, SameHash, Kept, Readable
<1> QED
  BY <1>1, WalkFindInv, WalkCleanInv, ChooseKeeperInv, DeleteCopyInv, AskDeleteInv DEF Next

\* At every moment each content has a copy on the disk, but for contents of
\* unreadable files in dupe_cleaner: for any files, directories and answers.
THEOREM CopySound == Spec => []OneCopyStays
<1>1. Inv => OneCopyStays
  BY DEF Inv, Kept, OneCopyStays
<1> QED
  BY <1>1, InitInv, StepInv, PTL DEF Spec
=============================================================================
