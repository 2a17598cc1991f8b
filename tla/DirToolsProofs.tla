--------------------------- MODULE DirToolsProofs ---------------------------
(***************************************************************************)
(* reorg and strip_res lose no file, in any tree: every file keeps a path  *)
(* of its own, in a directory that exists and hangs in the tree.           *)
(***************************************************************************)
EXTENDS DirTools, TLAPS

HomeDirs == Homes \cup ({HomeOf[n] : n \in Names} \ {"AV"})

\* The home directories are made directly below input_dir, and a name without
\* its resolution is a name.
TreeConstants ==
    /\ HomeDirs \subseteq Dirs
    /\ \A h \in HomeDirs \ {Root} : Parent[h] = Root
    /\ \A n \in Names : Stripped[n] \in Names

Inv ==
    /\ TypeOK
    /\ NothingLost
    /\ probe \in [Files -> Homes \cup {"error"}]
    /\ pc \in {"start", "move"} => Root \in dirs
    /\ pc = "move" => \A m \in moves : m.home \in HomeDirs

-----------------------------------------------------------------------------

\* A file has its home among the home directories, unless its probe failed.
LEMMA HomeType ==
    ASSUME TypeOK, probe \in [Files -> Homes \cup {"error"}],
           NEW f \in Files, Home(f) # "error"
    PROVE  Home(f) \in HomeDirs
<1>1. at[f].name \in Names
  BY DEF TypeOK
<1> QED
  BY <1>1 DEF Home, HomeDirs

\* Renaming a file to a path that is free keeps all paths different.
LEMMA PathsDiffer ==
    ASSUME TypeOK, NothingLost, NEW f \in Files, NEW p \in [dir : Dirs, name : Names],
           \A g \in Files \ {f} : at[g] # p, at' = [at EXCEPT ![f] = p]
    PROVE  \A g, h \in Files : at'[g] = at'[h] => g = h
<1>1. \A g \in Files : at'[g] = IF g = f THEN p ELSE at[g]
  BY DEF TypeOK
<1> QED
  BY <1>1 DEF NothingLost

LEMMA InitInv == TreeConstants /\ Init => Inv
<1> SUFFICES ASSUME TreeConstants, Init PROVE Inv
  OBVIOUS
<1>1. TypeOK
  BY DEF Init, TypeOK, TreeConstants, HomeDirs
<1> QED
  BY <1>1 DEF Init, Inv, NothingLost

-----------------------------------------------------------------------------

LEMMA WalkInv == TreeConstants /\ Inv /\ Walk => Inv'
<1> SUFFICES ASSUME TreeConstants, Inv, Walk PROVE Inv'
  OBVIOUS
<1>1. PICK walked \in Walked :
        /\ pc = "start" /\ old' = walked
        /\ LET found == {f \in Files : at[f].dir \in walked}
           IN  IF \E f \in found : Home(f) = "error"
               THEN pc' = "raised" /\ UNCHANGED moves
               ELSE /\ pc' = "move"
                    /\ moves' = {[file |-> f, home |-> Home(f)] : f \in found}
        /\ UNCHANGED <<script, at, dirs, probe>>
  BY DEF Walk
<1>2. walked \subseteq Dirs
  BY DEF Walked, Inv, TypeOK
<1>3. pc' = "move" => moves' \in SUBSET Move /\ \A m \in moves' : m.home \in HomeDirs
  <2>1. SUFFICES ASSUME pc' = "move", NEW m \in moves'
                 PROVE  m \in Move /\ m.home \in HomeDirs
    OBVIOUS
  <2>2. PICK f \in Files : m = [file |-> f, home |-> Home(f)] /\ Home(f) # "error"
    BY <1>1, <2>1
  <2>3. Home(f) \in HomeDirs
    BY <2>2, HomeType DEF Inv
  <2> QED
    BY <2>2, <2>3 DEF TreeConstants, Move
<1>4. pc' \in {"move", "raised"} /\ (pc' = "raised" => moves' = moves)
  BY <1>1
<1>5. TypeOK'
  BY <1>1, <1>2, <1>3, <1>4 DEF Inv, TypeOK
<1> QED
  BY <1>1, <1>3, <1>4, <1>5 DEF Inv, NothingLost

LEMMA MoveFileInv == TreeConstants /\ Inv /\ MoveFile => Inv'
<1> SUFFICES ASSUME TreeConstants, Inv, MoveFile PROVE Inv'
  OBVIOUS
<1>1. PICK m \in moves :
        /\ pc = "move" /\ moves' = moves \ {m} /\ dirs' = dirs \cup {m.home}
        /\ at' = IF Taken([at[m.file] EXCEPT !.dir = m.home]) THEN at
                 ELSE [at EXCEPT ![m.file].dir = m.home]
        /\ UNCHANGED <<script, pc, probe, old>>
  BY DEF MoveFile
<1> DEFINE p == [at[m.file] EXCEPT !.dir = m.home]
<1>2. m.file \in Files /\ m.home \in HomeDirs /\ m.home \in Dirs
  BY <1>1 DEF Inv, TypeOK, Move, TreeConstants
<1>3. p \in [dir : Dirs, name : Names] /\ p.dir = m.home
  BY <1>2 DEF Inv, TypeOK
<1>4. \A d \in dirs' \ {Root} : Parent[d] \in dirs'
  BY <1>1, <1>2 DEF Inv, NothingLost, TreeConstants
<1>5. at' \in [Files -> [dir : Dirs, name : Names]]
      /\ (\A g, h \in Files : at'[g] = at'[h] => g = h)
      /\ \A g \in Files : at'[g].dir \in dirs'
  <2>1. CASE Taken(p)
    BY <1>1, <2>1 DEF Inv, TypeOK, NothingLost
  <2>2. CASE ~ Taken(p)
    <3>1. at' = [at EXCEPT ![m.file] = p]
      BY <1>1, <2>2 DEF Inv, TypeOK
    <3>2. \A g \in Files \ {m.file} : at[g] # p
      BY <2>2 DEF Taken
    <3>3. \A g, h \in Files : at'[g] = at'[h] => g = h
      BY <1>2, <1>3, <3>1, <3>2, PathsDiffer DEF Inv
    <3>4. \A g \in Files : at'[g] = IF g = m.file THEN p ELSE at[g]
      BY <3>1 DEF Inv, TypeOK
    <3>5. \A g \in Files : at'[g].dir \in dirs'
      BY <1>1, <1>3, <3>4 DEF Inv, NothingLost
    <3> HIDE DEF p
    <3> QED
      BY <1>3, <3>1, <3>3, <3>5 DEF Inv, TypeOK
  <2> QED
    BY <2>1, <2>2
<1>6. TypeOK'
  BY <1>1, <1>2, <1>5 DEF Inv, TypeOK
<1> QED
  BY <1>1, <1>4, <1>5, <1>6 DEF Inv, NothingLost

\* A directory that is removed holds no file and is no directory's parent.
LEMMA RemoveEmptyInv == Inv /\ RemoveEmpty => Inv'
<1> SUFFICES ASSUME Inv, RemoveEmpty PROVE Inv'
  OBVIOUS
<1>1. PICK d \in old :
        /\ pc = "remove" /\ old' = old \ {d}
        /\ dirs' = IF Empty(d) THEN dirs \ {d} ELSE dirs
        /\ UNCHANGED <<script, pc, at, probe, moves>>
  BY DEF RemoveEmpty
<1>2. TypeOK'
  BY <1>1 DEF Inv, TypeOK
<1>3. NothingLost'
  BY <1>1 DEF Inv, NothingLost, Empty
<1> QED
  BY <1>1, <1>2, <1>3 DEF Inv

LEMMA StripStartInv == Inv /\ StripStart => Inv'
<1> SUFFICES ASSUME Inv, StripStart PROVE Inv'
  OBVIOUS
<1>1. moves' \in SUBSET Move
  BY DEF StripStart, Inv, TypeOK, Move
<1> QED
  BY <1>1 DEF StripStart, Inv, TypeOK, NothingLost

LEMMA RenameInv == TreeConstants /\ Inv /\ Rename => Inv'
<1> SUFFICES ASSUME TreeConstants, Inv, Rename PROVE Inv'
  OBVIOUS
<1>1. PICK m \in moves :
        LET new == [at[m.file] EXCEPT !.name = Stripped[@]] IN
        /\ pc = "rename" /\ moves' = moves \ {m}
        /\ IF \E f \in Files \ {m.file} : at[f] = new
           THEN pc' = "raised" /\ UNCHANGED at
           ELSE at' = [at EXCEPT ![m.file] = new] /\ UNCHANGED pc
        /\ UNCHANGED <<script, dirs, probe, old>>
  BY DEF Rename
<1> DEFINE new == [at[m.file] EXCEPT !.name = Stripped[@]]
<1>2. CASE \E f \in Files \ {m.file} : at[f] = new
  BY <1>1, <1>2 DEF Inv, TypeOK, NothingLost
<1>3. CASE ~ \E f \in Files \ {m.file} : at[f] = new
  <2>1. m.file \in Files
    BY <1>1 DEF Inv, TypeOK, Move
  <2>2. at' = [at EXCEPT ![m.file] = new] /\ pc' = pc /\ pc = "rename"
    BY <1>1, <1>3
  <2>3. new \in [dir : Dirs, name : Names] /\ new.dir = at[m.file].dir
    BY <2>1 DEF Inv, TypeOK, TreeConstants
  <2> HIDE DEF new
  <2>4. \A g, h \in Files : at'[g] = at'[h] => g = h
    BY <1>3, <2>1, <2>2, <2>3, PathsDiffer DEF Inv
  <2>5. \A g \in Files : at'[g] = IF g = m.file THEN new ELSE at[g]
    BY <2>2 DEF Inv, TypeOK
  <2>6. \A g \in Files : at'[g].dir = at[g].dir
    BY <2>3, <2>5
  <2>7. TypeOK'
    BY <1>1, <2>2, <2>3 DEF Inv, TypeOK
  <2> QED
    BY <1>1, <2>2, <2>4, <2>6, <2>7 DEF Inv, NothingLost
<1> QED
  BY <1>2, <1>3

LEMMA StepInv == TreeConstants /\ Inv /\ [Next]_vars => Inv'
<1> SUFFICES ASSUME TreeConstants, Inv, [Next]_vars PROVE Inv'
  OBVIOUS
<1>1. CASE MovesDone \/ RemoveDone \/ RenameDone \/ UNCHANGED vars
  BY <1>1 DEF Inv, TypeOK, NothingLost, MovesDone, RemoveDone, RenameDone, vars
<1> QED
  BY <1>1, WalkInv, MoveFileInv, RemoveEmptyInv, StripStartInv, RenameInv DEF Next

LEMMA InvHolds ==
    ASSUME TreeConstants
    PROVE  Spec => []Inv
BY InitInv, StepInv, PTL DEF Spec

\* The tools are well typed for any tree.
THEOREM ToolsTypeCorrect ==
    ASSUME TreeConstants
    PROVE  Spec => []TypeOK
<1>1. Inv => TypeOK
  BY DEF Inv
<1> QED
  BY <1>1, InvHolds, PTL

\* reorg and strip_res lose no file of any tree.
THEOREM NothingLostSound ==
    ASSUME TreeConstants
    PROVE  Spec => []NothingLost
<1>1. Inv => NothingLost
  BY DEF Inv
<1> QED
  BY <1>1, InvHolds, PTL
-----------------------------------------------------------------------------
(* What reorg leaves behind: for Reorganised.                              *)

\* The path of a directory is longer than the path of its parent.
PathLengths ==
    /\ PathLength \in [Dirs -> Nat]
    /\ \A d \in Dirs \ {Root} : Parent[d] \in Dirs => PathLength[Parent[d]] < PathLength[d]

\* A file that cannot be, or has not yet been, brought home.
Settled(f) ==
    \/ at[f].dir \in Homes \cup {Home(f)}
    \/ \E g \in Files \ {f} : at[g].name = at[f].name

HasFile(d) == \E f \in Files : at[f].dir = d

\* While files move, a directory that is not going to be looked at was made
\* for a file that stays in it.  While directories are removed, one that has
\* been looked at is not empty, and what was not empty for a directory in it
\* stays so: those in it have longer paths, and their turn was before.
ReorgInv ==
    /\ pc = "rename" => script = "strip_res"
    /\ script = "reorg" /\ pc = "move" =>
         /\ \A m \in moves : m.home = Home(m.file)
         /\ \A f \in Files : Settled(f) \/ \E m \in moves : m.file = f
         /\ \A d \in dirs \ (Homes \cup old) : \E f \in Files : at[f].dir = d /\ Home(f) = d
    /\ script = "reorg" /\ pc \in {"remove", "ended"} =>
         /\ \A f \in Files : Settled(f)
         /\ \A d \in dirs \ (Homes \cup old) :
               \/ HasFile(d)
               \/ ~ Empty(d) /\ \A e \in old : PathLength[e] <= PathLength[d]
    /\ pc = "ended" /\ script = "reorg" => old = {}

LEMMA ReorgStart == Init => ReorgInv
BY DEF Init, ReorgInv

LEMMA WalkReorg == Inv /\ ReorgInv /\ Walk => ReorgInv'
<1> SUFFICES ASSUME Inv, ReorgInv, Walk PROVE ReorgInv'
  OBVIOUS
<1>1. PICK walked \in Walked :
        /\ pc = "start" /\ old' = walked
        /\ LET found == {f \in Files : at[f].dir \in walked}
           IN  IF \E f \in found : Home(f) = "error"
               THEN pc' = "raised" /\ UNCHANGED moves
               ELSE /\ pc' = "move"
                    /\ moves' = {[file |-> f, home |-> Home(f)] : f \in found}
        /\ UNCHANGED <<script, at, dirs, probe>>
  BY DEF Walk
<1>2. dirs \subseteq Homes \cup walked /\ old' = walked
  BY <1>1 DEF Walked
<1>3. \A f \in Files : Home(f)' = Home(f) /\ at'[f] = at[f] /\ at[f].dir \in dirs
  BY <1>1 DEF Home, Inv, NothingLost
<1>4. ASSUME pc' = "move"
      PROVE  /\ \A m \in moves' : m.home = Home(m.file)
             /\ \A f \in Files : at[f].dir \in Homes \/ \E m \in moves' : m.file = f
  <2>1. moves' = {[file |-> f, home |-> Home(f)] : f \in {g \in Files : at[g].dir \in walked}}
    BY <1>1, <1>4
  <2>2. ASSUME NEW f \in Files, at[f].dir \in walked PROVE \E m \in moves' : m.file = f
    <3>1. [file |-> f, home |-> Home(f)] \in moves'
      BY <2>1, <2>2
    <3> QED BY <3>1
  <2> QED BY <1>2, <1>3, <2>1, <2>2
<1>5. \A m \in moves' : m.file \in Files \/ pc' # "move"
  BY <1>1
<1> QED
  BY <1>1, <1>2, <1>3, <1>4, <1>5 DEF ReorgInv, Settled

\* A file that is moved is at home, or its name is taken there by another.
LEMMA MoveFileReorg == TreeConstants /\ Inv /\ ReorgInv /\ MoveFile => ReorgInv'
<1> SUFFICES ASSUME TreeConstants, Inv, ReorgInv, MoveFile PROVE ReorgInv'
  OBVIOUS
<1>1. PICK m \in moves :
        /\ pc = "move" /\ moves' = moves \ {m} /\ dirs' = dirs \cup {m.home}
        /\ at' = IF Taken([at[m.file] EXCEPT !.dir = m.home]) THEN at
                 ELSE [at EXCEPT ![m.file].dir = m.home]
        /\ UNCHANGED <<script, pc, probe, old>>
  BY DEF MoveFile
<1> SUFFICES ASSUME script = "reorg" PROVE ReorgInv'
  BY <1>1 DEF ReorgInv
<1>2. m.file \in Files /\ m.home = Home(m.file) /\ \A n \in moves : n.file \in Files
  BY <1>1 DEF Inv, TypeOK, Move, ReorgInv
<1>3. /\ \A f \in Files : at'[f].name = at[f].name /\ Home(f)' = Home(f)
      /\ \A f \in Files \ {m.file} : at'[f] = at[f]
  BY <1>1, <1>2 DEF Inv, TypeOK, Home
<1>4. \/ at'[m.file].dir = m.home
      \/ /\ at' = at
         /\ \E g \in Files \ {m.file} : at[g].name = at[m.file].name /\ at[g].dir = m.home
  <2>1. CASE Taken([at[m.file] EXCEPT !.dir = m.home])
    <3>1. PICK g \in Files : at[g] = [at[m.file] EXCEPT !.dir = m.home]
      BY <2>1 DEF Taken
    <3>2. at[g].dir = m.home /\ at[g].name = at[m.file].name
      BY <1>2, <3>1 DEF Inv, TypeOK
    <3> QED BY <1>1, <2>1, <3>2
  <2>2. CASE ~ Taken([at[m.file] EXCEPT !.dir = m.home])
    BY <1>1, <1>2, <2>2 DEF Inv, TypeOK
  <2> QED BY <2>1, <2>2
<1>5. \A f \in Files : Settled(f)' \/ \E n \in moves' : n.file = f
  <2>1. SUFFICES ASSUME NEW f \in Files, \A n \in moves' : n.file # f PROVE Settled(f)'
    OBVIOUS
  <2>2. CASE f = m.file
    BY <1>2, <1>3, <1>4, <2>2 DEF Settled
  <2>3. CASE f # m.file
    BY <1>1, <1>3, <2>1, <2>3 DEF Settled, ReorgInv
  <2> QED BY <2>2, <2>3
<1>6. \A d \in dirs' \ (Homes \cup old') : \E f \in Files : at'[f].dir = d /\ Home(f)' = d
  <2>1. SUFFICES ASSUME NEW d \in dirs', d \notin Homes, d \notin old
                 PROVE  \E f \in Files : at'[f].dir = d /\ Home(f)' = d
    BY <1>1
  <2>2. CASE d \in dirs
    <3>1. PICK f \in Files : at[f].dir = d /\ Home(f) = d
      BY <1>1, <2>1, <2>2 DEF ReorgInv
    <3>2. at'[f].dir = d
      BY <1>2, <1>3, <1>4, <3>1
    <3> QED BY <1>3, <3>1, <3>2
  <2>3. CASE d \notin dirs
    BY <1>1, <1>2, <1>3, <1>4, <2>1, <2>3 DEF Inv, NothingLost
  <2> QED BY <2>2, <2>3
<1> QED
  BY <1>1, <1>2, <1>3, <1>5, <1>6 DEF ReorgInv

LEMMA MovesDoneReorg == ReorgInv /\ MovesDone => ReorgInv'
<1> SUFFICES ASSUME ReorgInv, MovesDone PROVE ReorgInv'
  OBVIOUS
<1>1. pc = "move" /\ moves = {} /\ pc' = "remove" /\ UNCHANGED <<script, at, dirs, probe, old>>
  BY DEF MovesDone
<1>2. \A f \in Files : Settled(f) => Settled(f)'
  BY <1>1 DEF Settled, Home
<1>3. \A d : HasFile(d) => HasFile(d)'
  BY <1>1 DEF HasFile
<1> QED
  BY <1>1, <1>2, <1>3 DEF ReorgInv, HasFile

LEMMA RemoveEmptyReorg == PathLengths /\ Inv /\ ReorgInv /\ RemoveEmpty => ReorgInv'
<1> SUFFICES ASSUME PathLengths, Inv, ReorgInv, RemoveEmpty PROVE ReorgInv'
  OBVIOUS
<1>1. PICK d \in old :
        /\ pc = "remove" /\ \A e \in old : PathLength[d] >= PathLength[e]
        /\ old' = old \ {d} /\ dirs' = IF Empty(d) THEN dirs \ {d} ELSE dirs
        /\ UNCHANGED <<script, pc, at, probe, moves>>
  BY DEF RemoveEmpty
<1> SUFFICES ASSUME script = "reorg" PROVE ReorgInv'
  BY <1>1 DEF ReorgInv
<1>2. \A e \in Dirs : PathLength[e] \in Nat
  BY DEF PathLengths
<1>3. dirs \subseteq Dirs /\ old \subseteq Dirs
  BY DEF Inv, TypeOK
<1>4. ASSUME NEW x \in dirs', x \notin Homes, x \notin old'
      PROVE  \/ HasFile(x)
             \/ ~ Empty(x)' /\ \A e \in old' : PathLength[e] <= PathLength[x]
  <2>1. CASE x = d
    <3>1. ~ Empty(d) /\ dirs' = dirs
      BY <1>1, <1>4, <2>1
    <3> QED BY <1>1, <1>2, <1>3, <2>1, <3>1 DEF Empty
  <2>2. CASE x # d /\ ~ HasFile(x)
    <3>1. ~ Empty(x) /\ \A e \in old : PathLength[e] <= PathLength[x]
      BY <1>1, <1>4, <2>2 DEF ReorgInv
    <3>2. PICK y \in dirs \ {Root} : Parent[y] = x
      BY <2>2, <3>1 DEF Empty, HasFile
    <3>3. y # d
      BY <1>1, <1>2, <1>3, <1>4, <3>1, <3>2 DEF PathLengths
    <3>4. y \in dirs' \ {Root}
      BY <1>1, <3>2, <3>3
    <3>5. ~ Empty(x)'
      BY <3>2, <3>4 DEF Empty
    <3> QED BY <1>1, <3>1, <3>5
  <2> QED BY <2>1, <2>2
<1>5. \A f \in Files : Settled(f) => Settled(f)'
  BY <1>1 DEF Settled, Home
<1>6. \A x : HasFile(x) => HasFile(x)'
  BY <1>1 DEF HasFile
<1> QED
  BY <1>1, <1>4, <1>5, <1>6 DEF ReorgInv

LEMMA ReorgStep ==
    TreeConstants /\ PathLengths /\ Inv /\ ReorgInv /\ [Next]_vars => ReorgInv'
<1> SUFFICES ASSUME TreeConstants, PathLengths, Inv, ReorgInv, [Next]_vars PROVE ReorgInv'
  OBVIOUS
<1>1. CASE RemoveDone \/ UNCHANGED vars
  <2>1. UNCHANGED <<script, at, dirs, probe, moves, old>> /\ (pc' = pc \/ (pc = "remove" /\ pc' = "ended" /\ old = {}))
    BY <1>1 DEF RemoveDone, vars
  <2>2. \A f \in Files : Settled(f) => Settled(f)'
    BY <2>1 DEF Settled, Home
  <2>3. \A d : (HasFile(d) => HasFile(d)') /\ (~ Empty(d) => ~ Empty(d)')
    BY <2>1 DEF HasFile, Empty
  <2>4. \A f \in Files : Home(f)' = Home(f)
    BY <2>1 DEF Home
  <2>5. moves \subseteq Move
    BY DEF Inv, TypeOK
  <2> QED BY <2>1, <2>2, <2>3, <2>4, <2>5 DEF ReorgInv, Move
<1>2. CASE StripStart \/ Rename \/ RenameDone
  BY <1>2 DEF StripStart, Rename, RenameDone, ReorgInv
<1> QED
  BY <1>1, <1>2, WalkReorg, MoveFileReorg, MovesDoneReorg, RemoveEmptyReorg DEF Next

LEMMA ReorgInvReorganised == ReorgInv => Reorganised
BY DEF ReorgInv, Reorganised, Settled, HasFile, Empty

\* When reorg is done, every file is at home or its name is in the way, and
\* no directory is left that has nothing in it.
THEOREM ReorganisedSound ==
    ASSUME TreeConstants, PathLengths
    PROVE  Spec => []Reorganised
BY InvHolds, ReorgStart, ReorgStep, ReorgInvReorganised, PTL DEF Spec
=============================================================================
