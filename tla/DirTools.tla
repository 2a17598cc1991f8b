------------------------------ MODULE DirTools ------------------------------
(***************************************************************************)
(* reorg and strip_res of ihb_common/utils/dir_utils.py.  reorg moves every*)
(* file below a directory into a home directory for its kind and removes   *)
(* the directories left empty; strip_res takes the resolution out of every *)
(* file name.                                                              *)
(*                                                                         *)
(* The tree has the directories of Dirs; an AV file goes where ffprobe     *)
(* finds it to belong.  shutil.move and os.rename (on Windows, which the   *)
(* module needs) refuse a name that is taken.  The tree is used by nobody  *)
(* else meanwhile.                                                         *)
(***************************************************************************)
EXTENDS Integers, FiniteSets

CONSTANTS Files,     \* the files below input_dir
          Names,     \* their names
          Dirs,      \* input_dir, its subdirectories and the home directories
          Root,      \* input_dir
          Parent,    \* the parent of each directory but Root
          PathLength,\* the length of the path of each directory
          Homes,     \* home directories reorg knows by name when it walks
          HomeOf,    \* the home of a name, or "AV"
          Stripped   \* the name without a resolution

VARIABLES script, \* which of the two runs
          pc,
          at,     \* the directory and the name of each file
          dirs,   \* the directories that exist
          probe,  \* what ffprobe says of each file: a home, or "error"
          moves,  \* moves still to be made: from NEW_HOMES
          old     \* OLD_DIRS, those still to be looked at

vars == <<script, pc, at, dirs, probe, moves, old>>

Move == [file: Files, home: Dirs]

TypeOK ==
    /\ script \in {"reorg", "strip_res"}
    /\ pc \in {"start", "move", "remove", "rename", "ended", "raised"}
    /\ at \in [Files -> [dir: Dirs, name: Names]]
    /\ dirs \subseteq Dirs
    /\ probe \in [Files -> Dirs \cup {"error"}]
    /\ moves \in SUBSET Move
    /\ old \subseteq Dirs

\* Any tree in which every file has a path of its own.
Init ==
    /\ script \in {"reorg", "strip_res"}
    /\ pc = "start"
    /\ at \in [Files -> [dir: Dirs, name: Names]]
    /\ \A f, g \in Files : at[f] = at[g] => f = g
    /\ dirs \in {ds \in SUBSET Dirs : Root \in ds}
    /\ \A d \in dirs \ {Root} : Parent[d] \in dirs
    /\ \A f \in Files : at[f].dir \in dirs
    /\ probe \in [Files -> Homes \cup {"error"}]
    /\ script = "reorg" \/ \A f \in Files : probe[f] = "error"
    /\ moves = {}
    /\ old = {}

Taken(p) == \E f \in Files : at[f] = p

-----------------------------------------------------------------------------
(* reorg *)

\* With a trailing separator in input_dir no home directory is recognised,
\* and the walk goes through all of them.
Walked == {dirs, dirs \ Homes}

Home(f) == IF HomeOf[at[f].name] = "AV" THEN probe[f] ELSE HomeOf[at[f].name]

\* The walk, and a probe of every AV file: the answer None of a failed probe
\* raises before anything has moved.
Walk == \E walked \in Walked :
    /\ script = "reorg" /\ pc = "start"
    /\ old' = walked
    /\ LET found == {f \in Files : at[f].dir \in walked}
       IN  IF \E f \in found : Home(f) = "error"
           THEN pc' = "raised" /\ UNCHANGED moves
           ELSE /\ pc' = "move"
                /\ moves' = {[file |-> f, home |-> Home(f)] : f \in found}
    /\ UNCHANGED <<script, at, dirs, probe>>

\* Mutant: a file that cannot be moved replaces the one in its way.
MoveOver == \E m \in moves :
    /\ pc = "move"
    /\ moves' = moves \ {m}
    /\ dirs' = dirs \cup {m.home}
    /\ at' = [at EXCEPT ![m.file].dir = m.home]
    /\ UNCHANGED <<script, pc, probe, old>>

\* The home is made when it is not there.  A name taken in it, also by the
\* file itself, is an error that is printed.
MoveFile == \E m \in moves :
    /\ pc = "move"
    /\ moves' = moves \ {m}
    /\ dirs' = dirs \cup {m.home}
    /\ at' = IF Taken([at[m.file] EXCEPT !.dir = m.home]) THEN at
             ELSE [at EXCEPT ![m.file].dir = m.home]
    /\ UNCHANGED <<script, pc, probe, old>>

MovesDone ==
    /\ pc = "move" /\ moves = {}
    /\ pc' = "remove"
    /\ UNCHANGED <<script, at, dirs, probe, moves, old>>

\* os.listdir(d) is empty.
Empty(d) ==
    /\ \A f \in Files : at[f].dir # d
    /\ \A e \in dirs \ {Root} : Parent[e] # d

\* Mutant: the shortest path first.
RemoveFromTop == \E d \in old :
    /\ pc = "remove"
    /\ \A e \in old : PathLength[d] <= PathLength[e]
    /\ old' = old \ {d}
    /\ dirs' = IF Empty(d) THEN dirs \ {d} ELSE dirs
    /\ UNCHANGED <<script, pc, at, probe, moves>>

\* The longest path first, so that no directory is kept for an empty one.
RemoveEmpty == \E d \in old :
    /\ pc = "remove"
    /\ \A e \in old : PathLength[d] >= PathLength[e]
    /\ old' = old \ {d}
    /\ dirs' = IF Empty(d) THEN dirs \ {d} ELSE dirs
    /\ UNCHANGED <<script, pc, at, probe, moves>>

RemoveDone ==
    /\ pc = "remove" /\ old = {}
    /\ pc' = "ended"
    /\ UNCHANGED <<script, at, dirs, probe, moves, old>>

-----------------------------------------------------------------------------
(* strip_res; a rename that raises ends it. *)

StripStart ==
    /\ script = "strip_res" /\ pc = "start"
    /\ pc' = "rename"
    /\ moves' = {[file |-> f, home |-> at[f].dir] : f \in Files}
    /\ UNCHANGED <<script, at, dirs, probe, old>>

Rename == \E m \in moves :
    LET new == [at[m.file] EXCEPT !.name = Stripped[@]] IN
    /\ pc = "rename"
    /\ moves' = moves \ {m}
    /\ IF \E f \in Files \ {m.file} : at[f] = new
       THEN pc' = "raised" /\ UNCHANGED at
       ELSE at' = [at EXCEPT ![m.file] = new] /\ UNCHANGED pc
    /\ UNCHANGED <<script, dirs, probe, old>>

RenameDone ==
    /\ pc = "rename" /\ moves = {}
    /\ pc' = "ended"
    /\ UNCHANGED <<script, at, dirs, probe, moves, old>>

Next ==
    \/ Walk \/ MoveFile \/ MovesDone \/ RemoveEmpty \/ RemoveDone
    \/ StripStart \/ Rename \/ RenameDone

Spec == Init /\ [][Next]_vars

-----------------------------------------------------------------------------

\* No file is lost: each has a path of its own, in a directory that exists,
\* and every directory hangs in the tree.
NothingLost ==
    /\ \A f, g \in Files : at[f] = at[g] => f = g
    /\ \A f \in Files : at[f].dir \in dirs
    /\ \A d \in dirs \ {Root} : Parent[d] \in dirs

\* After reorg a file is in its home or was left alone in a home directory;
\* only files that share a name can be anywhere else.  And no directory
\* outside the homes is empty.
Reorganised == script = "reorg" /\ pc = "ended" =>
    /\ \A f \in Files :
          \/ at[f].dir \in Homes \cup {Home(f)}
          \/ \E g \in Files \ {f} : at[g].name = at[f].name
    /\ \A d \in dirs \ Homes : ~Empty(d)
=============================================================================
