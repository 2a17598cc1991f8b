----------------------------- MODULE TypeReorg -----------------------------
(***************************************************************************)
(* scripts/file_type_reorg.py: one run of organize_files.  It unpacks      *)
(* every archive below input_dir into one shared directory, moves what     *)
(* comes out into a directory for its category, puts the archive away,     *)
(* moves all other files to their categories, and removes the directories  *)
(* left empty.  Files in input_dir itself are not looked at.               *)
(*                                                                         *)
(* A path is a directory and a name; a name is a base and the counters     *)
(* added to it, and has no extension when its base is in NoExt.  An        *)
(* archive may be packed in another one.  It is then unpacked too, when    *)
(* the walk comes to the directory it was moved to.  Two members may have  *)
(* one name, in one directory of their archive or in different ones.       *)
(* temp_extract may hold what a run that was killed, or the user, left     *)
(* there, and the category directories what earlier runs put there.  A     *)
(* member that is unpacked again stands for its newest copy.               *)
(***************************************************************************)
EXTENDS Integers, Sequences, FiniteSets, Functions

CONSTANTS UserFiles,  \* files found in the tree, no archives
          Archives,   \* archives, found in the tree or in another archive
          MembersOf,  \* the files packed in each archive
          Leftover,   \* files that are below temp_extract when the run starts
          Base,       \* the base of the name of each file
          Entry,      \* its path below temp_extract, when it is there
          NoExt,      \* bases without an extension
          MayFail,    \* files that shutil.move may fail to move
          MaxCount    \* bound: counters tried for a name

VARIABLES pc,
          at,      \* the path of each file, None when it is on no disk
          dirs,    \* the directories below input_dir that exist
          walk,    \* directories os.walk has still to list
          pending, \* files it listed last that are still to be treated
          archive, \* the archive at hand
          out,     \* unpacked files the walk of temp_extract found
          unpacked,\* archives put away as extracted by this run
          errors   \* members with an error in the list of errors

vars == <<pc, at, dirs, walk, pending, archive, out, unpacked, errors>>

Members == UNION Range(MembersOf)
Files == UserFiles \cup Archives \cup Members
\* The files and archives of the user that no directory tree is removed with.
Own == (UserFiles \cup Archives) \ (Members \cup Leftover)
Categories == {"images", "archive", "archive_extracted"}
Dirs == Categories \cup {"sub", "temp_extract"}
None == [dir |-> "none", base |-> "none", n |-> <<>>]
NoArchive == [file |-> "none", path |-> None, success |-> FALSE]
\* The counters that were added to the name, one for each move that added one.
Path == [dir: Dirs, base: Range(Base) \cup Range(Entry), n: Seq(1 .. MaxCount)]

TypeOK ==
    /\ pc \in {"archives", "unpack", "members", "store", "files", "dirs", "ended"}
    /\ at \in [Files -> Path \cup {None}]
    /\ dirs \subseteq Dirs /\ walk \subseteq Dirs
    /\ pending \subseteq Path
    /\ archive \in [file: Archives \cup {"none"}, path: Path \cup {None}, success: BOOLEAN]
    /\ out \subseteq Files
    /\ unpacked \subseteq Archives
    /\ errors \subseteq Members

On(d) == {f \in Files : at[f].dir = d}
Unpacking(f) == [dir |-> "temp_extract", base |-> Entry[f], n |-> <<>>]
HasExt(f) == Base[f] \notin NoExt
Category(f) == IF f \in Archives THEN "archive" ELSE "images"

\* categorize_file: everything with an extension that is no archive shares
\* one category here.
Init ==
    /\ pc = "archives"
    /\ \E place \in [Own -> {"sub", "images", "archive"}],
          rest \in SUBSET (Members \ Leftover) :
          at = [f \in Files |->
                  IF f \in Own THEN [dir |-> place[f], base |-> Base[f], n |-> <<>>]
                  ELSE IF f \in Leftover \cup rest THEN Unpacking(f) ELSE None]
    /\ \A f, g \in Files : at[f] = at[g] /\ at[f] # None => f = g
    /\ \E earlier \in SUBSET {"archive", "archive_extracted"} :
          dirs = ({"sub"} \cup earlier \cup {at[f].dir : f \in Files}) \ {"none"}
    /\ walk = dirs
    /\ pending = {}
    /\ archive = NoArchive
    /\ out = {}
    /\ unpacked = {}
    /\ errors = {}

Taken(p) == \E f \in Files : at[f] = p

\* Mutant: a taken name is not noticed, and shutil.move replaces the file.
MoveOver(f, d) ==
    /\ dirs' = dirs \cup {d}
    /\ LET new == [at[f] EXCEPT !.dir = d]
       IN  at' = [g \in Files |-> IF g = f THEN new
                                  ELSE IF at[g] = new THEN None ELSE at[g]]

\* The directory is made.  When the name is taken in it, also by the file
\* itself, a counter is added that goes up until the name is not taken.
MoveTo(f, d) ==
    LET new(i) == [dir |-> d, base |-> Base[f],
                   n |-> IF i = 0 THEN at[f].n ELSE Append(at[f].n, i)]
    IN  /\ dirs' = dirs \cup {d}
        /\ \E i \in 0 .. MaxCount :
              /\ ~Taken(new(i))
              /\ \A j \in 0 .. i - 1 : Taken(new(j))
              /\ at' = [at EXCEPT ![f] = new(i)]

Report(f) == errors' = errors \cup ({f} \cap Members)

\* The directory is made all the same.
MoveFails(f, d) ==
    /\ f \in MayFail
    /\ Report(f)
    /\ dirs' = dirs \cup {d}
    /\ UNCHANGED at

\* os.walk lists a directory when it comes to it: what was moved there in
\* the meantime is treated once more.  The first pass is for the archives,
\* the second for all other files; a file without an extension is left alone.
ListDir == \E d \in walk :
    /\ pc \in {"archives", "files"}
    /\ pending = {}
    /\ walk' = walk \ {d}
    /\ pending' = {at[f] : f \in {g \in On(d) : HasExt(g) /\ (g \in Archives <=> pc = "archives")}}
    /\ UNCHANGED <<pc, at, dirs, archive, out, unpacked, errors>>

\* What was listed has been moved on meanwhile, with the files unpacked next
\* to it: it can neither be opened nor be moved.
Vanished == \E p \in pending :
    /\ pc = "archives"
    /\ ~Taken(p)
    /\ pending' = pending \ {p}
    /\ dirs' = dirs \cup {"temp_extract", "archive"}
    /\ UNCHANGED <<pc, at, walk, archive, out, unpacked, errors>>

-----------------------------------------------------------------------------
(* First pass.                                                             *)

\* Also one that was put away as extracted, when its directory is listed
\* after that.
NextArchive == \E a \in Archives :
    /\ pc = "archives"
    /\ at[a] \in pending
    /\ archive' = [file |-> a, path |-> at[a], success |-> FALSE]
    /\ pending' = pending \ {at[a]}
    /\ unpacked' = unpacked \ {a}
    /\ pc' = "unpack"
    /\ UNCHANGED <<at, dirs, walk, out, errors>>

\* Of members with one path, any may be the last, which stays.  What lay
\* there before is overwritten, and were it the archive itself.
Unpack(ms) ==
    /\ \A m, k \in ms : Entry[m] = Entry[k] => m = k
    /\ dirs' = dirs \cup {"temp_extract"}
    /\ at' = [f \in Files |->
                IF f \in ms THEN Unpacking(f)
                ELSE IF \E m \in ms : at[f] = Unpacking(m) THEN None ELSE at[f]]

\* Then every file with an extension in temp_extract is to be moved, also
\* the ones an earlier archive left there.
UnpackAll ==
    /\ pc = "unpack"
    /\ \E ms \in SUBSET MembersOf[archive.file] :
          /\ \A m \in MembersOf[archive.file] : \E k \in ms : Entry[k] = Entry[m]
          /\ Unpack(ms)
    /\ archive' = [archive EXCEPT !.success = TRUE]
    /\ out' = {f \in Files : at'[f].dir = "temp_extract" /\ HasExt(f)}
    /\ pc' = "members"
    /\ UNCHANGED <<walk, pending, unpacked, errors>>

\* An exception after some of the members.
UnpackFails ==
    /\ pc = "unpack"
    /\ \E ms \in SUBSET MembersOf[archive.file] : Unpack(ms)
    /\ Report(archive.file)
    /\ pc' = "store"
    /\ UNCHANGED <<walk, pending, archive, out, unpacked>>

MoveMember == \E f \in out :
    /\ pc = "members"
    /\ out' = out \ {f}
    /\ \/ MoveTo(f, Category(f)) /\ UNCHANGED errors
       \/ MoveFails(f, Category(f))
    /\ UNCHANGED <<pc, walk, pending, archive, unpacked>>

MembersDone ==
    /\ pc = "members" /\ out = {}
    /\ pc' = "store"
    /\ UNCHANGED <<at, dirs, walk, pending, archive, out, unpacked, errors>>

\* Mutant: an archive that could not be unpacked is put away all the same.
StoreAlways ==
    /\ pc = "store"
    /\ \E f \in Archives : at[f] = archive.path /\ MoveTo(f, "archive_extracted")
    /\ unpacked' = unpacked \cup {archive.file}
    /\ pc' = "archives"
    /\ archive' = NoArchive
    /\ UNCHANGED <<walk, pending, out, errors>>

Target == IF archive.success THEN "archive_extracted" ELSE "archive"

\* Whatever archive is at the path now is put away: a member may have been
\* unpacked over the one that was opened.
StoreArchive ==
    /\ pc = "store"
    /\ \E f \in Archives : at[f] = archive.path /\ MoveTo(f, Target)
    /\ unpacked' = IF archive.success THEN unpacked \cup {archive.file} ELSE unpacked
    /\ pc' = "archives"
    /\ archive' = NoArchive
    /\ UNCHANGED <<walk, pending, out, errors>>

StoreFails ==
    /\ pc = "store"
    /\ \/ \E f \in Archives : at[f] = archive.path /\ MoveFails(f, Target)
       \/ /\ ~Taken(archive.path)
          /\ Report(archive.file)
          /\ dirs' = dirs \cup {Target}
          /\ UNCHANGED at
    /\ pc' = "archives"
    /\ archive' = NoArchive
    /\ UNCHANGED <<walk, pending, out, unpacked>>

-----------------------------------------------------------------------------

\* rmtree of temp_extract; an error may keep some of it.
CleanUp == \E gone \in SUBSET On("temp_extract") :
    /\ pc = "archives" /\ walk = {} /\ pending = {}
    /\ at' = [f \in Files |-> IF f \in gone THEN None ELSE at[f]]
    /\ \/ UNCHANGED dirs
       \/ gone = On("temp_extract") /\ dirs' = dirs \ {"temp_extract"}
    /\ walk' = dirs'
    /\ pc' = "files"
    /\ UNCHANGED <<pending, archive, out, unpacked, errors>>

\* Second pass, the category directories included.
MoveFile == \E f \in Files \ Archives :
    /\ pc = "files"
    /\ at[f] \in pending
    /\ pending' = pending \ {at[f]}
    /\ \/ MoveTo(f, Category(f)) /\ UNCHANGED errors
       \/ MoveFails(f, Category(f))
    /\ UNCHANGED <<pc, walk, archive, out, unpacked>>

FilesDone ==
    /\ pc = "files" /\ walk = {} /\ pending = {}
    /\ pc' = "dirs"
    /\ UNCHANGED <<at, dirs, walk, pending, archive, out, unpacked, errors>>

\* os.listdir is empty, and rmdir may fail.
RemoveDirs ==
    /\ pc = "dirs"
    /\ \E ds \in SUBSET {d \in dirs \ Categories : On(d) = {}} : dirs' = dirs \ ds
    /\ pc' = "ended"
    /\ UNCHANGED <<at, walk, pending, archive, out, unpacked, errors>>

Next ==
    \/ ListDir \/ Vanished
    \/ NextArchive \/ UnpackAll \/ UnpackFails \/ MoveMember \/ MembersDone
    \/ StoreArchive \/ StoreFails \/ CleanUp
    \/ MoveFile \/ FilesDone \/ RemoveDirs

Spec == Init /\ [][Next]_vars

-----------------------------------------------------------------------------

\* Nothing the user had outside temp_extract, and outside of archives, is
\* lost: every file and every archive has a path of its own in a directory
\* that exists.  (What lies in temp_extract at the start is overwritten and
\* removed with it, file_type_reorg.py:173-176.)
FilesKept ==
    /\ \A f \in Own : at[f] # None /\ at[f].dir \in dirs
    /\ \A f, g \in Files : at[f] = at[g] /\ at[f] # None => f = g

\* A member has got where it belongs, or an error says it has not.  An
\* archive is in its category first and, when the walk comes to it there,
\* unpacked in turn.
Delivered(m) ==
    \/ m \in errors
    \/ at[m].dir \in IF m \in Archives THEN {"archive", "archive_extracted"} ELSE {"images"}

\* An archive is put away as extracted only when everything with an extension
\* in it has been delivered, the archives packed in it included.  Of members
\* with one path only one can be.
Unpacked == \A a \in unpacked : \A m \in MembersOf[a] :
    HasExt(m) => \E k \in MembersOf[a] : Entry[k] = Entry[m] /\ Delivered(k)
=============================================================================
