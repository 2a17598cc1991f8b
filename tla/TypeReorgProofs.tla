-------------------------- MODULE TypeReorgProofs --------------------------
(***************************************************************************)
(* file_type_reorg loses no file of the user and no archive that was       *)
(* outside temp_extract, and an archive counts as extracted only when what *)
(* it held has been delivered, whatever the archives hold, other archives  *)
(* included, whichever names are taken and whatever fails.                 *)
(***************************************************************************)
EXTENDS TypeReorg, TLAPS

\* Every archive has members, which may be archives.
Packing == MembersOf \in [Archives -> SUBSET Members]

Place == [dir : Dirs, base : {Base[f] : f \in Files} \cup {Entry[f] : f \in Files},
          n : Seq(Nat)]

\* Files of the user are never in temp_extract; the archive at hand is one.
Inv ==
    /\ at \in [Files -> Place \cup {None}]
    /\ FilesKept
    /\ \A f \in Files : at[f] # None => at[f].dir \in dirs
    /\ \A f \in Own : at[f].dir # "temp_extract"
    /\ out \subseteq Files
    /\ pc \in {"unpack", "members", "store"} => archive.file \in Archives

-----------------------------------------------------------------------------

LEMMA PlaceNotNone == ASSUME NEW p \in Place PROVE p # None
BY DEF Place, Dirs, Categories, None

\* A file that moves gets a path of its own in a directory that exists, and
\* the others stay where they are.
LEMMA MoveToKeeps ==
    ASSUME MaxCount \in Nat, Inv, NEW f \in Files,
           NEW d \in Categories, MoveTo(f, d)
    PROVE  /\ at' \in [Files -> Place \cup {None}]
           /\ FilesKept'
           /\ \A g \in Files : at'[g] # None => at'[g].dir \in dirs'
           /\ \A g \in Own : at'[g].dir # "temp_extract"
<1> DEFINE new(i) == [dir |-> d, base |-> Base[f],
                      n |-> IF i = 0 THEN at[f].n ELSE Append(at[f].n, i)]
<1>1. PICK i \in 0 .. MaxCount : ~Taken(new(i)) /\ at' = [at EXCEPT ![f] = new(i)]
  BY DEF MoveTo
<1>2. dirs' = dirs \cup {d}
  BY DEF MoveTo
<1> DEFINE p == new(i)
<1>3. at[f].n \in Seq(Nat)
  <2>1. CASE at[f] \in Place
    BY <2>1 DEF Place
  <2>2. CASE at[f] = None
    <3>1. at[f].n = <<>>
      BY <2>2 DEF None
    <3> QED
      BY <3>1
  <2> QED
    BY <2>1, <2>2 DEF Inv
<1>4. p \in Place /\ p.dir = d
  <2>1. i \in Nat
    BY <1>1
  <2>2. (IF i = 0 THEN at[f].n ELSE Append(at[f].n, i)) \in Seq(Nat)
    BY <1>3, <2>1
  <2> QED
    BY <2>2 DEF Place, Dirs
<1>5. d # "temp_extract"
  BY DEF Categories
<1>6. \A g \in Files : at[g] # p
  BY <1>1 DEF Taken
<1>7. at' = [at EXCEPT ![f] = p]
  BY <1>1
<1> HIDE DEF p
<1>8. \A g \in Files : at'[g] = IF g = f THEN p ELSE at[g]
  BY <1>7 DEF Inv
<1>9. at' \in [Files -> Place \cup {None}]
  BY <1>4, <1>7 DEF Inv
<1>10. \A g \in Files : at'[g] # None => at'[g].dir \in dirs'
  BY <1>2, <1>4, <1>8 DEF Inv
<1>11. \A g \in Own : at'[g].dir # "temp_extract"
  BY <1>4, <1>5, <1>8 DEF Inv, Files, Own
<1>12. FilesKept'
  <2>1. \A g \in Own : at'[g] # None
    BY <1>4, <1>8, PlaceNotNone DEF Inv, FilesKept, Files, Own
  <2>2. \A g, h \in Files : at'[g] = at'[h] /\ at'[g] # None => g = h
    BY <1>6, <1>8 DEF Inv, FilesKept
  <2> QED
    BY <1>10, <2>1, <2>2 DEF FilesKept, Files, Own
<1> QED
  BY <1>9, <1>10, <1>11, <1>12

\* What is unpacked replaces only unpacked files and what was left.
LEMMA UnpackKeeps ==
    ASSUME Packing, Inv, NEW a \in Archives, NEW ms \in SUBSET MembersOf[a], Unpack(ms)
    PROVE  /\ at' \in [Files -> Place \cup {None}]
           /\ FilesKept'
           /\ \A g \in Files : at'[g] # None => at'[g].dir \in dirs'
           /\ \A g \in Own : at'[g].dir # "temp_extract"
<1>1. ms \subseteq Members /\ ms \subseteq Files
  BY DEF Packing, Files
<1>2. \A m \in Files : /\ Unpacking(m) \in Place /\ Unpacking(m).dir = "temp_extract"
                       /\ Unpacking(m).base = Entry[m]
  BY DEF Place, Dirs, Unpacking
<1>3. /\ \A m, k \in ms : Entry[m] = Entry[k] => m = k
      /\ dirs' = dirs \cup {"temp_extract"}
      /\ at' = [f \in Files |->
                  IF f \in ms THEN Unpacking(f)
                  ELSE IF \E m \in ms : at[f] = Unpacking(m) THEN None ELSE at[f]]
  BY DEF Unpack
<1>4. at' \in [Files -> Place \cup {None}]
  BY <1>2, <1>3 DEF Inv
<1>5. \A g \in Files : at'[g] # None => at'[g].dir \in dirs'
  BY <1>2, <1>3 DEF Inv
<1>6. \A g \in Own : at'[g] = at[g]
  <2>1. SUFFICES ASSUME NEW g \in Own PROVE at'[g] = at[g]
    OBVIOUS
  <2>2. g \in Files /\ g \notin ms
    BY <1>1 DEF Own, Files
  <2>3. \A m \in ms : at[g] # Unpacking(m)
    BY <1>1, <1>2 DEF Inv
  <2> QED
    BY <1>3, <2>2, <2>3
<1>7. \A g, h \in Files : at'[g] = at'[h] /\ at'[g] # None => g = h
  <2>1. SUFFICES ASSUME NEW g \in Files, NEW h \in Files, at'[g] = at'[h], at'[g] # None
                 PROVE  g = h
    OBVIOUS
  <2>2. CASE g \in ms /\ h \in ms
    BY <1>1, <1>2, <1>3, <2>1, <2>2
  <2>3. CASE g \in ms /\ h \notin ms
    BY <1>3, <2>1, <2>3
  <2>4. CASE g \notin ms /\ h \in ms
    BY <1>3, <2>1, <2>4
  <2>5. CASE g \notin ms /\ h \notin ms
    BY <1>3, <2>1, <2>5 DEF Inv, FilesKept
  <2> QED
    BY <2>2, <2>3, <2>4, <2>5
<1>8. FilesKept'
  <2>1. \A g \in Own : at'[g] # None /\ at'[g].dir \in dirs'
    BY <1>3, <1>6 DEF Inv, FilesKept
  <2> QED
    BY <1>7, <2>1 DEF FilesKept
<1>9. \A g \in Own : at'[g].dir # "temp_extract"
  BY <1>6 DEF Inv
<1> QED
  BY <1>4, <1>5, <1>8, <1>9

-----------------------------------------------------------------------------

\* Where the files are at the start.
LEMMA InitPlaces ==
    ASSUME Init
    PROVE  \E place \in [Own -> {"sub", "images", "archive"}] :
             \A f \in Files :
                \/ f \in Own /\ at[f] = [dir |-> place[f], base |-> Base[f], n |-> <<>>]
                \/ f \notin Own /\ at[f] \in {Unpacking(f), None}
<1>1. PICK place \in [Own -> {"sub", "images", "archive"}], rest \in SUBSET (Members \ Leftover) :
        at = [f \in Files |->
                IF f \in Own THEN [dir |-> place[f], base |-> Base[f], n |-> <<>>]
                ELSE IF f \in Leftover \cup rest THEN Unpacking(f) ELSE None]
  BY DEF Init
<1>2. WITNESS place \in [Own -> {"sub", "images", "archive"}]
<1> QED
  BY <1>1

LEMMA InitInv == Packing /\ Init => Inv
<1> SUFFICES ASSUME Packing, Init PROVE Inv
  OBVIOUS
<1>1. PICK place \in [Own -> {"sub", "images", "archive"}] :
        \A f \in Files :
           \/ f \in Own /\ at[f] = [dir |-> place[f], base |-> Base[f], n |-> <<>>]
           \/ f \notin Own /\ at[f] \in {Unpacking(f), None}
  BY InitPlaces
<1>2. Own \subseteq Files /\ <<>> \in Seq(Nat)
  BY DEF Own, Files
<1>3. \A f \in Own : at[f] \in Place /\ at[f].dir # "temp_extract"
  <2>1. SUFFICES ASSUME NEW f \in Own PROVE at[f] \in Place /\ at[f].dir # "temp_extract"
    OBVIOUS
  <2>2. at[f] = [dir |-> place[f], base |-> Base[f], n |-> <<>>] /\ f \in Files
    BY <1>1, <1>2
  <2>3. place[f] \in {"sub", "images", "archive"}
    OBVIOUS
  <2> QED
    BY <1>2, <2>2, <2>3 DEF Place, Dirs, Categories
<1>4. \A f \in Files : at[f] \in Place \cup {None}
  <2>1. \A f \in Files : Unpacking(f) \in Place
    BY <1>2 DEF Place, Dirs, Unpacking
  <2> QED
    BY <1>1, <1>3, <2>1
<1>5. at \in [Files -> Place \cup {None}]
  BY <1>4 DEF Init
<1>6. \A f \in Files : at[f] # None => at[f].dir \in dirs
  <2>1. SUFFICES ASSUME NEW f \in Files, at[f] # None PROVE at[f].dir \in dirs
    OBVIOUS
  <2>2. at[f].dir # "none"
    BY <1>4, <2>1 DEF Place, Dirs, Categories
  <2> QED
    BY <2>2 DEF Init
<1>7. FilesKept
  BY <1>2, <1>3, <1>6, PlaceNotNone DEF Init, FilesKept
<1> QED
  BY <1>3, <1>5, <1>6, <1>7 DEF Init, Inv

\* A step that moves no file, to a directory it may make.
LEMMA QuietInv ==
    ASSUME Inv,
           ListDir \/ Vanished \/ NextArchive \/ MembersDone \/ FilesDone \/ UNCHANGED vars
    PROVE  Inv'
<1>1. at' = at /\ dirs \subseteq dirs'
  BY DEF ListDir, Vanished, NextArchive, MembersDone, FilesDone, vars
<1>2. /\ out' \subseteq Files
      /\ pc' \in {"unpack", "members", "store"} => archive'.file \in Archives
  <2>1. CASE NextArchive
    BY <2>1 DEF Inv, NextArchive
  <2>2. CASE ListDir \/ Vanished \/ MembersDone \/ FilesDone \/ UNCHANGED vars
    BY <2>2 DEF Inv, ListDir, Vanished, MembersDone, FilesDone, vars
  <2> QED
    BY <2>1, <2>2
<1>3. FilesKept'
  BY <1>1 DEF Inv, FilesKept
<1> QED
  BY <1>1, <1>2, <1>3 DEF Inv

LEMMA UnpackInv == Packing /\ Inv /\ (UnpackAll \/ UnpackFails) => Inv'
<1> SUFFICES ASSUME Packing, Inv, UnpackAll \/ UnpackFails PROVE Inv'
  OBVIOUS
<1>1. archive.file \in Archives
  BY DEF Inv, UnpackAll, UnpackFails
<1>2. \E ms \in SUBSET MembersOf[archive.file] : Unpack(ms)
  BY DEF UnpackAll, UnpackFails
<1>3. /\ archive'.file = archive.file /\ out' \subseteq Files
  <2>1. CASE UnpackAll
    <3>1. archive' = [archive EXCEPT !.success = TRUE]
      BY <2>1 DEF UnpackAll
    <3> QED
      BY <2>1, <3>1 DEF UnpackAll
  <2>2. CASE UnpackFails
    BY <2>2 DEF UnpackFails, Inv
  <2> QED
    BY <2>1, <2>2
<1>4. /\ at' \in [Files -> Place \cup {None}]
      /\ FilesKept'
      /\ \A g \in Files : at'[g] # None => at'[g].dir \in dirs'
      /\ \A g \in Own : at'[g].dir # "temp_extract"
  BY <1>1, <1>2, UnpackKeeps
<1> QED
  BY <1>1, <1>3, <1>4 DEF Inv

LEMMA MoveInv ==
    MaxCount \in Nat /\ Inv /\ (MoveMember \/ MoveFile \/ StoreArchive \/ StoreFails) => Inv'
<1> SUFFICES ASSUME MaxCount \in Nat, Inv, MoveMember \/ MoveFile \/ StoreArchive \/ StoreFails
             PROVE  Inv'
  OBVIOUS
<1>1. \/ at' = at /\ dirs \subseteq dirs'
      \/ \E f \in Files, d \in Categories : MoveTo(f, d)
  <2>1. CASE MoveMember \/ MoveFile
    BY <2>1 DEF Inv, MoveMember, MoveFile, MoveFails, Category, Categories
  <2>2. CASE StoreArchive
    BY <2>2 DEF StoreArchive, Files, Categories, Target
  <2>3. CASE StoreFails
    BY <2>3 DEF StoreFails, MoveFails
  <2> QED
    BY <2>1, <2>2, <2>3
<1>2. /\ at' \in [Files -> Place \cup {None}]
      /\ FilesKept'
      /\ \A g \in Files : at'[g] # None => at'[g].dir \in dirs'
      /\ \A g \in Own : at'[g].dir # "temp_extract"
  <2>1. CASE at' = at /\ dirs \subseteq dirs'
    BY <2>1 DEF Inv, FilesKept
  <2>2. CASE \E f \in Files, d \in Categories : MoveTo(f, d)
    BY <2>2, MoveToKeeps
  <2> QED
    BY <1>1, <2>1, <2>2
<1>3. /\ out' \subseteq Files
      /\ pc' \in {"unpack", "members", "store"} => archive'.file \in Archives
  BY DEF Inv, MoveMember, MoveFile, StoreArchive, StoreFails
<1> QED
  BY <1>2, <1>3 DEF Inv

\* Only the directory of the unpacked files is emptied.
LEMMA CleanUpInv == Inv /\ CleanUp => Inv'
<1> SUFFICES ASSUME Inv, CleanUp PROVE Inv'
  OBVIOUS
<1>1. PICK gone \in SUBSET On("temp_extract") :
        /\ pc = "archives" /\ pc' = "files"
        /\ at' = [f \in Files |-> IF f \in gone THEN None ELSE at[f]]
        /\ \/ UNCHANGED dirs
           \/ gone = On("temp_extract") /\ dirs' = dirs \ {"temp_extract"}
        /\ UNCHANGED <<pending, archive, out, unpacked, errors>>
  BY DEF CleanUp
<1>2. \A f \in Own : f \in Files /\ f \notin gone
  BY <1>1 DEF Inv, On, Files, Own
<1>3. at' \in [Files -> Place \cup {None}]
  BY <1>1 DEF Inv
<1>4. \A f \in Files : at'[f] # None => at'[f].dir \in dirs'
  BY <1>1 DEF Inv, On
<1>5. \A f \in Own : at'[f] = at[f]
  BY <1>1, <1>2
<1>6. FilesKept'
  BY <1>1, <1>2, <1>4, <1>5 DEF Inv, FilesKept
<1> QED
  BY <1>1, <1>3, <1>4, <1>5, <1>6 DEF Inv

LEMMA RemoveDirsInv == Inv /\ RemoveDirs => Inv'
<1> SUFFICES ASSUME Inv, RemoveDirs PROVE Inv'
  OBVIOUS
<1>1. PICK ds \in SUBSET {d \in dirs \ Categories : On(d) = {}} : dirs' = dirs \ ds
  BY DEF RemoveDirs
<1>2. pc' = "ended" /\ UNCHANGED <<at, walk, pending, archive, out, unpacked, errors>>
  BY DEF RemoveDirs
<1>3. \A f \in Files : at[f] # None => at[f].dir \in dirs'
  BY <1>1 DEF Inv, On
<1>4. FilesKept'
  BY <1>2, <1>3 DEF Inv, FilesKept, Files, Own
<1> QED
  BY <1>2, <1>3, <1>4 DEF Inv

LEMMA StepInv == Packing /\ MaxCount \in Nat /\ Inv /\ [Next]_vars => Inv'
BY QuietInv, UnpackInv, MoveInv, CleanUpInv, RemoveDirsInv DEF Next

\* No file of the user, and no archive, that was outside temp_extract is lost.
THEOREM FilesKeptSound ==
    ASSUME Packing, MaxCount \in Nat
    PROVE  Spec => []FilesKept
<1>1. Inv => FilesKept
  BY DEF Inv
<1> QED
  BY <1>1, InitInv, StepInv, PTL DEF Spec
-----------------------------------------------------------------------------
(* Types, and what counts as extracted: for Unpacked.                      *)

\* Every file has a name, which tells archives from other files, and a path
\* below temp_extract that ends in it.
Naming ==
    /\ DOMAIN Base = Files /\ DOMAIN Entry = Files
    /\ \A f, g \in Files : /\ Entry[f] = Entry[g] => Base[f] = Base[g]
                           /\ Base[f] = Base[g] => (f \in Archives <=> g \in Archives)

\* An archive has its members for itself.
OwnMembers == \A a, b \in Archives : a # b => MembersOf[a] \cap MembersOf[b] = {}

\* What an archive holds under the name of one of its members is delivered.
MemberDone(a, m) ==
    HasExt(m) => \E k \in MembersOf[a] : Entry[k] = Entry[m] /\ Delivered(k)

\* The archive at hand does not count as extracted.  Once it has been
\* unpacked, what it held under a name is delivered or still to be moved.
ExtractInv ==
    /\ TypeOK
    /\ Unpacked
    /\ pc \in {"unpack", "members", "store"} => archive.file \notin unpacked
    /\ pc = "unpack" => ~ archive.success
    /\ pc \in {"members", "store"} /\ archive.success =>
         \A m \in MembersOf[archive.file] :
            \/ MemberDone(archive.file, m)
            \/ /\ pc = "members"
               /\ \E k \in MembersOf[archive.file] : Entry[k] = Entry[m] /\ k \in out

\* A step that keeps what is delivered.
Keeps(S) == \A k \in S : Delivered(k) => Delivered(k)'

LEMMA MembersAreFiles ==
    ASSUME Packing, NEW a \in Archives
    PROVE  MembersOf[a] \subseteq Members /\ MembersOf[a] \subseteq Files
BY DEF Packing, Files

LEMMA UnpackedStays ==
    ASSUME Packing, ExtractInv, unpacked' \subseteq unpacked,
           \A a \in unpacked' : Keeps(MembersOf[a])
    PROVE  Unpacked'
<1> SUFFICES ASSUME NEW a \in unpacked', NEW m \in MembersOf[a], HasExt(m)
             PROVE  \E k \in MembersOf[a] : Entry[k] = Entry[m] /\ Delivered(k)'
  BY DEF Unpacked, HasExt
<1>1. PICK k \in MembersOf[a] : Entry[k] = Entry[m] /\ Delivered(k)
  BY DEF ExtractInv, Unpacked
<1> QED
  BY <1>1 DEF Keeps

\* Where a file goes, and that the others stay.
LEMMA MoveToPlace ==
    ASSUME MaxCount \in Nat, Naming, TypeOK, NEW f \in Files,
           NEW d \in Categories, MoveTo(f, d)
    PROVE  /\ at' \in [Files -> Path \cup {None}] /\ dirs' \subseteq Dirs
           /\ at'[f].dir = d
           /\ \A g \in Files \ {f} : at'[g] = at[g]
<1>1. PICK i \in 0 .. MaxCount :
        at' = [at EXCEPT ![f] = [dir |-> d, base |-> Base[f],
                                 n |-> IF i = 0 THEN at[f].n ELSE Append(at[f].n, i)]]
  BY DEF MoveTo
<1> DEFINE n == IF i = 0 THEN at[f].n ELSE Append(at[f].n, i)
<1>2. at[f].n \in Seq(1 .. MaxCount)
  <2>1. CASE at[f] \in Path
    BY <2>1 DEF Path
  <2>2. CASE at[f] = None
    BY <2>2 DEF None
  <2> QED BY <2>1, <2>2 DEF TypeOK
<1>3. n \in Seq(1 .. MaxCount)
  <2>1. CASE i = 0
    BY <1>2, <2>1
  <2>2. CASE i # 0
    <3>1. i \in 1 .. MaxCount
      BY <2>2
    <3>2. Append(at[f].n, i) \in Seq(1 .. MaxCount)
      BY <1>2, <3>1
    <3> QED BY <2>2, <3>2
  <2> QED BY <2>1, <2>2
<1>4. Base[f] \in Range(Base)
  BY DEF Naming, Range
<1> DEFINE p == [dir |-> d, base |-> Base[f], n |-> n]
<1>5. p \in Path /\ p.dir = d
  <2> HIDE DEF n
  <2> QED BY <1>3, <1>4 DEF Path, Dirs
<1>6. at' = [at EXCEPT ![f] = p]
  BY <1>1
<1> HIDE DEF p
<1>7. dirs' = dirs \cup {d}
  BY DEF MoveTo
<1> QED
  BY <1>5, <1>6, <1>7 DEF TypeOK, Dirs

LEMMA ExtractInit == Packing /\ Naming /\ Init => ExtractInv
<1> SUFFICES ASSUME Packing, Naming, Init PROVE ExtractInv
  OBVIOUS
<1>1. PICK place \in [Own -> {"sub", "images", "archive"}] :
        \A f \in Files :
           \/ f \in Own /\ at[f] = [dir |-> place[f], base |-> Base[f], n |-> <<>>]
           \/ f \notin Own /\ at[f] \in {Unpacking(f), None}
  BY InitPlaces
<1>2. \A f \in Files : at[f] \in Path \cup {None}
  <2>1. SUFFICES ASSUME NEW f \in Files PROVE at[f] \in Path \cup {None}
    OBVIOUS
  <2>2. <<>> \in Seq(1 .. MaxCount) /\ Base[f] \in Range(Base) /\ Entry[f] \in Range(Entry)
    BY DEF Naming, Range
  <2>3. CASE f \in Own
    <3>1. at[f] = [dir |-> place[f], base |-> Base[f], n |-> <<>>]
      BY <1>1, <2>3
    <3>2. place[f] \in {"sub", "images", "archive"}
      BY <2>3
    <3> QED
      BY <2>2, <3>1, <3>2 DEF Path, Dirs, Categories
  <2>4. CASE f \notin Own
    <3>1. Unpacking(f) \in Path
      BY <2>2 DEF Path, Dirs, Unpacking
    <3> QED
      BY <1>1, <2>4, <3>1
  <2> QED
    BY <2>3, <2>4
<1>3. at \in [Files -> Path \cup {None}]
  BY <1>2 DEF Init
<1>4. dirs \subseteq Dirs /\ walk = dirs
  <2>1. \A f \in Files : at[f].dir \in Dirs \cup {"none"}
    BY <1>2 DEF Path, None
  <2> QED
    BY <2>1 DEF Init, Dirs, Categories
<1>5. TypeOK
  BY <1>3, <1>4 DEF Init, TypeOK, NoArchive
<1> QED
  BY <1>5 DEF Init, ExtractInv, Unpacked

\* Steps that move no file and report no error.
LEMMA QuietExtract ==
    ASSUME Packing, Inv, ExtractInv,
           ListDir \/ Vanished \/ NextArchive \/ MembersDone \/ FilesDone \/ RemoveDirs
             \/ UNCHANGED vars
    PROVE  ExtractInv'
<1>1. UNCHANGED <<at, errors>> /\ unpacked' \subseteq unpacked
  BY DEF ListDir, Vanished, NextArchive, MembersDone, FilesDone, RemoveDirs, vars
<1>2. \A k : Delivered(k) <=> Delivered(k)'
  BY <1>1 DEF Delivered
<1>3. Unpacked'
  BY <1>1, <1>2, UnpackedStays DEF Keeps
<1>4. CASE ListDir
  <2>1. PICK d \in walk :
          /\ pc \in {"archives", "files"} /\ walk' = walk \ {d}
          /\ pending' \subseteq {at[f] : f \in On(d)}
          /\ UNCHANGED <<pc, at, dirs, archive, out, unpacked, errors>>
    BY <1>4 DEF ListDir
  <2>2. \A f \in On(d) : at[f] \in Path
    <3>1. d # "none"
      BY DEF ExtractInv, TypeOK, Dirs, Categories
    <3> QED
      BY <3>1 DEF ExtractInv, TypeOK, On, None
  <2>3. TypeOK'
    BY <2>1, <2>2 DEF ExtractInv, TypeOK
  <2> QED
    BY <1>3, <2>1, <2>3 DEF ExtractInv
<1>5. CASE Vanished
  <2>1. TypeOK'
    BY <1>5 DEF Vanished, ExtractInv, TypeOK, Dirs, Categories
  <2> QED
    BY <1>3, <1>5, <2>1 DEF Vanished, ExtractInv
<1>6. CASE NextArchive
  <2>1. PICK a \in Archives :
          /\ at[a] \in pending
          /\ archive' = [file |-> a, path |-> at[a], success |-> FALSE]
          /\ pending' = pending \ {at[a]} /\ unpacked' = unpacked \ {a} /\ pc' = "unpack"
          /\ UNCHANGED <<at, dirs, walk, out, errors>>
    BY <1>6 DEF NextArchive
  <2>2. TypeOK'
    BY <2>1 DEF ExtractInv, TypeOK
  <2> QED
    BY <1>3, <2>1, <2>2 DEF ExtractInv
<1>7. CASE MembersDone
  <2>1. /\ pc = "members" /\ out = {} /\ pc' = "store"
        /\ UNCHANGED <<at, dirs, walk, pending, archive, out, unpacked, errors>>
    BY <1>7 DEF MembersDone
  <2>2. TypeOK'
    BY <2>1 DEF ExtractInv, TypeOK
  <2>3. \A m : MemberDone(archive.file, m) => MemberDone(archive.file, m)'
    BY <1>2, <2>1 DEF MemberDone, HasExt
  <2> QED
    BY <1>3, <2>1, <2>2, <2>3 DEF ExtractInv
<1>8. CASE FilesDone \/ RemoveDirs
  <2>1. TypeOK'
    BY <1>8 DEF FilesDone, RemoveDirs, ExtractInv, TypeOK
  <2>2. pc' \in {"dirs", "ended"}
    BY <1>8 DEF FilesDone, RemoveDirs
  <2> QED
    BY <1>3, <2>1, <2>2 DEF ExtractInv
<1>9. CASE UNCHANGED vars
  BY <1>9 DEF vars, ExtractInv, TypeOK, Unpacked, MemberDone, Delivered, HasExt
<1> QED
  BY <1>4, <1>5, <1>6, <1>7, <1>8, <1>9

\* Unpacking moves only the members of the archive, and replaces only what
\* lies in temp_extract.
LEMMA UnpackPlace ==
    ASSUME Naming, Packing, TypeOK, NEW a \in Archives, NEW ms \in SUBSET MembersOf[a],
           Unpack(ms)
    PROVE  /\ at' \in [Files -> Path \cup {None}] /\ dirs' \subseteq Dirs
           /\ \A f \in Files \ ms : at[f].dir # "temp_extract" => at'[f] = at[f]
           /\ \A m \in ms : at'[m].dir = "temp_extract"
<1>1. ms \subseteq Files
  BY MembersAreFiles
<1>2. \A m \in ms : Unpacking(m) \in Path /\ Unpacking(m).dir = "temp_extract"
  <2>1. <<>> \in Seq(1 .. MaxCount)
    OBVIOUS
  <2> QED BY <1>1, <2>1 DEF Path, Dirs, Naming, Range, Unpacking
<1>3. /\ dirs' = dirs \cup {"temp_extract"}
      /\ at' = [f \in Files |->
                  IF f \in ms THEN Unpacking(f)
                  ELSE IF \E m \in ms : at[f] = Unpacking(m) THEN None ELSE at[f]]
  BY DEF Unpack
<1>4. at' \in [Files -> Path \cup {None}]
  BY <1>2, <1>3 DEF TypeOK
<1>5. \A f \in Files \ ms : at[f].dir # "temp_extract" => at'[f] = at[f]
  BY <1>2, <1>3
<1>6. \A m \in ms : at'[m].dir = "temp_extract"
  BY <1>1, <1>2, <1>3
<1> QED
  BY <1>3, <1>4, <1>5, <1>6 DEF TypeOK, Dirs

LEMMA UnpackExtract ==
    Packing /\ Naming /\ OwnMembers /\ Inv /\ ExtractInv /\ (UnpackAll \/ UnpackFails)
        => ExtractInv'
<1> SUFFICES ASSUME Packing, Naming, OwnMembers, Inv, ExtractInv, UnpackAll \/ UnpackFails
             PROVE  ExtractInv'
  OBVIOUS
<1> DEFINE a == archive.file
<1>1. a \in Archives /\ pc = "unpack" /\ a \notin unpacked /\ ~ archive.success
  BY DEF Inv, ExtractInv, UnpackAll, UnpackFails
<1>2. PICK ms \in SUBSET MembersOf[a] :
        /\ Unpack(ms)
        /\ UnpackAll => \A m \in MembersOf[a] : \E k \in ms : Entry[k] = Entry[m]
  BY DEF UnpackAll, UnpackFails
<1>3. MembersOf[a] \subseteq Files
  BY <1>1, MembersAreFiles
<1>4. /\ at' \in [Files -> Path \cup {None}] /\ dirs' \subseteq Dirs
      /\ \A f \in Files \ ms : at[f].dir # "temp_extract" => at'[f] = at[f]
      /\ \A m \in ms : at'[m].dir = "temp_extract"
  BY <1>1, <1>2, UnpackPlace DEF ExtractInv
<1>5. /\ UNCHANGED <<walk, pending, unpacked>> /\ errors \subseteq errors'
      /\ errors' \subseteq Members
      /\ archive'.file = a /\ archive'.path = archive.path
  BY DEF ExtractInv, TypeOK, UnpackAll, UnpackFails, Report
<1>6. Unpacked'
  <2>1. SUFFICES ASSUME NEW b \in unpacked, NEW k \in MembersOf[b], Delivered(k)
                 PROVE  Delivered(k)'
    BY <1>5, UnpackedStays DEF Keeps
  <2>2. b \in Archives /\ b # a
    BY <1>1 DEF ExtractInv, TypeOK
  <2>3. k \in Files /\ k \notin ms
    BY <1>1, <1>2, <2>2, MembersAreFiles DEF OwnMembers
  <2> QED BY <1>4, <1>5, <2>1, <2>3 DEF Delivered
<1>7. CASE UnpackAll
  <2>1. archive' = [archive EXCEPT !.success = TRUE] /\ pc' = "members"
        /\ out' = {f \in Files : at'[f].dir = "temp_extract" /\ HasExt(f)}
        /\ UNCHANGED errors
    BY <1>7 DEF UnpackAll
  <2>2. TypeOK'
    BY <1>4, <1>5, <2>1 DEF ExtractInv, TypeOK
  <2>3. \A m \in MembersOf[a] :
          \/ MemberDone(a, m)'
          \/ \E k \in MembersOf[a] : Entry[k] = Entry[m] /\ k \in out'
    <3>1. SUFFICES ASSUME NEW m \in MembersOf[a], HasExt(m)
                   PROVE  \E k \in MembersOf[a] : Entry[k] = Entry[m] /\ k \in out'
      BY <1>5 DEF MemberDone, HasExt
    <3>2. PICK k \in ms : Entry[k] = Entry[m]
      BY <1>2, <1>7
    <3>3. k \in Files /\ m \in Files /\ HasExt(k)
      BY <1>3, <3>1, <3>2 DEF Naming, HasExt
    <3> QED BY <1>4, <2>1, <3>2, <3>3
  <2> QED BY <1>1, <1>5, <1>6, <2>1, <2>2, <2>3 DEF ExtractInv
<1>8. CASE UnpackFails
  <2>1. pc' = "store" /\ UNCHANGED <<archive, out>>
    BY <1>8 DEF UnpackFails
  <2>2. TypeOK'
    BY <1>4, <1>5, <2>1 DEF ExtractInv, TypeOK
  <2> QED BY <1>1, <1>5, <1>6, <2>1, <2>2 DEF ExtractInv
<1> QED BY <1>7, <1>8

\* A file that is moved, or fails to be, is delivered; the others stay so.
LEMMA MovedIsDelivered ==
    ASSUME MaxCount \in Nat, Naming, TypeOK, NEW f \in Files, NEW d \in Categories,
           d \in IF f \in Archives THEN {"archive", "archive_extracted"} ELSE {"images"},
           \/ MoveTo(f, d) /\ UNCHANGED errors
           \/ MoveFails(f, d)
    PROVE  /\ at' \in [Files -> Path \cup {None}] /\ dirs' \subseteq Dirs
           /\ errors' \subseteq Members
           /\ f \in Members => Delivered(f)'
           /\ Keeps(Files)
<1>1. CASE MoveTo(f, d) /\ UNCHANGED errors
  <2>1. /\ at' \in [Files -> Path \cup {None}] /\ dirs' \subseteq Dirs
        /\ at'[f].dir = d
        /\ \A g \in Files \ {f} : at'[g] = at[g]
    BY <1>1, MoveToPlace
  <2> QED
    BY <1>1, <2>1 DEF TypeOK, Delivered, Keeps
<1>2. CASE MoveFails(f, d)
  BY <1>2 DEF MoveFails, Report, TypeOK, Delivered, Keeps, Dirs
<1> QED BY <1>1, <1>2

LEMMA MemberExtract ==
    ASSUME MaxCount \in Nat, Naming, Packing, Inv, ExtractInv, MoveMember
    PROVE  ExtractInv'
<1> DEFINE a == archive.file
<1>1. PICK f \in out :
        /\ pc = "members" /\ out' = out \ {f}
        /\ \/ MoveTo(f, Category(f)) /\ UNCHANGED errors
           \/ MoveFails(f, Category(f))
        /\ UNCHANGED <<pc, walk, pending, archive, unpacked>>
  BY DEF MoveMember
<1>2. f \in Files /\ Category(f) \in Categories
      /\ Category(f) \in IF f \in Archives THEN {"archive", "archive_extracted"} ELSE {"images"}
  BY <1>1 DEF ExtractInv, TypeOK, Category, Categories
<1>3. /\ at' \in [Files -> Path \cup {None}] /\ dirs' \subseteq Dirs
      /\ errors' \subseteq Members
      /\ f \in Members => Delivered(f)'
      /\ Keeps(Files)
  BY <1>1, <1>2, MovedIsDelivered DEF ExtractInv
<1>4. TypeOK'
  BY <1>1, <1>3 DEF ExtractInv, TypeOK
<1>5. unpacked \subseteq Archives /\ a \in Archives
  BY <1>1 DEF ExtractInv, TypeOK, Inv
<1>6. Unpacked'
  BY <1>1, <1>3, <1>5, UnpackedStays, MembersAreFiles DEF Keeps
<1>7. ASSUME archive.success, NEW m \in MembersOf[a]
      PROVE  \/ MemberDone(a, m)'
             \/ \E k \in MembersOf[a] : Entry[k] = Entry[m] /\ k \in out'
  <2>1. MembersOf[a] \subseteq Files /\ MembersOf[a] \subseteq Members
    BY <1>5, MembersAreFiles
  <2>2. CASE MemberDone(a, m)
    BY <1>1, <1>3, <2>1, <2>2 DEF MemberDone, Keeps, HasExt
  <2>3. CASE \E k \in MembersOf[a] : Entry[k] = Entry[m] /\ k \in out
    <3>1. PICK k \in MembersOf[a] : Entry[k] = Entry[m] /\ k \in out
      BY <2>3
    <3>2. CASE k = f
      BY <1>1, <1>3, <2>1, <3>1, <3>2 DEF MemberDone
    <3>3. CASE k # f
      BY <1>1, <3>1, <3>3
    <3> QED BY <3>2, <3>3
  <2> QED BY <1>1, <1>7, <2>2, <2>3 DEF ExtractInv
<1> QED
  BY <1>1, <1>4, <1>6, <1>7 DEF ExtractInv

LEMMA StoreExtract ==
    MaxCount \in Nat /\ Naming /\ Packing /\ Inv /\ ExtractInv /\ (StoreArchive \/ StoreFails)
        => ExtractInv'
<1> SUFFICES ASSUME MaxCount \in Nat, Naming, Packing, Inv, ExtractInv,
                    StoreArchive \/ StoreFails
             PROVE  ExtractInv'
  OBVIOUS
<1> DEFINE a == archive.file
<1>1. /\ a \in Archives /\ pc = "store" /\ pc' = "archives"
      /\ archive' = NoArchive /\ UNCHANGED <<walk, pending, out>>
      /\ Target \in {"archive", "archive_extracted"}
  BY DEF Inv, StoreArchive, StoreFails, Target
<1>2. /\ at' \in [Files -> Path \cup {None}] /\ dirs' \subseteq Dirs
      /\ errors' \subseteq Members
      /\ Keeps(Files)
  <2>1. CASE \E f \in Archives : /\ at[f] = archive.path
                                 /\ \/ MoveTo(f, Target) /\ UNCHANGED errors
                                    \/ MoveFails(f, Target)
    BY <1>1, <2>1, MovedIsDelivered DEF ExtractInv, Files, Categories
  <2>2. CASE Report(a) /\ dirs' = dirs \cup {Target} /\ UNCHANGED at
    BY <1>1, <2>2 DEF Report, ExtractInv, TypeOK, Keeps, Delivered, Dirs, Categories
  <2> QED BY <2>1, <2>2 DEF StoreArchive, StoreFails
<1>3. unpacked' \subseteq unpacked \cup {a} /\ (a \in unpacked' => a \in unpacked \/ archive.success)
  BY DEF StoreArchive, StoreFails
<1>4. TypeOK'
  BY <1>1, <1>2, <1>3 DEF ExtractInv, TypeOK, NoArchive
<1>5. Unpacked'
  <2>1. SUFFICES ASSUME NEW b \in unpacked', NEW m \in MembersOf[b], HasExt(m)
                 PROVE  \E k \in MembersOf[b] : Entry[k] = Entry[m] /\ Delivered(k)'
    BY DEF Unpacked, HasExt
  <2>2. b \in Archives
    BY <1>4 DEF TypeOK
  <2>3. \E k \in MembersOf[b] : Entry[k] = Entry[m] /\ Delivered(k)
    <3>1. CASE b \in unpacked
      BY <2>1, <3>1 DEF ExtractInv, Unpacked
    <3>2. CASE b = a /\ archive.success
      BY <1>1, <2>1, <3>2 DEF ExtractInv, MemberDone
    <3> QED BY <1>3, <3>1, <3>2
  <2> QED BY <1>2, <2>2, <2>3, MembersAreFiles DEF Keeps
<1> QED BY <1>1, <1>4, <1>5 DEF ExtractInv

\* The second pass takes a file only to its category, and what is cleaned up
\* lies elsewhere.
LEMMA SecondPassExtract ==
    ASSUME MaxCount \in Nat, Naming, Packing, Inv, ExtractInv, CleanUp \/ MoveFile
    PROVE  ExtractInv'
<1>1. \A b \in unpacked : MembersOf[b] \subseteq Files
  BY MembersAreFiles DEF ExtractInv, TypeOK
<1>2. /\ TypeOK' /\ Keeps(Files) /\ unpacked' = unpacked /\ pc' = "files"
  <2>1. CASE CleanUp
    <3>1. PICK gone \in SUBSET On("temp_extract") :
            /\ at' = [f \in Files |-> IF f \in gone THEN None ELSE at[f]]
            /\ dirs' \subseteq dirs /\ walk' = dirs' /\ pc' = "files"
            /\ UNCHANGED <<pending, archive, out, unpacked, errors>>
      BY <2>1 DEF CleanUp
    <3>2. Keeps(Files)
      BY <3>1 DEF Keeps, Delivered, On
    <3> QED BY <3>1, <3>2 DEF ExtractInv, TypeOK
  <2>2. CASE MoveFile
    <3>1. PICK f \in Files \ Archives :
            /\ pc = "files" /\ pending' = pending \ {at[f]}
            /\ \/ MoveTo(f, Category(f)) /\ UNCHANGED errors
               \/ MoveFails(f, Category(f))
            /\ UNCHANGED <<pc, walk, archive, out, unpacked>>
      BY <2>2 DEF MoveFile
    <3>2. Category(f) = "images" /\ Category(f) \in Categories
      BY DEF Category, Categories
    <3>3. /\ at' \in [Files -> Path \cup {None}] /\ dirs' \subseteq Dirs
          /\ errors' \subseteq Members /\ Keeps(Files)
      BY <3>1, <3>2, MovedIsDelivered DEF ExtractInv
    <3> QED BY <3>1, <3>3 DEF ExtractInv, TypeOK
  <2> QED BY <2>1, <2>2
<1>3. Unpacked'
  BY <1>1, <1>2, UnpackedStays DEF Keeps
<1> QED BY <1>2, <1>3 DEF ExtractInv

LEMMA ExtractStep ==
    /\ MaxCount \in Nat /\ Naming /\ OwnMembers /\ Packing /\ Inv /\ ExtractInv /\ [Next]_vars
    => ExtractInv'
BY QuietExtract, UnpackExtract, MemberExtract, StoreExtract, SecondPassExtract DEF Next

\* The tool is well typed, for any archives and failures.
THEOREM ReorgTypeCorrect ==
    ASSUME Packing, Naming, OwnMembers, MaxCount \in Nat
    PROVE  Spec => []TypeOK
<1>1. ExtractInv => TypeOK
  BY DEF ExtractInv
<1> QED
  BY <1>1, InitInv, StepInv, ExtractInit, ExtractStep, PTL DEF Spec

\* An archive counts as extracted only when what it held has been delivered,
\* or reported.
THEOREM UnpackedSound ==
    ASSUME Packing, Naming, OwnMembers, MaxCount \in Nat
    PROVE  Spec => []Unpacked
<1>1. ExtractInv => Unpacked
  BY DEF ExtractInv
<1> QED
  BY <1>1, InitInv, StepInv, ExtractInit, ExtractStep, PTL DEF Spec
=============================================================================
