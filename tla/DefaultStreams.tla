--------------------------- MODULE DefaultStreams ---------------------------
(***************************************************************************)
(* The three setters of ihb_video/tools: default_stream_setter,            *)
(* subtitle_default_setter and audio_default_setter.  Each walks a tree;   *)
(* for every file it chooses a stream from what ffprobe says, takes the    *)
(* default flag off the old default and puts it on the chosen stream, by   *)
(* two calls of mkvpropedit or mp4box.  The results of the calls are       *)
(* ignored.                                                                *)
(*                                                                         *)
(* A file is a sequence of streams; a stream is what the choice looks at.  *)
(* Nobody else edits the files meanwhile.                                  *)
(***************************************************************************)
EXTENDS Integers, Sequences, FiniteSets

CONSTANTS Files,  \* the files that is_supported_file accepts
          Layout, \* the streams of each: [type, lang, hi, sdh, size, id], id being
                  \* the number of the track, or NoId
          Mkv     \* files edited by mkvtools; the others by mp4box

VARIABLES tool,
          before, \* the streams with the default flag at the start
          flags,  \* those that have it now
          todo,   \* files os.walk has still to come to
          file,   \* the file at hand
          seen,   \* its defaults when it was probed
          types,  \* stream types still to be treated
          calls,  \* calls of the container tool still to be made
          failed, \* files with a probe or a call that failed
          pc

vars == <<tool, before, flags, todo, file, seen, types, calls, failed, pc>>

Types == {"AUDIO", "SUBTITLE"}
Tools == {"default_stream_setter", "subtitle_default_setter", "audio_default_setter"}
NoFile == "none"
NoId == 0
Indexes == UNION {DOMAIN Layout[f] : f \in Files}

TypeOK ==
    /\ tool \in Tools
    /\ before \in [Files -> SUBSET Indexes] /\ flags \in [Files -> SUBSET Indexes]
    /\ todo \subseteq Files /\ file \in Files \cup {NoFile}
    /\ seen \subseteq Indexes
    /\ types \in Seq(Types)
    /\ calls \in Seq([stream: Indexes, on: BOOLEAN])
    /\ failed \subseteq Files
    /\ pc \in {"walk", "type", "call", "ended", "raised"}

Init ==
    /\ tool \in Tools
    /\ before \in [Files -> SUBSET Indexes]
    /\ \A f \in Files : before[f] \subseteq DOMAIN Layout[f]
    /\ flags = before
    /\ todo = Files
    /\ file = NoFile
    /\ seen = {}
    /\ types = <<>>
    /\ calls = <<>>
    /\ failed = {}
    /\ pc = "walk"

-----------------------------------------------------------------------------
(* The choice of the stream.                                               *)

OfType(f, t) == {i \in DOMAIN Layout[f] : Layout[f][i].type = t}
Lang(f, is, l) == {i \in is : Layout[f][i].lang = l}
First(is) == CHOOSE i \in is : \A j \in is : i <= j

\* Exactly one English stream among several.
AudioChoice(f) ==
    LET eng == Lang(f, OfType(f, "AUDIO"), "eng")
    IN  IF Cardinality(OfType(f, "AUDIO")) > 1 /\ Cardinality(eng) = 1 THEN eng ELSE {}

\* For the hearing impaired, or SDH by its title, or the largest, or first.
Best(f, is) ==
    LET hi == {i \in is : Layout[f][i].hi}
        sdh == {i \in is : Layout[f][i].sdh}
        largest == {i \in is : /\ Layout[f][i].size > 0
                               /\ \A j \in is : Layout[f][j].size <= Layout[f][i].size}
    IN  IF hi # {} THEN First(hi)
        ELSE IF sdh # {} THEN First(sdh)
        ELSE IF largest # {} THEN First(largest)
        ELSE First(is)

SubtitleChoice(f) ==
    LET subs == OfType(f, "SUBTITLE")
        eng == Lang(f, subs, "eng")
        und == Lang(f, subs, "und")
    IN  IF subs = {} THEN {}
        ELSE IF eng # {} THEN {Best(f, eng)}
        ELSE IF und # {} THEN {Best(f, und)}
        ELSE {First(subs)}

\* At most one stream.
Choice(f, t) == IF t = "AUDIO" THEN AudioChoice(f) ELSE SubtitleChoice(f)

TypesOf(tl) == CASE tl = "default_stream_setter"   -> <<"AUDIO", "SUBTITLE">>
                 [] tl = "subtitle_default_setter" -> <<"SUBTITLE">>
                 [] tl = "audio_default_setter"    -> <<"AUDIO">>

-----------------------------------------------------------------------------

ProbeFile == \E f \in todo :
    /\ pc = "walk"
    /\ file' = f
    /\ todo' = todo \ {f}
    /\ seen' = flags[f]
    /\ types' = TypesOf(tool)
    /\ pc' = "type"
    /\ UNCHANGED <<tool, before, flags, calls, failed>>

\* No metadata: default_stream_setter logs an error for each type,
\* subtitle_default_setter skips the file, audio_default_setter raises.
ProbeFails == \E f \in todo :
    /\ pc = "walk"
    /\ todo' = todo \ {f}
    /\ failed' = failed \cup {f}
    /\ pc' = IF tool = "audio_default_setter" THEN "raised" ELSE "walk"
    /\ UNCHANGED <<tool, before, flags, file, seen, types, calls>>

Olds(t) == seen \cap OfType(file, t)

\* Mutant: the old default keeps its flag.
KeepOld ==
    /\ pc = "type" /\ types # <<>>
    /\ types' = Tail(types)
    /\ LET new == Choice(file, Head(types))
       IN  calls' = IF new = {} THEN <<>> ELSE <<[stream |-> First(new), on |-> TRUE]>>
    /\ pc' = "call"
    /\ UNCHANGED <<tool, before, flags, todo, file, seen, failed>>

\* A stream that is the default already is left alone, but not by
\* audio_default_setter, which looks for the flag under a misspelled name.
Choose ==
    /\ pc = "type" /\ types # <<>>
    /\ types' = Tail(types)
    /\ LET t == Head(types)
           new == Choice(file, t)
           off == IF Olds(t) = {} THEN <<>> ELSE <<[stream |-> First(Olds(t)), on |-> FALSE]>>
           skip == new = {} \/ (new \subseteq seen /\ tool # "audio_default_setter")
       IN  /\ skip \/ tool # "audio_default_setter" \/ Olds(t) # {}
           /\ calls' = IF skip THEN <<>>
                       ELSE off \o <<[stream |-> First(new), on |-> TRUE]>>
    /\ pc' = "call"
    /\ UNCHANGED <<tool, before, flags, todo, file, seen, failed>>

\* It also takes for granted that there is an old default.
ChooseRaises ==
    /\ pc = "type" /\ types # <<>>
    /\ tool = "audio_default_setter"
    /\ Choice(file, Head(types)) # {} /\ Olds(Head(types)) = {}
    /\ pc' = "raised"
    /\ UNCHANGED <<tool, before, flags, todo, file, seen, types, calls, failed>>

\* Mutant: the tracks are counted from 0 as well.
TrackFromZero(f, i) ==
    LET offset == Cardinality({j \in DOMAIN Layout[f] : j < i /\ Layout[f][j].type # Layout[f][i].type})
    IN  (i - 1) - offset

\* mkvpropedit counts the tracks of each type from 1: the index of ffprobe,
\* which starts at 0, less the streams of other types before it.
TrackNumber(f, i) ==
    LET offset == Cardinality({j \in DOMAIN Layout[f] : j < i /\ Layout[f][j].type # Layout[f][i].type})
    IN  (i - 1) - offset + 1

\* What a number is when its decimal digits, two of them, are hexadecimal.
Hex(n) == 16 * (n \div 10) + (n % 10)

\* The stream a call edits, if there is one.  mp4box.py takes the id that
\* ffprobe gives in hexadecimal, 0x10 for track 16, and passes what follows
\* the x to MP4Box, for which it is a decimal number: track 10 is edited.  A
\* letter in it names no track.
Edited(f, i) ==
    IF f \in Mkv
    THEN {j \in OfType(f, Layout[f][i].type) :
             Cardinality({k \in OfType(f, Layout[f][i].type) : k <= j}) = TrackNumber(f, i)}
    ELSE {j \in DOMAIN Layout[f] : Hex(Layout[f][j].id) = Layout[f][i].id}

\* Without an id, mp4box.py passes an integer, which subprocess refuses.
Update ==
    /\ pc = "call" /\ calls # <<>>
    /\ file \in Mkv \/ Layout[file][Head(calls).stream].id # NoId
    /\ LET s == Edited(file, Head(calls).stream)
       IN  flags' = [flags EXCEPT ![file] = IF Head(calls).on THEN @ \cup s ELSE @ \ s]
    /\ calls' = Tail(calls)
    /\ UNCHANGED <<tool, before, todo, file, seen, types, failed, pc>>

\* False or None, which nobody looks at.
UpdateFails ==
    /\ pc = "call" /\ calls # <<>>
    /\ failed' = failed \cup {file}
    /\ calls' = Tail(calls)
    /\ UNCHANGED <<tool, before, flags, todo, file, seen, types, pc>>

CallsDone ==
    /\ pc = "call" /\ calls = <<>>
    /\ pc' = IF types = <<>> THEN "walk" ELSE "type"
    /\ file' = IF types = <<>> THEN NoFile ELSE file
    /\ UNCHANGED <<tool, before, flags, todo, seen, types, calls, failed>>

WalkDone ==
    /\ pc = "walk" /\ todo = {}
    /\ pc' = "ended"
    /\ UNCHANGED <<tool, before, flags, todo, file, seen, types, calls, failed>>

Next ==
    \/ ProbeFile \/ ProbeFails \/ Choose \/ ChooseRaises
    \/ Update \/ UpdateFails \/ CallsDone \/ WalkDone

Spec == Init /\ [][Next]_vars

-----------------------------------------------------------------------------

Treated(t) == \E i \in DOMAIN TypesOf(tool) : TypesOf(tool)[i] = t

\* The ids of the tracks are the same in hexadecimal.
Named(f) == f \in Mkv \/ \A i \in DOMAIN Layout[f] : Layout[f][i].id < 10

\* When a tool is through with a file and no call failed, the chosen stream
\* is a default one, and the only one if there was at most one before.  This
\* is not so for an MP4 file with a track of number ten or more: there the
\* calls may be for another track, or for none.
ChosenIsDefault == \A f \in Files \ (todo \cup failed), t \in Types :
    Named(f) /\ Treated(t) /\ f # file /\ Choice(f, t) # {} =>
        /\ Choice(f, t) \subseteq flags[f]
        /\ Cardinality(before[f] \cap OfType(f, t)) <= 1 =>
              flags[f] \cap OfType(f, t) = Choice(f, t)

\* Whatever fails: no stream of another type is touched, only the chosen
\* stream gets a flag, and at most one other stream of a type loses its own;
\* again but for an MP4 file with a track of number ten or more.
OthersKept == \A f \in Files : Named(f) =>
    /\ \A i \in flags[f] \ before[f] : \E t \in Types : Treated(t) /\ i \in Choice(f, t)
    /\ \A i \in before[f] \ flags[f] : Treated(Layout[f][i].type)
    /\ \A t \in Types : Cardinality((before[f] \ flags[f]) \cap OfType(f, t)) <= 1
-----------------------------------------------------------------------------
(* For the proofs of the two.                                              *)

\* Two digits do for the tracks of a file, and no two have one number.
StreamConstants ==
    /\ NoFile \notin Files
    /\ \A f \in Files :
          /\ DOMAIN Layout[f] = 1 .. Len(Layout[f]) /\ Len(Layout[f]) \in Nat
          /\ \A i, j \in DOMAIN Layout[f] :
                /\ Layout[f][i].id \in 0 .. 99
                /\ Layout[f][i].id = Layout[f][j].id /\ Layout[f][i].id # NoId => i = j

Was(f, t) == before[f] \cap OfType(f, t)
Now(f, t) == flags[f] \cap OfType(f, t)

\* The type t still has its turn for the file at hand.
Left(t) == \E i \in DOMAIN types : types[i] = t

\* What ChosenIsDefault says of one file and type.
Settled(f, t) == Named(f) /\ Choice(f, t) # {} =>
    /\ Choice(f, t) \subseteq flags[f]
    /\ Cardinality(Was(f, t)) <= 1 => Now(f, t) = Choice(f, t)

PlaceInv ==
    /\ \A f \in Files : before[f] \subseteq DOMAIN Layout[f] /\ flags[f] \subseteq DOMAIN Layout[f]
    /\ file \notin todo /\ \A f \in todo : flags[f] = before[f]
    /\ types \in {<<>>, <<"AUDIO">>, <<"SUBTITLE">>, <<"AUDIO", "SUBTITLE">>}
    /\ \A i \in DOMAIN types : Treated(types[i])
    /\ pc = "walk" => file = NoFile /\ types = <<>>
    /\ pc \in {"type", "call"} => file \in Files /\ seen = before[file]
    /\ pc # "call" => calls = <<>>

\* The calls of one type, the first default of it before the chosen stream.
CallsFor(t) ==
    /\ t \in Types /\ Treated(t) /\ ~ Left(t)
    /\ \E new \in DOMAIN Layout[file] : LET on == [stream |-> new, on |-> TRUE] IN
          /\ Choice(file, t) = {new}
          /\ \/ /\ calls = <<on>>
                /\ Named(file) /\ file \notin failed /\ Cardinality(Was(file, t)) <= 1 =>
                      Now(file, t) \subseteq {new}
             \/ /\ Was(file, t) # {} /\ (Named(file) => Now(file, t) = Was(file, t))
                /\ calls = <<[stream |-> First(Was(file, t)), on |-> FALSE], on>>

CallInv == calls # <<>> => \E t \in Types :
    /\ CallsFor(t)
    /\ file \notin failed => \A u \in Types \ {t} : Treated(u) /\ ~ Left(u) => Settled(file, u)

SettledInv ==
    /\ \A f \in Files \ (todo \cup failed \cup {file}), t \in Types : Treated(t) => Settled(f, t)
    /\ calls = <<>> /\ pc \in {"type", "call"} /\ file \notin failed =>
          \A t \in Types : Treated(t) /\ ~ Left(t) => Settled(file, t)
    /\ \A t \in Types : pc \in {"type", "call"} /\ Left(t) /\ Named(file) =>
          Now(file, t) = Was(file, t)

FlagInv == \A f \in Files : Named(f) =>
    /\ \A i \in flags[f] \ before[f] : \E t \in Types : Treated(t) /\ i \in Choice(f, t)
    /\ \A i \in before[f] \ flags[f] : LET t == Layout[f][i].type IN
          t \in Types /\ Treated(t) /\ i = First(Was(f, t))

Inv == TypeOK /\ PlaceInv /\ CallInv /\ SettledInv /\ FlagInv
=============================================================================
