-------------------------- MODULE MCDuplicateSearch --------------------------
(***************************************************************************)
(* DuplicateSearch on four files: a group of three copies, and one of a    *)
(* file that overlapping directories list twice.                           *)
(***************************************************************************)
EXTENDS DuplicateSearch

MCGroups == {<<"a", "b", "c">>, <<"d", "d">>}

MCDtos == <<[path |-> "a", duration |-> 5], [path |-> "b", duration |-> 4],
            [path |-> "c", duration |-> 3], [path |-> "d", duration |-> 3]>>
=============================================================================
