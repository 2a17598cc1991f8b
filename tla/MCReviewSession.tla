-------------------------- MODULE MCReviewSession --------------------------
(***************************************************************************)
(* Instances of ReviewSession for TLC.  With jobs of one size any of them  *)
(* may come next, so every order of sizes is covered; with sizes that      *)
(* differ, f1 is always offered first.                                     *)
(***************************************************************************)
EXTENDS ReviewSession, TLC

CONSTANTS f1, f2, f3

MCOneSize == [f \in Files |-> 1]
MCTwoSizes == [f \in Files |-> IF f = f1 THEN 2 ELSE 1]

\* What bulk-approve writes, and the result of another encode or validation.
MCApproved == {[input |-> f, output |-> "file", sizeOut |-> "small",
                status |-> "COMPLETE", notes |-> {"flow"}] : f \in Files}
MCResults == {[input |-> f, output |-> "file", sizeOut |-> "large",
               status |-> "REVIEW", notes |-> {"validation"}] : f \in Files}

MCSymmetry == Permutations(Files)
=============================================================================
