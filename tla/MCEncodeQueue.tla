--------------------------- MODULE MCEncodeQueue ---------------------------
(***************************************************************************)
(* Instances of EncodeQueue for TLC: one or two input files, f1 the larger,*)
(* and who runs which commands.                                            *)
(***************************************************************************)
EXTENDS EncodeQueue, TLC

CONSTANTS f1, f2, p1, p2, p3

MCSizeIn == [f \in Files |-> IF f = f1 THEN 2 ELSE 1]

\* Every input has an output path of its own.
MCOutName == [f \in Files |-> f]

\* Both inputs are encoded to the same path.
MCOneOutName == [f \in Files |-> f1]

\* Everything but the preview mode of process-dir.
MCEveryCommand == [p \in Procs |-> CommandName \ {"preview"}]

\* One encoder and one clerk who queues and approves.
MCEncoderAndClerk ==
    (p1 :> {"start-jobs"}) @@
    (p2 :> {"process-dir", "reset-job", "cancel-job", "validate-job", "bulk-approve"})

\* One encoder, one clerk who queues, cancels, reviews and approves, and one
\* process for the two commands that force a status.
MCOneOfEach ==
    (p1 :> {"start-jobs"}) @@
    (p2 :> {"process-dir", "cancel-job", "bulk-approve", "review-jobs"}) @@
    (p3 :> {"reset-job", "force-approve"})

\* One process at a time, used for anything; jobs reset-job, which asks about
\* any job what review-jobs asks about those in review, is left to other runs.
MCAnything == [p \in Procs |-> CommandName \ {"jobs-reset-job"}]

\* Two encoders, while one of them also queues files and asks to stop.
MCEncoders ==
    (p1 :> {"start-jobs"}) @@ (p2 :> {"start-jobs", "process-dir", "enable-stop"})

MCSymmetry == Permutations(Procs)
=============================================================================
