---------------------------- MODULE JobLifecycle ----------------------------
(***************************************************************************)
(* What the status column of ihb_encode promises about a job when the      *)
(* commands that write it do not overlap on the same row: WORKING is       *)
(* entered from the queue only, ERROR only from WORKING, REVIEW from       *)
(* WORKING or by validating again, and a row never disappears.             *)
(***************************************************************************)
CONSTANTS Jobs,     \* the jobs
          Waiting   \* the jobs that are pending at the start

VARIABLE status

Stage == {"NONE", "PENDING", "IND_JOB", "WORKING", "REVIEW", "COMPLETE",
          "ERROR", "DELETED", "CANCELLED"}

Init == status = [j \in Jobs |-> IF j \in Waiting THEN "PENDING" ELSE "NONE"]

Becomes(j, s) == status' = [status EXCEPT ![j] = s]

\* Submitted, or put back: a new job, or any earlier one.
Submit(j) == Becomes(j, "PENDING") \/ Becomes(j, "IND_JOB")

Claim(j) == status[j] \in {"PENDING", "IND_JOB"} /\ Becomes(j, "WORKING")

Result(j) == status[j] = "WORKING" /\ (Becomes(j, "REVIEW") \/ Becomes(j, "ERROR"))

Validate(j) == status[j] \in {"REVIEW", "ERROR"} /\ Becomes(j, "REVIEW")

Close(j) == /\ status[j] # "NONE"
            /\ \E s \in {"COMPLETE", "CANCELLED", "DELETED"} : Becomes(j, s)

\* Every interrupted job goes back to the queue at once.
Recover == status' = [j \in Jobs |-> IF status[j] = "WORKING" THEN "PENDING"
                                     ELSE status[j]]

Next == \/ Recover
        \/ \E j \in Jobs : \/ Submit(j) \/ Claim(j) \/ Result(j)
                           \/ Validate(j) \/ Close(j)

Spec == Init /\ [][Next]_status
=============================================================================
