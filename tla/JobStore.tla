------------------------------ MODULE JobStore ------------------------------
(***************************************************************************)
(* The job database of ihb_encode (data/db_manager.py with the SQL of      *)
(* scripts/insert.py, update.py and select.py).  Every function of         *)
(* db_manager opens its own connection and commits once, so each operator  *)
(* below is one atomic transaction; whatever a caller does between two of  *)
(* them can interleave with another process.                               *)
(*                                                                         *)
(* A job is identified by its input path: jobs.input is UNIQUE, upsert_job *)
(* resolves conflicts on it, no statement changes it and no command        *)
(* deletes a row.  The profile, the durations and the time stamps are left *)
(* out; job_history is kept up to its newest row per job, the only one the *)
(* code reads.                                                             *)
(*                                                                         *)
(* The insert of upsert_job names a column "profile" that the table of     *)
(* scripts/schema.py does not have, so on a database made by this commit   *)
(* every upsert raises (HasProfile is FALSE).  A table made by a version   *)
(* that had the column is kept as it is ("create table if not exists").    *)
(***************************************************************************)
EXTENDS Integers, FiniteSets

CONSTANTS Files,      \* input video files, the values of jobs.input
          SizeIn,     \* jobs.size_in of each file
          HasProfile  \* the table has the column "profile"

ASSUME SizeInAssumption == SizeIn \in [Files -> Nat] /\ HasProfile \in BOOLEAN

VARIABLES jobs,     \* the jobs table, status "NONE" where there is no row
          history   \* the newest job_history row of each job

storeVars == <<jobs, history>>

\* The members of Job_Status that some statement of the code assigns.
JobStatus == {"PENDING", "IND_JOB", "WORKING", "REVIEW", "COMPLETE",
              "ERROR", "DELETED", "CANCELLED"}

\* The output column holds the output directory until the encoder has built
\* the name of the output file.
OutputKind == {"dir", "file"}

\* size_out: NULL, or a size below or above the limit bulk-approve is given.
SizeOut == {"null", "small", "large"}

\* The keys of the notes dictionary that tell results apart.
NoteKey == {"validation", "error", "flow"}

Row == [output : OutputKind, sizeOut : SizeOut, status : JobStatus \cup {"NONE"}]

HistoryRow == [after : JobStatus \cup {"NONE"}, notes : SUBSET NoteKey]

Dto == [input : Files, output : OutputKind, sizeOut : SizeOut,
        status : JobStatus, notes : SUBSET NoteKey]

NoRow == [output |-> "dir", sizeOut |-> "null", status |-> "NONE"]
NoHistory == [after |-> "NONE", notes |-> {}]

StoreTypeOK == /\ jobs \in [Files -> Row]
               /\ history \in [Files -> HistoryRow]

HasRow(f) == jobs[f].status # "NONE"
WithStatus(s) == {f \in Files : jobs[f].status = s}

-----------------------------------------------------------------------------

\* Encoding_Job_DTO.from_sql_row on a row joined with the given notes.
RowDto(f, notes) == [input |-> f, output |-> jobs[f].output,
                     sizeOut |-> jobs[f].sizeOut, status |-> jobs[f].status,
                     notes |-> notes]

\* get_job, get_jobs_by_status_and_size: "select * from jobs" has no notes.
JobDto(f) == RowDto(f, {})

\* get_next_job_by_status joins the newest history row for its notes.
NextDto(f) == RowDto(f, history[f].notes)

\* Encoding_Job_DTO as _generate_job_dto builds it for a file not yet encoded.
NewDto(f, s) == [input |-> f, output |-> "dir", sizeOut |-> "null",
                 status |-> s, notes |-> {}]

\* "order by size_in desc limit 1": any of the largest when sizes are equal.
Largest(S) == {f \in S : \A g \in S : SizeIn[g] <= SizeIn[f]}

\* upsert_job: the row and its history entry in one transaction.
UpsertJob(d) ==
    /\ HasProfile
    /\ jobs' = [jobs EXCEPT ![d.input] =
                  [output |-> d.output, sizeOut |-> d.sizeOut, status |-> d.status]]
    /\ history' = [history EXCEPT ![d.input] =
                  [after |-> d.status, notes |-> d.notes]]

\* bulk_update_job_status: no history entry is written.
BulkUpdateStatus(old, new) ==
    /\ jobs' = [f \in Files |-> IF jobs[f].status = old
                                THEN [jobs[f] EXCEPT !.status = new]
                                ELSE jobs[f]]
    /\ UNCHANGED history

\* force_job_status: neither output, size_out nor the history is touched.
ForceStatus(f, new) ==
    /\ HasRow(f)
    /\ jobs' = [jobs EXCEPT ![f].status = new]
    /\ UNCHANGED history

=============================================================================
