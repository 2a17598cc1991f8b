----------------------------- MODULE EncodeQueue -----------------------------
(***************************************************************************)
(* The encoding queue of ihb_encode: any number of command line processes  *)
(* (main.py dispatches one command per process) share the job database,    *)
(* the STOP file and the video files.  A process runs one command at a     *)
(* time; between two database transactions of a command every other        *)
(* process may take steps, and a process may be killed at any point.       *)
(*                                                                         *)
(* Modelled commands: control start-jobs / enable-stop / disable-stop,     *)
(* jobs process-dir / manual-job / validate-job / review-jobs / reset-job, *)
(* db reset-job / cancel-job / bulk-approve / force-approve.  How the two  *)
(* threads of review-jobs work together is the subject of ReviewSession;   *)
(* here it is what the command reads, removes and writes.                  *)
(*                                                                         *)
(* A profile is given on the command line: without one, process-dir and    *)
(* manual-job raise at a name nobody defines (adv_opts).  And even with a  *)
(* profile _generate_job_dto raises for every new job, by a call of the    *)
(* number logger.level: NewJobs is TRUE for the program without that line. *)
(***************************************************************************)
EXTENDS JobStore

CONSTANTS Procs,          \* command line processes
          Commands,       \* the commands each process is used for
          Outputs,        \* paths of encoded files
          OutName,        \* _get_output_file_name of each input
          EncodeOutcomes, \* how a run of ffmpeg can end
          NewJobs,        \* _generate_job_dto returns (not so at this commit)
          AudioOnly,      \* files whose metadata counts no video stream
          Queued,         \* files that are already queued at the start
          MayAbort,       \* processes may be killed or hit a database error
          NoDto           \* the absence of a job object

CommandName == {"start-jobs", "enable-stop", "disable-stop", "process-dir",
                "preview", "manual-job", "validate-job", "reset-job",
                "cancel-job", "bulk-approve", "force-approve", "review-jobs",
                "jobs-reset-job"}

ASSUME QueueAssumption ==
    /\ Commands \in [Procs -> SUBSET CommandName]
    /\ OutName \in [Files -> Outputs]
    /\ EncodeOutcomes \subseteq {"ok", "truncated", "unreadable", "refused", "declined"}
    /\ Files \cap {"absent", "partial", "short", "unreadable", "removed"} = {}
    /\ NewJobs \in BOOLEAN
    /\ HasProfile \/ MayAbort
    /\ AudioOnly \subseteq Files
    /\ Queued \subseteq Files
    /\ MayAbort \in BOOLEAN
    /\ NoDto \notin Dto

VARIABLES inputs,    \* input files that exist
          outs,      \* what is at each output path
          stopFile,  \* the STOP file exists
          pc,        \* where each process stands
          mode,      \* start-jobs with or without --stop, or which command
          dto,       \* the job object a process holds
          todo,      \* job objects bulk-approve or review-jobs has still to handle
          listing    \* files process-dir has still to queue

fileVars == <<inputs, outs>>
procVars == <<pc, mode, dto, todo, listing>>
vars == <<jobs, history, inputs, outs, stopFile, pc, mode, dto, todo, listing>>

Label == {"idle", "fetch", "claim", "encode", "ffmpeg", "save", "check",
          "disable", "manual", "put", "rerun", "bulk", "bulkSave", "dirReview",
          "dir", "review", "prompt"}

\* The labels at which a process holds a job object.
Holding == {"claim", "encode", "ffmpeg", "save", "manual", "put", "rerun", "bulkSave",
            "prompt"}

\* An output path holds nothing, the encode of a file, the beginning of one,
\* something ffprobe cannot read, or nothing any more because the user of a
\* review removed it.  A beginning, which ffprobe can read, is "partial" as
\* long as it is being written or since its writer was killed, and "short"
\* when a command has found it where ffmpeg was to leave its result.
Content == {"absent", "partial", "short", "unreadable", "removed"} \cup Files
Exists(c) == c \notin {"absent", "removed"}
Readable(c) == Exists(c) /\ c # "unreadable"

ProcTypeOK ==
    /\ pc \in [Procs -> Label]
    /\ mode \in [Procs -> {"none", "loop", "once", "manual", "review"}]
    /\ dto \in [Procs -> Dto \cup {NoDto}]
    /\ \A p \in Procs : pc[p] \in Holding => dto[p] \in Dto
    /\ todo \in [Procs -> SUBSET Dto]
    /\ listing \in [Procs -> SUBSET Files]

\* The tables, the file system and the processes have the shapes above; a
\* process that is to write a job has one to write.
TypeOK ==
    /\ StoreTypeOK
    /\ inputs \subseteq Files
    /\ outs \in [Outputs -> Content]
    /\ stopFile \in BOOLEAN
    /\ ProcTypeOK

Init ==
    /\ jobs = [f \in Files |-> IF f \in Queued
                               THEN [NoRow EXCEPT !.status = "PENDING"]
                               ELSE NoRow]
    /\ history = [f \in Files |-> IF f \in Queued
                                  THEN [NoHistory EXCEPT !.after = "PENDING"]
                                  ELSE NoHistory]
    /\ inputs = Files
    /\ outs = [o \in Outputs |-> "absent"]
    /\ stopFile = FALSE
    /\ pc = [p \in Procs |-> "idle"]
    /\ mode = [p \in Procs |-> "none"]
    /\ dto = [p \in Procs |-> NoDto]
    /\ todo = [p \in Procs |-> {}]
    /\ listing = [p \in Procs |-> {}]

-----------------------------------------------------------------------------
(* Helpers.                                                                *)

MayRun(p, c) == pc[p] = "idle" /\ c \in Commands[p]

Goto(p, l) == pc' = [pc EXCEPT ![p] = l]
Hold(p, d) == dto' = [dto EXCEPT ![p] = d]

\* The command returns, or its exception is logged by dispatch.
Finish(p) ==
    /\ Goto(p, "idle")
    /\ mode' = [mode EXCEPT ![p] = "none"]
    /\ Hold(p, NoDto)
    /\ todo' = [todo EXCEPT ![p] = {}]
    /\ listing' = [listing EXCEPT ![p] = {}]

-----------------------------------------------------------------------------
(* control start-jobs                                                      *)

\* start-jobs first puts every WORKING row back to PENDING, whether or not
\* another process is still encoding it.
StartJobs(p, m) ==
    /\ MayRun(p, "start-jobs")
    /\ BulkUpdateStatus("WORKING", "PENDING")
    /\ mode' = [mode EXCEPT ![p] = m]
    /\ Goto(p, "fetch")
    /\ UNCHANGED <<fileVars, stopFile, dto, todo, listing>>

\* get_next_job_by_status(PENDING, limit=1); the status is set on the object
\* only.  An empty queue ends the command without a look at the STOP file.
FetchJob(p) ==
    /\ pc[p] = "fetch"
    /\ \/ /\ WithStatus("PENDING") = {}
          /\ Finish(p)
       \/ \E f \in Largest(WithStatus("PENDING")) :
             /\ Hold(p, [NextDto(f) EXCEPT !.status = "WORKING"])
             /\ Goto(p, "claim")
             /\ UNCHANGED <<mode, todo, listing>>
    /\ UNCHANGED <<storeVars, fileVars, stopFile>>

\* Mutant: the claim is a plain status update.
ClaimByForce(p) ==
    /\ pc[p] = "claim"
    /\ ForceStatus(dto[p].input, "WORKING")
    /\ Goto(p, "encode")
    /\ UNCHANGED <<fileVars, stopFile, mode, dto, todo, listing>>

ClaimJob(p) ==
    /\ pc[p] = "claim"
    /\ UpsertJob(dto[p])
    /\ Goto(p, "encode")
    /\ UNCHANGED <<fileVars, stopFile, mode, dto, todo, listing>>

\* Mutant: the path of the output file is not put into the result.
EncodedInPlace(d, s) == [d EXCEPT !.sizeOut = s, !.status = "REVIEW",
                                  !.notes = {"validation"}]

\* The object encode_file returns when ffprobe can read the output file.
Encoded(d, s) == [d EXCEPT !.output = "file", !.sizeOut = s,
                           !.status = "REVIEW", !.notes = {"validation"}]

\* Mutant: a failed job goes back to the queue.
FailedRetries(d) == [d EXCEPT !.status = "PENDING", !.notes = @ \cup {"error"}]

\* Any exception of the encoder is caught by encode_file, which marks the
\* object it was given.
Failed(d) == [d EXCEPT !.status = "ERROR", !.notes = @ \cup {"error"}]

\* Mutant: the output name of an earlier encode is used as it is.
CanEncodeAgain(d) == d.input \in inputs

\* ffmpeg runs only if the input can be probed and the output column still
\* names a directory (joined to a file path it names nothing writable).
CanEncode(d) == d.input \in inputs /\ d.output = "dir"

\* The exit code of ffmpeg is not looked at: whatever can be read at the
\* output path is the result, unless a validator raises on it.
ProbeOutput(p, d, c) ==
    /\ \/ Readable(c) /\ \E s \in {"small", "large"} : Hold(p, Encoded(d, s))
       \/ Hold(p, Failed(d))
    /\ Goto(p, "save")

EncodeRaises(p) ==
    /\ pc[p] = "encode"
    /\ Hold(p, Failed(dto[p]))
    /\ Goto(p, "save")
    /\ UNCHANGED <<storeVars, fileVars, stopFile, mode, todo, listing>>

\* ffmpeg -y opens, and empties, the output file.
LaunchFfmpeg(p) ==
    /\ pc[p] = "encode"
    /\ EncodeOutcomes \cap {"ok", "truncated", "unreadable"} # {}
    /\ CanEncode(dto[p])
    /\ outs' = [outs EXCEPT ![OutName[dto[p].input]] = "partial"]
    /\ Goto(p, "ffmpeg")
    /\ UNCHANGED <<storeVars, inputs, stopFile, mode, dto, todo, listing>>

FfmpegEnds(p) ==
    /\ pc[p] = "ffmpeg"
    /\ \E c \in Content :
          /\ \/ "ok" \in EncodeOutcomes /\ c = dto[p].input
             \/ "truncated" \in EncodeOutcomes /\ c = "short"
             \/ "unreadable" \in EncodeOutcomes /\ c = "unreadable"
          /\ outs' = [outs EXCEPT ![OutName[dto[p].input]] = c]
          /\ ProbeOutput(p, dto[p], c)
    /\ UNCHANGED <<storeVars, inputs, stopFile, mode, todo, listing>>

\* ffmpeg stops before it opens its output: what an earlier encode left at
\* the path is taken for the result.
FfmpegRefuses(p) ==
    /\ pc[p] = "encode"
    /\ "refused" \in EncodeOutcomes
    /\ CanEncode(dto[p])
    /\ LET o == OutName[dto[p].input] IN
       /\ outs' = [outs EXCEPT ![o] = IF @ = "partial" THEN "short" ELSE @]
       /\ ProbeOutput(p, dto[p], outs[o])
    /\ UNCHANGED <<storeVars, inputs, stopFile, mode, todo, listing>>

\* Mutant: only results to be reviewed are stored.
SaveReviewOnly(p) ==
    /\ pc[p] = "save"
    /\ IF dto[p].status = "REVIEW" THEN UpsertJob(dto[p]) ELSE UNCHANGED storeVars
    /\ Finish(p)
    /\ UNCHANGED <<fileVars, stopFile>>

\* upsert_job(job_results).  manual-job is over with it: its call of
\* _review_job has one argument too many and ends in an exception.
SaveResult(p) ==
    /\ pc[p] = "save"
    /\ UpsertJob(dto[p])
    /\ \/ /\ mode[p] = "manual"
          /\ Finish(p)
       \/ /\ mode[p] # "manual"
          /\ Goto(p, "check")
          /\ Hold(p, NoDto)
          /\ UNCHANGED <<mode, todo, listing>>
    /\ UNCHANGED <<fileVars, stopFile>>

\* Mutant: the STOP file is looked at only when --stop is given.
CheckOnceOnly(p) ==
    /\ pc[p] = "check"
    /\ Goto(p, IF stopFile /\ mode[p] = "once" THEN "disable" ELSE "fetch")
    /\ UNCHANGED <<storeVars, fileVars, stopFile, mode, dto, todo, listing>>

CheckStop(p) ==
    /\ pc[p] = "check"
    /\ Goto(p, IF stopFile \/ mode[p] = "once" THEN "disable" ELSE "fetch")
    /\ UNCHANGED <<storeVars, fileVars, stopFile, mode, dto, todo, listing>>

\* _disable_stop_signal at the end of the loop: removes whatever STOP file is
\* there, also one meant for another process.
ConsumeStop(p) ==
    /\ pc[p] = "disable"
    /\ stopFile' = FALSE
    /\ Finish(p)
    /\ UNCHANGED <<storeVars, fileVars>>

-----------------------------------------------------------------------------
(* Commands that are one atomic step.                                      *)

EnableStop(p) ==
    /\ MayRun(p, "enable-stop")
    /\ stopFile' = TRUE
    /\ UNCHANGED <<storeVars, fileVars, procVars>>

DisableStop(p) ==
    /\ MayRun(p, "disable-stop")
    /\ stopFile' = FALSE
    /\ UNCHANGED <<storeVars, fileVars, procVars>>

ResetJob(p, f) ==
    /\ MayRun(p, "reset-job")
    /\ ForceStatus(f, "PENDING")
    /\ UNCHANGED <<fileVars, stopFile, procVars>>

ForceApprove(p, f) ==
    /\ MayRun(p, "force-approve")
    /\ ForceStatus(f, "COMPLETE")
    /\ UNCHANGED <<fileVars, stopFile, procVars>>

-----------------------------------------------------------------------------
(* jobs manual-job                                                         *)

\* A file _process_file makes a job of.
Queueable(f) == NewJobs /\ f \in inputs \ AudioOnly

\* _process_file stores the new job as IND_JOB, replacing an existing row.
ManualJob(p, f) ==
    /\ MayRun(p, "manual-job")
    /\ Queueable(f)
    /\ UpsertJob(NewDto(f, "IND_JOB"))
    /\ Hold(p, NewDto(f, "IND_JOB"))
    /\ mode' = [mode EXCEPT ![p] = "manual"]
    /\ Goto(p, "manual")
    /\ UNCHANGED <<fileVars, stopFile, todo, listing>>

ManualQueue(p) ==
    /\ pc[p] = "manual"
    /\ UpsertJob([dto[p] EXCEPT !.status = "PENDING"])
    /\ Finish(p)
    /\ UNCHANGED <<fileVars, stopFile>>

ManualClaim(p) ==
    /\ pc[p] = "manual"
    /\ UpsertJob([dto[p] EXCEPT !.status = "WORKING"])
    /\ Hold(p, [dto[p] EXCEPT !.status = "WORKING"])
    /\ Goto(p, "encode")
    /\ UNCHANGED <<fileVars, stopFile, mode, todo, listing>>

\* The user answers no to the ffmpeg prompt; the job goes back to the queue.
ManualDecline(p) ==
    /\ pc[p] = "encode"
    /\ mode[p] = "manual"
    /\ "declined" \in EncodeOutcomes
    /\ CanEncode(dto[p])
    /\ Hold(p, [dto[p] EXCEPT !.status = "PENDING"])
    /\ Goto(p, "save")
    /\ UNCHANGED <<storeVars, fileVars, stopFile, mode, todo, listing>>

-----------------------------------------------------------------------------
(* jobs process-dir                                                        *)

\* The directory is listed, then the queued jobs are read in two queries.
ProcessDir(p) ==
    /\ MayRun(p, "process-dir")
    /\ listing' = [listing EXCEPT ![p] = inputs \ WithStatus("PENDING")]
    /\ Goto(p, "dirReview")
    /\ UNCHANGED <<storeVars, fileVars, stopFile, mode, dto, todo>>

\* Sorting by size stats every listed file: one that is gone raises.
ProcessDirReview(p) ==
    /\ pc[p] = "dirReview"
    /\ \/ /\ listing[p] \subseteq inputs
          /\ listing' = [listing EXCEPT ![p] = @ \ WithStatus("REVIEW")]
          /\ Goto(p, "dir")
          /\ UNCHANGED <<mode, dto, todo>>
       \/ /\ ~ (listing[p] \subseteq inputs)
          /\ Finish(p)
    /\ UNCHANGED <<storeVars, fileVars, stopFile>>

\* The next file, largest first, becomes a PENDING job whatever row it has.
QueueFile(p) ==
    /\ pc[p] = "dir"
    /\ \E f \in Largest(listing[p]) :
          /\ Queueable(f)
          /\ UpsertJob(NewDto(f, "PENDING"))
          /\ listing' = [listing EXCEPT ![p] = @ \ {f}]
    /\ UNCHANGED <<fileVars, stopFile, pc, mode, dto, todo>>

\* A file that has vanished raises, and so does one no job can be made of;
\* one without a video stream, and one the user could not recycle, are taken
\* for a "quit": the command ends.
QueueGivesUp(p) ==
    /\ pc[p] = "dir"
    /\ \E f \in Largest(listing[p]) : Queueable(f) => "preview" \in Commands[p]
    /\ Finish(p)
    /\ UNCHANGED <<storeVars, fileVars, stopFile>>

\* Preview mode: the user recycles the file instead of queueing it.
PreviewDelete(p) ==
    /\ pc[p] = "dir"
    /\ "preview" \in Commands[p]
    /\ \E f \in Largest(listing[p]) :
          /\ f \in inputs \ AudioOnly
          /\ inputs' = inputs \ {f}
          /\ listing' = [listing EXCEPT ![p] = @ \ {f}]
    /\ UNCHANGED <<storeVars, outs, stopFile, pc, mode, dto, todo>>

QueueDone(p) ==
    /\ pc[p] = "dir"
    /\ listing[p] = {}
    /\ Finish(p)
    /\ UNCHANGED <<storeVars, fileVars, stopFile>>

-----------------------------------------------------------------------------
(* db cancel-job and jobs validate-job: read, change the object, write.    *)

CancelJob(p, f) ==
    /\ MayRun(p, "cancel-job")
    /\ HasRow(f)
    /\ Hold(p, [JobDto(f) EXCEPT !.status = "CANCELLED"])
    /\ Goto(p, "put")
    /\ UNCHANGED <<storeVars, fileVars, stopFile, mode, todo, listing>>

\* Mutant: jobs of any status are validated again.
ValidateAny(p, f) ==
    /\ MayRun(p, "validate-job")
    /\ Hold(p, JobDto(f))
    /\ Goto(p, "rerun")
    /\ UNCHANGED <<storeVars, fileVars, stopFile, mode, todo, listing>>

ValidateJob(p, f) ==
    /\ MayRun(p, "validate-job")
    /\ jobs[f].status \in {"REVIEW", "ERROR"}
    /\ Hold(p, JobDto(f))
    /\ Goto(p, "rerun")
    /\ UNCHANGED <<storeVars, fileVars, stopFile, mode, todo, listing>>

\* _rerun_encoding_validation: succeeds when input and output can be read,
\* with the results of the validators, whatever they are, in the notes; a
\* validator that raises is a failure too.
RerunValidation(p) ==
    /\ pc[p] = "rerun"
    /\ \/ /\ dto[p].input \in inputs
          /\ Readable(outs[OutName[dto[p].input]])
          /\ \E s \in {"small", "large"} : Hold(p, Encoded(dto[p], s))
          /\ Goto(p, "put")
          /\ UNCHANGED <<mode, todo, listing>>
       \/ Finish(p)
    /\ UNCHANGED <<storeVars, fileVars, stopFile>>

\* The command ends with the write; a review session goes on.
PutJob(p) ==
    /\ pc[p] = "put"
    /\ UpsertJob(dto[p])
    /\ \/ /\ mode[p] # "review"
          /\ Finish(p)
       \/ /\ mode[p] = "review"
          /\ Goto(p, "review")
          /\ Hold(p, NoDto)
          /\ UNCHANGED <<mode, todo, listing>>
    /\ UNCHANGED <<fileVars, stopFile>>

-----------------------------------------------------------------------------
(* db bulk-approve                                                         *)

\* Mutant: the size is selected, the status is not.
BulkApproveAny(p) ==
    /\ MayRun(p, "bulk-approve")
    /\ todo' = [todo EXCEPT ![p] =
                 {JobDto(f) : f \in {g \in Files : HasRow(g)}}]
    /\ Goto(p, "bulk")
    /\ UNCHANGED <<storeVars, fileVars, stopFile, mode, dto, listing>>

BulkApprove(p) ==
    /\ MayRun(p, "bulk-approve")
    /\ todo' = [todo EXCEPT ![p] =
                 {JobDto(f) : f \in {g \in WithStatus("REVIEW") :
                                       jobs[g].sizeOut = "small"}}]
    /\ Goto(p, "bulk")
    /\ UNCHANGED <<storeVars, fileVars, stopFile, mode, dto, listing>>

\* The input is recycled before the row is written; recycle_file swallows
\* its errors, so the file may stay.
BulkRecycle(p) ==
    /\ pc[p] = "bulk"
    /\ \E d \in todo[p] :
          /\ inputs' \in {inputs, inputs \ {d.input}}
          /\ Hold(p, [d EXCEPT !.status = "COMPLETE", !.notes = {"flow"}])
          /\ todo' = [todo EXCEPT ![p] = @ \ {d}]
    /\ Goto(p, "bulkSave")
    /\ UNCHANGED <<storeVars, outs, stopFile, mode, listing>>

BulkSave(p) ==
    /\ pc[p] = "bulkSave"
    /\ UpsertJob(dto[p])
    /\ Hold(p, NoDto)
    /\ Goto(p, "bulk")
    /\ UNCHANGED <<fileVars, stopFile, mode, todo, listing>>

BulkDone(p) ==
    /\ pc[p] = "bulk"
    /\ todo[p] = {}
    /\ Finish(p)
    /\ UNCHANGED <<storeVars, fileVars, stopFile>>

-----------------------------------------------------------------------------
(* jobs review-jobs and jobs reset-job: a user decides at the prompt.      *)

ReviewJobs(p) ==
    /\ MayRun(p, "review-jobs")
    /\ WithStatus("REVIEW") # {}
    /\ mode' = [mode EXCEPT ![p] = "review"]
    /\ Goto(p, "review")
    /\ UNCHANGED <<storeVars, fileVars, stopFile, dto, todo, listing>>

\* The background thread reads a job and probes its files, at any time of the
\* session.  (It takes each job once per session, five at a time; here a job
\* decided on may be read again, as by a session started anew.)
ReviewPrepare(p) ==
    /\ mode[p] = "review"
    /\ \E f \in WithStatus("REVIEW") \cap inputs :
          /\ Readable(outs[OutName[f]])
          /\ \A d \in todo[p] : d.input # f
          /\ dto[p] # NoDto => dto[p].input # f
          /\ todo' = [todo EXCEPT ![p] = @ \cup {NextDto(f)}]
    /\ UNCHANGED <<storeVars, fileVars, stopFile, pc, mode, dto, listing>>

\* The largest of the prepared jobs comes to the prompt, as it was read; the
\* session is over when one of its files has gone.
ReviewShow(p) ==
    /\ pc[p] = "review"
    /\ \E d \in todo[p] :
          /\ d.input \in Largest({t.input : t \in todo[p]})
          /\ IF d.input \in inputs /\ Exists(outs[OutName[d.input]])
             THEN /\ Hold(p, d)
                  /\ Goto(p, "prompt")
                  /\ todo' = [todo EXCEPT ![p] = @ \ {d}]
                  /\ UNCHANGED <<mode, listing>>
             ELSE Finish(p)
    /\ UNCHANGED <<storeVars, fileVars, stopFile>>

\* jobs reset-job builds the output name from the output column, and asks the
\* user only about a job that is not in review and has an output file.
JobsResetJob(p, f) ==
    /\ MayRun(p, "jobs-reset-job")
    /\ HasRow(f) /\ f \in inputs
    /\ jobs[f].output = "dir"
    /\ Readable(outs[OutName[f]])
    /\ Hold(p, [JobDto(f) EXCEPT !.output = "file"])
    /\ Goto(p, "prompt")
    /\ UNCHANGED <<storeVars, fileVars, stopFile, mode, todo, listing>>

Removed(p) == [outs EXCEPT ![OutName[dto[p].input]] = "removed"]

\* Option d: one of the two files is recycled, the question is asked again.
PromptDelete(p) ==
    /\ pc[p] = "prompt"
    /\ \/ inputs' = inputs \ {dto[p].input} /\ UNCHANGED outs
       \/ outs' = Removed(p) /\ UNCHANGED inputs
    /\ UNCHANGED <<storeVars, stopFile, procVars>>

\* Option r: the job is as new.
AsNew(d) == [d EXCEPT !.output = "dir", !.status = "PENDING", !.sizeOut = "null"]

\* Options a, x and r.  The job is written if the letter is the last of the
\* answer; a letter after it may also ask again, and the object stays changed.
PromptDecide(p) ==
    /\ pc[p] = "prompt"
    /\ \/ /\ Hold(p, [dto[p] EXCEPT !.status = "COMPLETE"])
          /\ UNCHANGED fileVars
       \/ /\ Hold(p, [dto[p] EXCEPT !.status = "DELETED"])
          /\ inputs' \in {inputs, inputs \ {dto[p].input}}
          /\ outs' \in {outs, Removed(p)}
       \/ /\ Hold(p, AsNew(dto[p]))
          /\ outs' = Removed(p) /\ UNCHANGED inputs
    /\ \E l \in {"prompt", "put"} : Goto(p, l)
    /\ UNCHANGED <<storeVars, stopFile, mode, todo, listing>>

\* The user quits, no job is left, or an exception ends the session.
ReviewEnds(p) ==
    /\ pc[p] \in {"review", "prompt"}
    /\ Finish(p)
    /\ UNCHANGED <<storeVars, fileVars, stopFile>>

-----------------------------------------------------------------------------

\* The process is killed, or sqlite raises: the command is over, whatever it
\* has committed stays.
Abort(p) ==
    /\ MayAbort
    /\ pc[p] # "idle"
    /\ Finish(p)
    /\ UNCHANGED <<storeVars, fileVars, stopFile>>

\* A user starts a command.
Start(p) ==
    \/ \E m \in {"loop", "once"} : StartJobs(p, m)
    \/ EnableStop(p) \/ DisableStop(p)
    \/ ProcessDir(p) \/ BulkApprove(p) \/ ReviewJobs(p)
    \/ \E f \in Files : \/ ResetJob(p, f) \/ ForceApprove(p, f)
                        \/ ManualJob(p, f) \/ JobsResetJob(p, f)
                        \/ CancelJob(p, f) \/ ValidateJob(p, f)

\* A command that has been started goes on.
Step(p) ==
    \/ FetchJob(p) \/ ClaimJob(p)
    \/ EncodeRaises(p) \/ LaunchFfmpeg(p) \/ FfmpegEnds(p) \/ FfmpegRefuses(p)
    \/ SaveResult(p) \/ CheckStop(p) \/ ConsumeStop(p)
    \/ ManualQueue(p) \/ ManualClaim(p) \/ ManualDecline(p)
    \/ ProcessDirReview(p) \/ QueueFile(p) \/ QueueGivesUp(p)
    \/ PreviewDelete(p) \/ QueueDone(p)
    \/ RerunValidation(p) \/ PutJob(p)
    \/ BulkRecycle(p) \/ BulkSave(p) \/ BulkDone(p)
    \/ ReviewPrepare(p) \/ ReviewShow(p)
    \/ PromptDelete(p) \/ PromptDecide(p) \/ ReviewEnds(p)

Next == \E p \in Procs : Start(p) \/ Step(p) \/ Abort(p)

Spec == Init /\ [][Next]_vars

\* A running command is scheduled by the operating system; nothing obliges a
\* user to start one, and nothing obliges a process to be killed.
FairSpec == Spec /\ \A p \in Procs : WF_vars(Step(p))

-----------------------------------------------------------------------------
(* Safety properties.                                                      *)

\* A row that the review commands and bulk-approve may act on carries the
\* outcome of an encode: the path and the size of an output file, and
\* validation results in its newest history entry - also when the row went
\* through resets, cancellations, crashes or validate-job on the way.
ReviewHasResult ==
    \A f \in WithStatus("REVIEW") :
        /\ jobs[f].output = "file"
        /\ jobs[f].sizeOut # "null"
        /\ history[f].after = "REVIEW"
        /\ "validation" \in history[f].notes

\* The history explains every status, except that the two updates that write
\* no history entry can have moved the row to PENDING or to COMPLETE since.
HistoryExplainsStatus ==
    \A f \in Files : \/ history[f].after = jobs[f].status
                     \/ /\ history[f].after # "NONE"
                        /\ jobs[f].status \in {"PENDING", "COMPLETE"}

\* No command recycles an input before something has been written to its
\* output path, and from then on there is a file at that path, unless the
\* user of a review removed it (options r, d and x): bulk-approve works from
\* a list it read earlier, while other processes reset, re-queue or encode
\* the same jobs.  After a review has removed the output and been left with
\* q, bulk-approve does recycle the input of a job that has no output any
\* more.  (In preview mode of process-dir inputs are recycled on purpose.)
RecycledHasOutput ==
    (\A p \in Procs : "preview" \notin Commands[p]) =>
        \A f \in Files \ inputs : outs[OutName[f]] # "absent"

\* What an input was recycled for is still at its output path, unless the
\* user of a review removed it: the whole encode, or the incomplete one a
\* command took for its result - the exit code of ffmpeg is ignored, so a
\* run that ended early, or did not start where an earlier one was killed, is
\* reviewed and approved like any other.  It is never nothing, a file that
\* cannot be read, the output of another job, or a file that an encode has
\* begun to write over.  It takes one encoder and one process that queues,
\* cancels, reviews and approves; manual-job, validate-job, jobs reset-job
\* and preview mode are not used.
RecycledVideoSurvives ==
    \A f \in Files \ inputs : outs[OutName[f]] \in {f, "short", "removed"}

\* Unless processes die, a row is WORKING only while some process is still
\* between its claim and its save; so start-jobs has rows to rescue only
\* after a crash.
WorkingHasOwner ==
    ~ MayAbort =>
        \A f \in WithStatus("WORKING") :
            \E p \in Procs : /\ pc[p] \in {"encode", "ffmpeg", "save"}
                            /\ dto[p].input = f

-----------------------------------------------------------------------------
(* The life of a job, as seen by one encoder and any number of processes   *)
(* that do not write the rows it works on.                                 *)

Lifecycle == INSTANCE JobLifecycle
                WITH Jobs <- Files, status <- [f \in Files |-> jobs[f].status],
                     Waiting <- Queued
LifecycleSpec == Lifecycle!Spec

\* process-dir ends on its own only when it has dealt with every file it
\* listed.
ProcessDirVisitsAll ==
    [][\A p \in Procs : pc[p] = "dir" /\ pc'[p] = "idle" => listing[p] = {}]_vars

-----------------------------------------------------------------------------
(* Liveness properties.                                                    *)

Encoding(p) == pc[p] \in {"fetch", "claim", "encode", "ffmpeg", "save", "check",
                          "disable"}

\* A running start-jobs without --stop does not end before every pending job
\* has been taken, whatever the encodes end in and whoever else takes jobs -
\* unless it is asked to stop (at "disable" it has been), or files are queued
\* again and again.
QueueDrains ==
    (\E p \in Procs : Encoding(p) /\ pc[p] # "disable" /\ mode[p] = "loop")
        ~> \/ stopFile \/ WithStatus("PENDING") = {}
           \/ \E p \in Procs : pc[p] = "dir"

\* Once the STOP file exists, an encoding process ends, even while others keep
\* the queue filled - unless another encoder has taken the file for itself,
\* which removes it.
StopHalts ==
    \A p \in Procs : (stopFile /\ Encoding(p)) ~> (~ Encoding(p) \/ ~ stopFile)
=============================================================================
