------------------------- MODULE EncodeQueueProofs -------------------------
(***************************************************************************)
(* Proofs about EncodeQueue, for any number of files, processes and        *)
(* commands in use.                                                        *)
(***************************************************************************)
EXTENDS EncodeQueue, TLAPS

-----------------------------------------------------------------------------
(* Lemmas on the store and on job objects.                                 *)

\* Upserting a job keeps the tables well typed.
LEMMA UpsertType ==
    ASSUME StoreTypeOK, NEW d \in Dto, UpsertJob(d)
    PROVE  StoreTypeOK'
BY DEF StoreTypeOK, UpsertJob, Dto, Row, HistoryRow

\* So does the update that start-jobs begins with.
LEMMA BulkUpdateType ==
    ASSUME StoreTypeOK, BulkUpdateStatus("WORKING", "PENDING")
    PROVE  StoreTypeOK'
BY DEF StoreTypeOK, BulkUpdateStatus, Row, JobStatus

\* So does a forced status.
LEMMA ForceType ==
    ASSUME StoreTypeOK, NEW f \in Files, NEW s \in JobStatus, ForceStatus(f, s)
    PROVE  StoreTypeOK'
BY DEF StoreTypeOK, ForceStatus, Row

\* What the selects return for a row that exists is a job object.
LEMMA SelectType ==
    ASSUME StoreTypeOK, NEW f \in Files, HasRow(f)
    PROVE  JobDto(f) \in Dto /\ NextDto(f) \in Dto
BY DEF StoreTypeOK, HasRow, JobDto, NextDto, RowDto, Dto, Row, HistoryRow

\* Changing the status of a job object gives a job object.
LEMMA StatusType ==
    ASSUME NEW d \in Dto, NEW s \in JobStatus
    PROVE  [d EXCEPT !.status = s] \in Dto /\ [d EXCEPT !.status = s].input = d.input
BY DEF Dto

\* The outcomes of an encode are job objects for the same file.
LEMMA OutcomeType ==
    ASSUME NEW d \in Dto, NEW s \in {"small", "large"}
    PROVE  /\ Encoded(d, s) \in Dto /\ Encoded(d, s).input = d.input
           /\ Failed(d) \in Dto /\ Failed(d).input = d.input
BY DEF Dto, Encoded, Failed, OutputKind, SizeOut, JobStatus, NoteKey

\* What the user of a review makes of a job object is one.
LEMMA DecidedType ==
    ASSUME NEW d \in Dto
    PROVE  /\ [d EXCEPT !.output = "file"] \in Dto
           /\ AsNew(d) \in Dto /\ AsNew(d).input = d.input /\ AsNew(d).status = "PENDING"
BY DEF Dto, AsNew, OutputKind, SizeOut, JobStatus

\* A new job object has the file and the status it is made for.
LEMMA NewType ==
    ASSUME NEW f \in Files, NEW s \in JobStatus
    PROVE  NewDto(f, s) \in Dto
BY DEF NewDto, Dto, OutputKind, SizeOut, NoteKey

-----------------------------------------------------------------------------
(* Lemmas on the process variables.                                        *)

\* A command that ends leaves its process well typed.
LEMMA FinishType ==
    ASSUME ProcTypeOK, NEW p \in Procs, Finish(p)
    PROVE  ProcTypeOK'
BY DEF ProcTypeOK, Finish, Goto, Hold, Label, Holding

\* A process that takes up a job object and moves on is well typed.
LEMMA HoldType ==
    ASSUME ProcTypeOK, NEW p \in Procs, NEW l \in Label, NEW d \in Dto,
           Goto(p, l), Hold(p, d), UNCHANGED <<mode, todo, listing>>
    PROVE  ProcTypeOK'
BY DEF ProcTypeOK, Goto, Hold

\* A process that moves on with what it holds is well typed.
LEMMA MoveType ==
    ASSUME ProcTypeOK, NEW p \in Procs, NEW l \in Label, Goto(p, l),
           l \in Holding => pc[p] \in Holding, UNCHANGED <<mode, dto, todo, listing>>
    PROVE  ProcTypeOK'
BY DEF ProcTypeOK, Goto

\* Nothing the process variables say depends on the other variables.
LEMMA ProcUnchanged == ASSUME ProcTypeOK, UNCHANGED procVars PROVE ProcTypeOK'
BY DEF ProcTypeOK, procVars

LEMMA StoreUnchanged == ASSUME StoreTypeOK, UNCHANGED storeVars PROVE StoreTypeOK'
BY DEF StoreTypeOK, storeVars

-----------------------------------------------------------------------------
(* Type correctness.                                                       *)

LEMMA TypeInit == Init => TypeOK
<1> SUFFICES ASSUME Init PROVE TypeOK
  OBVIOUS
<1>1. NoRow \in Row /\ [NoRow EXCEPT !.status = "PENDING"] \in Row
  BY DEF NoRow, Row, OutputKind, SizeOut, JobStatus
<1>2. NoHistory \in HistoryRow /\ [NoHistory EXCEPT !.after = "PENDING"] \in HistoryRow
  BY DEF NoHistory, HistoryRow, NoteKey, JobStatus
<1>3. StoreTypeOK
  BY <1>1, <1>2 DEF Init, StoreTypeOK
<1>4. ProcTypeOK
  BY DEF Init, ProcTypeOK, Label, Holding
<1>5. "absent" \in Content
  BY DEF Content
<1> QED BY <1>3, <1>4, <1>5 DEF Init, TypeOK

\* Every step of a command keeps the types.
LEMMA TypeStep ==
    ASSUME TypeOK, NEW p \in Procs, Step(p)
    PROVE  TypeOK'
<1> USE DEF TypeOK, fileVars
<1>1. dto[p] \in Dto \/ pc[p] \notin Holding
  BY DEF ProcTypeOK
<1>2. CASE FetchJob(p)
  <2>1. CASE WithStatus("PENDING") = {}
    BY <1>2, <2>1, FinishType, StoreUnchanged DEF FetchJob, Largest, Finish, Goto
  <2>2. CASE WithStatus("PENDING") # {}
    <3>1. PICK f \in Largest(WithStatus("PENDING")) :
              /\ Hold(p, [NextDto(f) EXCEPT !.status = "WORKING"])
              /\ Goto(p, "claim")
              /\ UNCHANGED <<mode, todo, listing>>
      BY <1>2, <2>2 DEF FetchJob
    <3>2. f \in Files /\ HasRow(f)
      BY DEF Largest, WithStatus, HasRow
    <3>3. [NextDto(f) EXCEPT !.status = "WORKING"] \in Dto
      BY <3>2, SelectType, StatusType DEF JobStatus
    <3> QED BY <1>2, <3>1, <3>3, HoldType, StoreUnchanged DEF FetchJob, Label
  <2> QED BY <2>1, <2>2
<1>3. CASE ClaimJob(p)
  BY <1>1, <1>3, UpsertType, MoveType DEF ClaimJob, Holding, Label
<1>4. CASE EncodeRaises(p)
  BY <1>1, <1>4, OutcomeType, HoldType, StoreUnchanged DEF EncodeRaises, Holding, Label
<1>5. CASE LaunchFfmpeg(p)
  BY <1>1, <1>5, MoveType, StoreUnchanged DEF LaunchFfmpeg, Holding, Label, Content
<1>6. CASE FfmpegEnds(p)
  <2>1. PICK c \in Content :
            /\ outs' = [outs EXCEPT ![OutName[dto[p].input]] = c]
            /\ ProbeOutput(p, dto[p], c)
    BY <1>6 DEF FfmpegEnds
  <2>2. ProcTypeOK'
    BY <1>1, <1>6, <2>1, OutcomeType, HoldType DEF FfmpegEnds, ProbeOutput, Holding, Label
  <2> QED BY <1>6, <2>1, <2>2, StoreUnchanged DEF FfmpegEnds
<1>7. CASE FfmpegRefuses(p)
  <2>1. ProcTypeOK'
    BY <1>1, <1>7, OutcomeType, HoldType DEF FfmpegRefuses, ProbeOutput, Holding, Label
  <2> QED BY <1>7, <2>1, StoreUnchanged DEF FfmpegRefuses, Content
<1>8. CASE SaveResult(p)
  <2>1. StoreTypeOK'
    BY <1>1, <1>8, UpsertType DEF SaveResult, Holding
  <2>2. ProcTypeOK'
    <3>1. CASE Finish(p)
      BY <3>1, FinishType
    <3>2. CASE ~ Finish(p)
      BY <1>8, <3>2 DEF SaveResult, ProcTypeOK, Goto, Hold, Holding, Label
    <3> QED BY <3>1, <3>2
  <2> QED BY <1>8, <2>1, <2>2 DEF SaveResult
<1>9. CASE CheckStop(p)
  BY <1>9, MoveType, StoreUnchanged DEF CheckStop, Holding, Label
<1>10. CASE ConsumeStop(p)
  BY <1>10, FinishType, StoreUnchanged DEF ConsumeStop
<1>11. CASE ManualQueue(p)
  BY <1>1, <1>11, FinishType, UpsertType, StatusType DEF ManualQueue, Holding, JobStatus
<1>12. CASE ManualClaim(p)
  BY <1>1, <1>12, HoldType, UpsertType, StatusType DEF ManualClaim, Holding, JobStatus, Label
<1>13. CASE ManualDecline(p)
  BY <1>1, <1>13, HoldType, StatusType, StoreUnchanged
  DEF ManualDecline, Holding, JobStatus, Label
<1>14. CASE ProcessDirReview(p)
  <2>1. ProcTypeOK'
    <3>1. CASE Finish(p)
      BY <3>1, FinishType
    <3>2. CASE ~ Finish(p)
      BY <1>14, <3>2 DEF ProcessDirReview, ProcTypeOK, Goto, Holding, Label
    <3> QED BY <3>1, <3>2
  <2> QED BY <1>14, <2>1, StoreUnchanged DEF ProcessDirReview
<1>15. CASE QueueFile(p)
  <2>1. PICK f \in Largest(listing[p]) :
            /\ UpsertJob(NewDto(f, "PENDING"))
            /\ listing' = [listing EXCEPT ![p] = @ \ {f}]
    BY <1>15 DEF QueueFile
  <2>2. f \in Files
    BY DEF Largest, ProcTypeOK
  <2>3. StoreTypeOK'
    BY <2>1, <2>2, NewType, UpsertType DEF JobStatus
  <2>4. ProcTypeOK'
    BY <1>15, <2>1 DEF QueueFile, ProcTypeOK
  <2> QED BY <1>15, <2>3, <2>4 DEF QueueFile
<1>16. CASE QueueGivesUp(p)
  BY <1>16, FinishType, StoreUnchanged DEF QueueGivesUp
<1>17. CASE PreviewDelete(p)
  <2>1. ProcTypeOK'
    BY <1>17 DEF PreviewDelete, ProcTypeOK
  <2> QED BY <1>17, <2>1, StoreUnchanged DEF PreviewDelete
<1>18. CASE QueueDone(p)
  BY <1>18, FinishType, StoreUnchanged DEF QueueDone
<1>19. CASE RerunValidation(p)
  <2>1. ProcTypeOK'
    BY <1>1, <1>19, FinishType, OutcomeType, HoldType DEF RerunValidation, Holding, Label
  <2> QED BY <1>19, <2>1, StoreUnchanged DEF RerunValidation
<1>20. CASE PutJob(p)
  <2>1. StoreTypeOK'
    BY <1>1, <1>20, UpsertType DEF PutJob, Holding
  <2>2. ProcTypeOK'
    <3>1. CASE Finish(p)
      BY <3>1, FinishType
    <3>2. CASE ~ Finish(p)
      BY <1>20, <3>2 DEF PutJob, ProcTypeOK, Goto, Hold, Holding, Label
    <3> QED BY <3>1, <3>2
  <2> QED BY <1>20, <2>1, <2>2 DEF PutJob
<1>21. CASE BulkRecycle(p)
  <2>1. PICK d \in todo[p] :
            /\ inputs' \in {inputs, inputs \ {d.input}}
            /\ Hold(p, [d EXCEPT !.status = "COMPLETE", !.notes = {"flow"}])
            /\ todo' = [todo EXCEPT ![p] = @ \ {d}]
    BY <1>21 DEF BulkRecycle
  <2>2. d \in Dto
    BY DEF ProcTypeOK
  <2>3. [d EXCEPT !.status = "COMPLETE", !.notes = {"flow"}] \in Dto
    BY <2>2 DEF Dto, JobStatus, NoteKey
  <2>4. ProcTypeOK'
    BY <1>21, <2>1, <2>3 DEF BulkRecycle, ProcTypeOK, Goto, Hold, Label
  <2> QED BY <1>21, <2>1, <2>4, StoreUnchanged DEF BulkRecycle
<1>22. CASE BulkSave(p)
  <2>1. ProcTypeOK'
    BY <1>22 DEF BulkSave, ProcTypeOK, Goto, Hold, Holding, Label
  <2> QED BY <1>1, <1>22, <2>1, UpsertType DEF BulkSave, Holding
<1>23. CASE BulkDone(p)
  BY <1>23, FinishType, StoreUnchanged DEF BulkDone
<1>24. CASE ReviewPrepare(p)
  <2>1. PICK f \in WithStatus("REVIEW") : todo' = [todo EXCEPT ![p] = @ \cup {NextDto(f)}]
    BY <1>24 DEF ReviewPrepare
  <2>2. NextDto(f) \in Dto
    BY SelectType DEF WithStatus, HasRow
  <2>3. ProcTypeOK'
    BY <1>24, <2>1, <2>2 DEF ReviewPrepare, ProcTypeOK
  <2> QED BY <1>24, <2>3, StoreUnchanged DEF ReviewPrepare
<1>25. CASE ReviewShow(p)
  <2>1. ProcTypeOK'
    <3>1. CASE Finish(p)
      BY <3>1, FinishType
    <3>2. CASE ~ Finish(p)
      BY <1>25, <3>2 DEF ReviewShow, ProcTypeOK, Goto, Hold, Holding, Label
    <3> QED BY <3>1, <3>2
  <2> QED BY <1>25, <2>1, StoreUnchanged DEF ReviewShow
<1>26. CASE PromptDelete(p)
  BY <1>26, ProcUnchanged, StoreUnchanged DEF PromptDelete, Removed, Content
<1>27. CASE PromptDecide(p)
  <2>1. ProcTypeOK'
    BY <1>1, <1>27, DecidedType, StatusType, HoldType
    DEF PromptDecide, Holding, Label, JobStatus
  <2> QED BY <1>27, <2>1, StoreUnchanged DEF PromptDecide, Removed, Content
<1>28. CASE ReviewEnds(p)
  BY <1>28, FinishType, StoreUnchanged DEF ReviewEnds
<1> QED
  BY <1>2, <1>3, <1>4, <1>5, <1>6, <1>7, <1>8, <1>9, <1>10, <1>11, <1>12, <1>13, <1>14,
     <1>15, <1>16, <1>17, <1>18, <1>19, <1>20, <1>21, <1>22, <1>23, <1>24, <1>25, <1>26,
     <1>27, <1>28 DEF Step

\* So does starting one.
LEMMA TypeStart ==
    ASSUME TypeOK, NEW p \in Procs, Start(p)
    PROVE  TypeOK'
<1> USE DEF TypeOK, fileVars
<1>1. ASSUME NEW m \in {"loop", "once"}, StartJobs(p, m) PROVE TypeOK'
  <2>1. ProcTypeOK'
    BY <1>1 DEF StartJobs, ProcTypeOK, Goto, Holding, Label
  <2> QED BY <1>1, <2>1, BulkUpdateType DEF StartJobs
<1>2. CASE EnableStop(p) \/ DisableStop(p)
  BY <1>2, ProcUnchanged, StoreUnchanged DEF EnableStop, DisableStop
<1>3. CASE ProcessDir(p)
  <2>1. ProcTypeOK'
    BY <1>3 DEF ProcessDir, ProcTypeOK, Goto, Holding, Label
  <2> QED BY <1>3, <2>1, StoreUnchanged DEF ProcessDir
<1>4. CASE BulkApprove(p)
  <2>1. {JobDto(f) : f \in {g \in WithStatus("REVIEW") : jobs[g].sizeOut = "small"}}
          \in SUBSET Dto
    BY SelectType DEF WithStatus, HasRow
  <2>2. ProcTypeOK'
    BY <1>4, <2>1 DEF BulkApprove, ProcTypeOK, Goto, Holding, Label
  <2> QED BY <1>4, <2>2, StoreUnchanged DEF BulkApprove
<1>5. ASSUME NEW f \in Files, ResetJob(p, f) \/ ForceApprove(p, f) PROVE TypeOK'
  BY <1>5, ForceType, ProcUnchanged DEF ResetJob, ForceApprove, JobStatus
<1>6. ASSUME NEW f \in Files, ManualJob(p, f) PROVE TypeOK'
  <2>1. NewDto(f, "IND_JOB") \in Dto
    BY NewType DEF JobStatus
  <2>2. ProcTypeOK'
    BY <1>6, <2>1 DEF ManualJob, ProcTypeOK, Goto, Hold, Label
  <2> QED BY <1>6, <2>1, <2>2, UpsertType DEF ManualJob
<1>7. ASSUME NEW f \in Files, CancelJob(p, f) PROVE TypeOK'
  <2>1. [JobDto(f) EXCEPT !.status = "CANCELLED"] \in Dto
    BY <1>7, SelectType, StatusType DEF CancelJob, JobStatus
  <2> QED BY <1>7, <2>1, HoldType, StoreUnchanged DEF CancelJob, Label
<1>8. ASSUME NEW f \in Files, ValidateJob(p, f) PROVE TypeOK'
  <2>1. JobDto(f) \in Dto
    BY <1>8, SelectType DEF ValidateJob, HasRow
  <2> QED BY <1>8, <2>1, HoldType, StoreUnchanged DEF ValidateJob, Label
<1>9. CASE ReviewJobs(p)
  <2>1. ProcTypeOK'
    BY <1>9 DEF ReviewJobs, ProcTypeOK, Goto, Holding, Label
  <2> QED BY <1>9, <2>1, StoreUnchanged DEF ReviewJobs
<1>10. ASSUME NEW f \in Files, JobsResetJob(p, f) PROVE TypeOK'
  <2>1. [JobDto(f) EXCEPT !.output = "file"] \in Dto
    BY <1>10, SelectType, DecidedType DEF JobsResetJob
  <2> QED BY <1>10, <2>1, HoldType, StoreUnchanged DEF JobsResetJob, Label
<1> QED BY <1>1, <1>2, <1>3, <1>4, <1>5, <1>6, <1>7, <1>8, <1>9, <1>10 DEF Start

LEMMA TypeNext == TypeOK /\ [Next]_vars => TypeOK'
<1> SUFFICES ASSUME TypeOK, [Next]_vars PROVE TypeOK'
  OBVIOUS
<1>1. ASSUME NEW p \in Procs, Abort(p) PROVE TypeOK'
  BY <1>1, FinishType, StoreUnchanged DEF Abort, TypeOK, fileVars
<1>2. CASE UNCHANGED vars
  BY <1>2, ProcUnchanged, StoreUnchanged DEF vars, TypeOK, procVars, storeVars
<1> QED BY <1>1, <1>2, TypeStart, TypeStep DEF Next

\* Every reachable state is well typed, whatever the processes do.
THEOREM TypeCorrect == Spec => []TypeOK
BY TypeInit, TypeNext, PTL DEF Spec

-----------------------------------------------------------------------------
(* What the processes hold.                                                *)

\* A job object that carries the outcome of an encode.
HasResult(d) == /\ d.output = "file"
                /\ d.sizeOut # "null"
                /\ "validation" \in d.notes

\* What a process is about to write: a claim is a claim, a bulk approval
\* completes the job, and only a result goes to REVIEW.
HeldOK(p) ==
    /\ pc[p] = "claim" => dto[p].status = "WORKING"
    /\ pc[p] = "bulkSave" => dto[p].status = "COMPLETE"
    /\ pc[p] \in {"save", "put"} =>
          /\ dto[p].status # "WORKING"
          /\ dto[p].status = "REVIEW" => HasResult(dto[p])

HeldInv == \A p \in Procs : HeldOK(p)

\* A step of one process leaves the others where they are.
LEMMA OthersUnchanged ==
    ASSUME TypeOK, NEW p \in Procs, Start(p) \/ Step(p) \/ Abort(p),
           NEW q \in Procs, q # p
    PROVE  /\ pc'[q] = pc[q] /\ mode'[q] = mode[q]
           /\ dto'[q] = dto[q] /\ todo'[q] = todo[q]
<1> USE DEF TypeOK, ProcTypeOK, Finish, Goto, Hold, procVars
<1>1. CASE Start(p)
  BY <1>1 DEF Start, StartJobs, EnableStop, DisableStop, ProcessDir, BulkApprove,
     ResetJob, ForceApprove, ManualJob, CancelJob, ValidateJob, ReviewJobs, JobsResetJob
<1>2. CASE FetchJob(p) \/ ClaimJob(p) \/ EncodeRaises(p) \/ LaunchFfmpeg(p)
           \/ FfmpegEnds(p) \/ FfmpegRefuses(p) \/ SaveResult(p)
  BY <1>2 DEF FetchJob, ClaimJob, EncodeRaises, LaunchFfmpeg, FfmpegEnds,
     FfmpegRefuses, ProbeOutput, SaveResult
<1>3. CASE CheckStop(p) \/ ConsumeStop(p) \/ ManualQueue(p) \/ ManualClaim(p)
           \/ ManualDecline(p) \/ ProcessDirReview(p) \/ QueueFile(p)
           \/ QueueGivesUp(p) \/ PreviewDelete(p) \/ QueueDone(p)
  BY <1>3 DEF CheckStop, ConsumeStop, ManualQueue, ManualClaim, ManualDecline,
     ProcessDirReview, QueueFile, QueueGivesUp, PreviewDelete, QueueDone
<1>4. CASE RerunValidation(p) \/ PutJob(p) \/ BulkRecycle(p) \/ BulkSave(p)
           \/ BulkDone(p) \/ Abort(p)
  BY <1>4 DEF RerunValidation, PutJob, BulkRecycle, BulkSave, BulkDone, Abort
<1>5. CASE ReviewPrepare(p) \/ ReviewShow(p) \/ PromptDelete(p) \/ PromptDecide(p)
           \/ ReviewEnds(p)
  BY <1>5 DEF ReviewPrepare, ReviewShow, PromptDelete, PromptDecide, ReviewEnds
<1> QED BY <1>1, <1>2, <1>3, <1>4, <1>5 DEF Step

\* The objects an encode ends with are ready to be written.
LEMMA OutcomeHeld ==
    ASSUME NEW d \in Dto, NEW s \in {"small", "large"}
    PROVE  /\ HasResult(Encoded(d, s)) /\ Encoded(d, s).status = "REVIEW"
           /\ Failed(d).status = "ERROR"
BY DEF Dto, Encoded, Failed, HasResult

\* What the user of a prompt makes of a job.
LEMMA DecidedDto ==
    ASSUME ProcTypeOK, NEW p \in Procs, PromptDecide(p)
    PROVE  /\ dto'[p].input = dto[p].input
           /\ dto'[p].status \in {"COMPLETE", "DELETED", "PENDING"}
           /\ dto'[p].output \in {dto[p].output, "dir"}
           /\ dto'[p].output = "dir" \/ dto'[p].status # "PENDING"
           /\ dto'[p] \in Dto
           /\ todo' = todo
<1>1. dto[p] \in Dto
  BY DEF PromptDecide, ProcTypeOK, Holding
<1>2. \/ dto' = [dto EXCEPT ![p] = [dto[p] EXCEPT !.status = "COMPLETE"]]
      \/ dto' = [dto EXCEPT ![p] = [dto[p] EXCEPT !.status = "DELETED"]]
      \/ dto' = [dto EXCEPT ![p] = AsNew(dto[p])]
  BY DEF PromptDecide, Hold
<1>3. \/ dto'[p] = [dto[p] EXCEPT !.status = "COMPLETE"]
      \/ dto'[p] = [dto[p] EXCEPT !.status = "DELETED"]
      \/ dto'[p] = AsNew(dto[p])
  BY <1>2 DEF ProcTypeOK
<1>4. todo' = todo
  BY DEF PromptDecide
<1> QED BY <1>1, <1>3, <1>4 DEF Dto, AsNew, JobStatus, OutputKind, SizeOut

\* A process that steps still holds what it should.
LEMMA HeldStep ==
    ASSUME TypeOK, NEW p \in Procs, HeldOK(p), Start(p) \/ Step(p) \/ Abort(p)
    PROVE  HeldOK(p)'
<1> USE DEF TypeOK, ProcTypeOK, HeldOK
<1>1. CASE Finish(p)
  BY <1>1 DEF Finish, Goto
<1>2. CASE UNCHANGED procVars
  BY <1>2 DEF procVars, HasResult
<1>3. ASSUME NEW m \in {"loop", "once"}, StartJobs(p, m) PROVE HeldOK(p)'
  BY <1>3 DEF StartJobs, Goto
<1>4. CASE ProcessDir(p) \/ BulkApprove(p) \/ ReviewJobs(p)
  BY <1>4 DEF ProcessDir, BulkApprove, ReviewJobs, Goto
<1>5. ASSUME NEW f \in Files, ManualJob(p, f) \/ ValidateJob(p, f) PROVE HeldOK(p)'
  BY <1>5 DEF ManualJob, ValidateJob, Goto
<1>6. ASSUME NEW f \in Files, CancelJob(p, f) PROVE HeldOK(p)'
  <2>1. [JobDto(f) EXCEPT !.status = "CANCELLED"].status = "CANCELLED"
    BY DEF JobDto, RowDto
  <2> QED BY <1>6, <2>1 DEF CancelJob, Goto, Hold
<1>7. CASE FetchJob(p)
  <2>1. \A f \in Files : [NextDto(f) EXCEPT !.status = "WORKING"].status = "WORKING"
    BY DEF NextDto, RowDto
  <2> QED BY <1>1, <1>7, <2>1 DEF FetchJob, Goto, Hold, Largest, WithStatus
<1>8. CASE EncodeRaises(p) \/ FfmpegEnds(p) \/ FfmpegRefuses(p)
  BY <1>8, OutcomeHeld
  DEF EncodeRaises, FfmpegEnds, FfmpegRefuses, ProbeOutput, Goto, Hold, Holding
<1>9. CASE ClaimJob(p) \/ LaunchFfmpeg(p) \/ CheckStop(p) \/ ManualClaim(p)
           \/ ProcessDirReview(p) \/ QueueFile(p) \/ PreviewDelete(p) \/ BulkSave(p)
  BY <1>1, <1>9 DEF ClaimJob, LaunchFfmpeg, CheckStop, ManualClaim, ProcessDirReview,
     QueueFile, PreviewDelete, BulkSave, Goto
<1>10. CASE SaveResult(p) \/ RerunValidation(p)
  BY <1>1, <1>10, OutcomeHeld DEF SaveResult, RerunValidation, Goto, Hold, Holding
<1>11. CASE ManualDecline(p)
  <2>1. [dto[p] EXCEPT !.status = "PENDING"].status = "PENDING"
    BY <1>11 DEF ManualDecline, Holding, Dto
  <2> QED BY <1>11, <2>1 DEF ManualDecline, Goto, Hold
<1>12. CASE BulkRecycle(p)
  <2>1. \A d \in Dto : [d EXCEPT !.status = "COMPLETE", !.notes = {"flow"}].status = "COMPLETE"
    BY DEF Dto
  <2> QED BY <1>12, <2>1 DEF BulkRecycle, Goto, Hold
<1>13. CASE PutJob(p) \/ ReviewShow(p)
  BY <1>1, <1>13 DEF PutJob, ReviewShow, Goto
<1>14. ASSUME NEW f \in Files, JobsResetJob(p, f) PROVE HeldOK(p)'
  BY <1>14 DEF JobsResetJob, Goto
<1>15. CASE PromptDecide(p)
  <2>1. dto[p] \in Dto
    BY <1>15 DEF PromptDecide, Holding
  <2>2. dto'[p].status \in {"COMPLETE", "DELETED", "PENDING"}
    BY <1>15, <2>1 DEF PromptDecide, Hold, AsNew, Dto
  <2>3. pc'[p] \in {"prompt", "put"}
    BY <1>15 DEF PromptDecide, Goto
  <2> QED BY <2>2, <2>3
<1>16. CASE ReviewPrepare(p)
  BY <1>16 DEF ReviewPrepare, HasResult
<1> QED
  BY <1>1, <1>2, <1>3, <1>4, <1>5, <1>6, <1>7, <1>8, <1>9, <1>10, <1>11, <1>12, <1>13,
     <1>14, <1>15, <1>16
  DEF Start, Step, EnableStop, DisableStop, ResetJob, ForceApprove, ConsumeStop,
      ManualQueue, QueueGivesUp, QueueDone, BulkDone, PromptDelete, ReviewEnds, Abort

LEMMA HeldNext == TypeOK /\ HeldInv /\ [Next]_vars => HeldInv'
<1> SUFFICES ASSUME TypeOK, HeldInv, [Next]_vars, NEW q \in Procs PROVE HeldOK(q)'
  BY DEF HeldInv
<1>1. CASE UNCHANGED vars
  BY <1>1 DEF vars, HeldInv, HeldOK, HasResult
<1>2. ASSUME NEW p \in Procs, Start(p) \/ Step(p) \/ Abort(p) PROVE HeldOK(q)'
  <2>1. CASE q = p
    BY <1>2, <2>1, HeldStep DEF HeldInv
  <2>2. CASE q # p
    BY <1>2, <2>2, OthersUnchanged DEF HeldInv, HeldOK, HasResult
  <2> QED BY <2>1, <2>2
<1> QED BY <1>1, <1>2 DEF Next

LEMMA HeldInit == Init => HeldInv
BY DEF Init, HeldInv, HeldOK

-----------------------------------------------------------------------------
(* What a step does to the store.                                          *)

\* A job object that some process may write, and how that process stands
\* when the object is a claim.
Writable(d) ==
    /\ d \in Dto
    /\ d.status = "REVIEW" =>
          \E p \in Procs : pc[p] \in {"save", "put"} /\ d = dto[p]

Claimed(d) ==
    d.status = "WORKING" =>
        \E p \in Procs : pc'[p] = "encode" /\ dto'[p] \in Dto /\ dto'[p].input = d.input

\* The store is left alone, or changed by the recovery of start-jobs, by a
\* forced status, or by one upsert.
StoreEffect ==
    \/ UNCHANGED storeVars
    \/ BulkUpdateStatus("WORKING", "PENDING")
    \/ \E f \in Files, s \in {"PENDING", "COMPLETE"} : ForceStatus(f, s)
    \/ \E d \in Dto : UpsertJob(d) /\ Writable(d) /\ Claimed(d)

LEMMA StoreStep ==
    ASSUME TypeOK, HeldInv, NEW p \in Procs, Start(p) \/ Step(p) \/ Abort(p)
    PROVE  StoreEffect
<1> USE DEF TypeOK, ProcTypeOK
<1>1. HeldOK(p) /\ (pc[p] \in Holding => dto[p] \in Dto)
  BY DEF HeldInv
<1>2. CASE UNCHANGED storeVars
  BY <1>2 DEF StoreEffect
<1>3. ASSUME NEW m \in {"loop", "once"}, StartJobs(p, m) PROVE StoreEffect
  BY <1>3 DEF StartJobs, StoreEffect
<1>4. ASSUME NEW f \in Files, ResetJob(p, f) \/ ForceApprove(p, f) PROVE StoreEffect
  BY <1>4 DEF ResetJob, ForceApprove, StoreEffect
<1>5. ASSUME NEW f \in Files, ManualJob(p, f) PROVE StoreEffect
  <2>1. NewDto(f, "IND_JOB") \in Dto /\ NewDto(f, "IND_JOB").status = "IND_JOB"
    BY NewType DEF NewDto, JobStatus
  <2> QED BY <1>5, <2>1 DEF ManualJob, StoreEffect, Writable, Claimed
<1>6. CASE ClaimJob(p)
  <2>1. dto[p] \in Dto /\ dto[p].status = "WORKING"
    BY <1>1, <1>6 DEF ClaimJob, HeldOK, Holding
  <2>2. pc'[p] = "encode" /\ dto'[p] = dto[p]
    BY <1>6 DEF ClaimJob, Goto
  <2> QED BY <1>6, <2>1, <2>2 DEF ClaimJob, StoreEffect, Writable, Claimed
<1>7. CASE SaveResult(p) \/ PutJob(p)
  <2>1. dto[p] \in Dto /\ dto[p].status # "WORKING" /\ UpsertJob(dto[p])
    BY <1>1, <1>7 DEF SaveResult, PutJob, HeldOK, Holding
  <2> QED BY <1>7, <2>1 DEF SaveResult, PutJob, StoreEffect, Writable, Claimed
<1>8. CASE ManualQueue(p)
  <2>1. [dto[p] EXCEPT !.status = "PENDING"] \in Dto
    BY <1>1, <1>8, StatusType DEF ManualQueue, Holding, JobStatus
  <2>2. [dto[p] EXCEPT !.status = "PENDING"].status = "PENDING"
    BY <1>1, <1>8 DEF ManualQueue, Holding, Dto
  <2> QED BY <1>8, <2>1, <2>2 DEF ManualQueue, StoreEffect, Writable, Claimed
<1>9. CASE ManualClaim(p)
  <2>1. [dto[p] EXCEPT !.status = "WORKING"] \in Dto
    BY <1>1, <1>9, StatusType DEF ManualClaim, Holding, JobStatus
  <2>2. pc'[p] = "encode" /\ dto'[p] = [dto[p] EXCEPT !.status = "WORKING"]
    BY <1>9 DEF ManualClaim, Goto, Hold
  <2>3. [dto[p] EXCEPT !.status = "WORKING"].status = "WORKING"
    BY <1>1, <1>9 DEF ManualClaim, Holding, Dto
  <2>4. UpsertJob(dto'[p])
    BY <1>9, <2>2 DEF ManualClaim
  <2> QED BY <2>1, <2>2, <2>3, <2>4 DEF StoreEffect, Writable, Claimed
<1>10. CASE QueueFile(p)
  <2>1. PICK f \in Files : UpsertJob(NewDto(f, "PENDING"))
    BY <1>10 DEF QueueFile, Largest
  <2>2. NewDto(f, "PENDING") \in Dto /\ NewDto(f, "PENDING").status = "PENDING"
    BY NewType DEF NewDto, JobStatus
  <2> QED BY <2>1, <2>2 DEF StoreEffect, Writable, Claimed
<1>11. CASE BulkSave(p)
  <2>1. dto[p] \in Dto /\ dto[p].status = "COMPLETE" /\ UpsertJob(dto[p])
    BY <1>1, <1>11 DEF BulkSave, HeldOK, Holding
  <2> QED BY <2>1 DEF StoreEffect, Writable, Claimed
<1>12. CASE Start(p)
  BY <1>2, <1>3, <1>4, <1>5, <1>12
  DEF Start, EnableStop, DisableStop, ProcessDir, BulkApprove, CancelJob, ValidateJob,
      ReviewJobs, JobsResetJob
<1>13. CASE Step(p)
  BY <1>2, <1>6, <1>7, <1>8, <1>9, <1>10, <1>11, <1>13
  DEF Step, FetchJob, EncodeRaises, LaunchFfmpeg, FfmpegEnds, FfmpegRefuses, CheckStop,
      ConsumeStop, ManualDecline, ProcessDirReview, QueueGivesUp, PreviewDelete,
      QueueDone, RerunValidation, BulkRecycle, BulkDone, ReviewPrepare, ReviewShow,
      PromptDelete, PromptDecide, ReviewEnds
<1> QED BY <1>2, <1>12, <1>13 DEF Abort

LEMMA StoreNext == TypeOK /\ HeldInv /\ [Next]_vars => StoreEffect
BY StoreStep DEF Next, vars, storeVars, StoreEffect

-----------------------------------------------------------------------------
(* Safety of the store.                                                    *)

LEMMA ReviewNext ==
    TypeOK /\ HeldInv /\ ReviewHasResult /\ [Next]_vars => ReviewHasResult'
<1> SUFFICES ASSUME TypeOK, HeldInv, ReviewHasResult, [Next]_vars PROVE ReviewHasResult'
  OBVIOUS
<1> USE DEF ReviewHasResult, WithStatus, TypeOK, StoreTypeOK, Row, HistoryRow
<1>1. CASE UNCHANGED storeVars
  BY <1>1 DEF storeVars
<1>2. CASE BulkUpdateStatus("WORKING", "PENDING")
  BY <1>2 DEF BulkUpdateStatus
<1>3. ASSUME NEW f \in Files, NEW s \in {"PENDING", "COMPLETE"}, ForceStatus(f, s)
      PROVE  ReviewHasResult'
  BY <1>3 DEF ForceStatus
<1>4. ASSUME NEW d \in Dto, UpsertJob(d), Writable(d) PROVE ReviewHasResult'
  <2>1. d.status = "REVIEW" => HasResult(d)
    BY <1>4 DEF Writable, HeldInv, HeldOK
  <2> QED BY <1>4, <2>1 DEF UpsertJob, HasResult, Dto
<1> QED BY <1>1, <1>2, <1>3, <1>4, StoreNext DEF StoreEffect

\* Whatever interleaving of commands, resets, cancellations and crashes: a
\* job that can be reviewed or approved has the outcome of an encode.
THEOREM ReviewSound == Spec => []ReviewHasResult
<1>1. Init => ReviewHasResult
  BY DEF Init, ReviewHasResult, WithStatus, NoRow
<1> QED BY <1>1, TypeCorrect, TypeInit, TypeNext, HeldInit, HeldNext, ReviewNext, PTL DEF Spec

LEMMA HistoryNext ==
    TypeOK /\ HeldInv /\ HistoryExplainsStatus /\ [Next]_vars => HistoryExplainsStatus'
<1> SUFFICES ASSUME TypeOK, HeldInv, HistoryExplainsStatus, [Next]_vars
             PROVE  HistoryExplainsStatus'
  OBVIOUS
<1> USE DEF HistoryExplainsStatus, TypeOK, StoreTypeOK, Row, HistoryRow
<1>1. CASE UNCHANGED storeVars
  BY <1>1 DEF storeVars
<1>2. CASE BulkUpdateStatus("WORKING", "PENDING")
  BY <1>2 DEF BulkUpdateStatus
<1>3. ASSUME NEW f \in Files, NEW s \in {"PENDING", "COMPLETE"}, ForceStatus(f, s)
      PROVE  HistoryExplainsStatus'
  BY <1>3 DEF ForceStatus, HasRow
<1>4. ASSUME NEW d \in Dto, UpsertJob(d) PROVE HistoryExplainsStatus'
  BY <1>4 DEF UpsertJob, Dto, JobStatus
<1> QED BY <1>1, <1>2, <1>3, <1>4, StoreNext DEF StoreEffect

\* The newest history row accounts for the status of every job, up to the
\* two updates that write no history.
THEOREM HistorySound == Spec => []HistoryExplainsStatus
<1>1. Init => HistoryExplainsStatus
  BY DEF Init, HistoryExplainsStatus, NoRow, NoHistory
<1> QED BY <1>1, TypeInit, TypeNext, HeldInit, HeldNext, HistoryNext, PTL DEF Spec

-----------------------------------------------------------------------------
(* Recycled inputs.                                                        *)

NoPreview == \A p \in Procs : "preview" \notin Commands[p]

\* Something has been written to the output path of f.
Written(f) == outs[OutName[f]] # "absent"

\* What p may store as a result, approve or ask about has been written.
Seen(p) ==
    /\ pc[p] \in {"save", "put"} /\ dto[p].status = "REVIEW" => Written(dto[p].input)
    /\ pc[p] = "prompt" => Written(dto[p].input)
    /\ \A d \in todo[p] : Written(d.input)

\* Whoever may lead to the recycling of an input has seen its output: rows in
\* REVIEW, results on the way there, the list of bulk-approve, and the jobs a
\* user is asked about.
OutputInv ==
    /\ \A f \in Files \ inputs : Written(f)
    /\ \A f \in WithStatus("REVIEW") : Written(f)
    /\ \A p \in Procs : Seen(p)

\* What has been written can be removed by a user, but is never forgotten.
LEMMA WrittenStays ==
    ASSUME TypeOK, [Next]_vars, NEW f \in Files, Written(f)
    PROVE  Written(f)'
<1> USE QueueAssumption DEF Written, TypeOK, ProcTypeOK, Content
<1>1. CASE UNCHANGED outs
  BY <1>1
<1>2. ASSUME NEW p \in Procs, LaunchFfmpeg(p) PROVE Written(f)'
  BY <1>2 DEF LaunchFfmpeg
<1>3. ASSUME NEW p \in Procs, FfmpegEnds(p) PROVE Written(f)'
  <2>1. dto[p].input # "absent"
    BY <1>3 DEF FfmpegEnds, Holding, Dto
  <2> QED BY <1>3, <2>1 DEF FfmpegEnds
<1>4. ASSUME NEW p \in Procs, Start(p) PROVE UNCHANGED outs
  BY <1>4 DEF Start, StartJobs, EnableStop, DisableStop, ProcessDir, BulkApprove,
     ResetJob, ForceApprove, ManualJob, CancelJob, ValidateJob, ReviewJobs, JobsResetJob,
     fileVars
<1>5. ASSUME NEW p \in Procs, Step(p), ~ LaunchFfmpeg(p), ~ FfmpegEnds(p),
             ~ FfmpegRefuses(p), ~ PromptDelete(p), ~ PromptDecide(p)
      PROVE  UNCHANGED outs
  BY <1>5 DEF Step, FetchJob, ClaimJob, EncodeRaises, SaveResult, CheckStop, ConsumeStop,
     ManualQueue, ManualClaim, ManualDecline, ProcessDirReview, QueueFile, QueueGivesUp,
     PreviewDelete, QueueDone, RerunValidation, PutJob, BulkRecycle, BulkSave, BulkDone,
     ReviewPrepare, ReviewShow, ReviewEnds, fileVars
<1>6. ASSUME NEW p \in Procs, FfmpegRefuses(p) PROVE Written(f)'
  BY <1>6 DEF FfmpegRefuses
<1>7. ASSUME NEW p \in Procs, PromptDelete(p) \/ PromptDecide(p) PROVE Written(f)'
  BY <1>7 DEF PromptDelete, PromptDecide, Removed, fileVars
<1> QED BY <1>1, <1>2, <1>3, <1>4, <1>5, <1>6, <1>7 DEF Next, Abort, vars, fileVars

\* A process that steps has seen the output of what it holds.
LEMMA HeldWritten ==
    ASSUME TypeOK, OutputInv, NEW p \in Procs, Start(p) \/ Step(p) \/ Abort(p)
    PROVE  Seen(p)'
<1> USE DEF TypeOK, ProcTypeOK, Seen
<1>1. [Next]_vars
  BY DEF Next
<1>2. \A d \in todo[p] : Written(d.input)'
  <2>1. \A d \in todo[p] : d.input \in Files /\ Written(d.input)
    BY DEF OutputInv, Dto
  <2> QED BY <1>1, <2>1, WrittenStays
<1>3. CASE Finish(p)
  BY <1>3 DEF Finish, Goto
<1>4. ASSUME pc'[p] \notin {"save", "put", "prompt"}, todo'[p] \subseteq todo[p]
      PROVE  Seen(p)'
  BY <1>2, <1>4
<1>5. CASE BulkApprove(p)
  <2>1. \A d \in todo'[p] : d.input \in Files /\ Written(d.input)
    BY <1>5 DEF BulkApprove, OutputInv, JobDto, RowDto, WithStatus
  <2>2. pc'[p] = "bulk"
    BY <1>5 DEF BulkApprove, Goto
  <2> QED BY <1>1, <2>1, <2>2, WrittenStays
<1>6. ASSUME NEW f \in Files, CancelJob(p, f) PROVE Seen(p)'
  <2>1. dto'[p].status = "CANCELLED" /\ todo'[p] = todo[p]
    BY <1>6 DEF CancelJob, Hold, JobDto, RowDto
  <2> QED BY <1>2, <1>6, <2>1 DEF CancelJob, Goto
<1>7. CASE EncodeRaises(p)
  <2>1. dto'[p].status = "ERROR" /\ todo'[p] = todo[p]
    BY <1>7, OutcomeHeld DEF EncodeRaises, Hold, Holding
  <2> QED BY <1>2, <1>7, <2>1 DEF EncodeRaises, Goto
<1>8. CASE FfmpegEnds(p)
  <2>1. PICK c \in Content :
            /\ outs' = [outs EXCEPT ![OutName[dto[p].input]] = c]
            /\ ProbeOutput(p, dto[p], c)
    BY <1>8 DEF FfmpegEnds
  <2>2. /\ dto[p] \in Dto /\ dto[p].input \in Files /\ todo'[p] = todo[p]
        /\ pc'[p] = "save"
    BY <1>8 DEF FfmpegEnds, ProbeOutput, Goto, Holding, Dto
  <2>3. ASSUME NEW t \in {"small", "large"}, dto'[p] = Encoded(dto[p], t), Readable(c)
        PROVE  Seen(p)'
    <3>1. dto'[p].input = dto[p].input
      BY <2>2, <2>3, OutcomeType
    <3>2. outs'[OutName[dto[p].input]] = c /\ c # "absent"
      BY <2>1, <2>2, <2>3, QueueAssumption DEF Readable, Exists
    <3> QED BY <1>2, <2>2, <3>1, <3>2 DEF Written
  <2>4. CASE dto'[p] = Failed(dto[p])
    BY <1>2, <2>2, <2>4, OutcomeHeld
  <2> QED BY <2>1, <2>3, <2>4 DEF ProbeOutput, Hold
<1>9. CASE FfmpegRefuses(p)
  <2> DEFINE c == outs[OutName[dto[p].input]]
  <2>1. /\ dto[p] \in Dto /\ dto[p].input \in Files /\ todo'[p] = todo[p]
        /\ pc'[p] = "save" /\ ProbeOutput(p, dto[p], c)
    BY <1>9 DEF FfmpegRefuses, ProbeOutput, Goto, Holding, Dto
  <2>2. ASSUME NEW t \in {"small", "large"}, dto'[p] = Encoded(dto[p], t), Readable(c)
        PROVE  Seen(p)'
    <3>1. dto'[p].input = dto[p].input /\ Written(dto[p].input)
      BY <2>1, <2>2, OutcomeType DEF Readable, Exists, Written
    <3> QED BY <1>1, <1>2, <2>1, <3>1, WrittenStays
  <2>3. CASE dto'[p] = Failed(dto[p])
    BY <1>2, <2>1, <2>3, OutcomeHeld
  <2> QED BY <2>1, <2>2, <2>3 DEF ProbeOutput, Hold
<1>10. CASE ManualDecline(p)
  <2>1. dto'[p].status = "PENDING" /\ todo'[p] = todo[p]
    BY <1>10 DEF ManualDecline, Hold, Holding, Dto
  <2> QED BY <1>2, <1>10, <2>1 DEF ManualDecline, Goto
<1>11. CASE RerunValidation(p)
  <2>1. ASSUME NEW t \in {"small", "large"}, Hold(p, Encoded(dto[p], t)), Goto(p, "put"),
               Readable(outs[OutName[dto[p].input]]), UNCHANGED todo
        PROVE  Seen(p)'
    <3>1. dto[p] \in Dto /\ dto[p].input \in Files
      BY <1>11 DEF RerunValidation, Holding, Dto
    <3>2. /\ dto'[p].input = dto[p].input /\ pc'[p] = "put" /\ todo'[p] = todo[p]
          /\ Written(dto[p].input)
      BY <2>1, <3>1, OutcomeType DEF Hold, Goto, Readable, Exists, Written
    <3> QED BY <1>1, <1>2, <3>1, <3>2, WrittenStays
  <2> QED BY <1>3, <1>11, <2>1 DEF RerunValidation
<1>12. CASE BulkRecycle(p)
  <2>1. todo'[p] \subseteq todo[p] /\ pc'[p] = "bulkSave"
    BY <1>12 DEF BulkRecycle, Goto
  <2> QED BY <1>4, <2>1
<1>13. CASE UNCHANGED procVars
  <2>1. pc[p] \in {"save", "put", "prompt"} => dto[p].input \in Files
    BY DEF Holding, Dto
  <2> QED BY <1>1, <1>2, <1>13, <2>1, WrittenStays DEF procVars, OutputInv
<1>14. ASSUME NEW f \in Files, JobsResetJob(p, f) PROVE Seen(p)'
  <2>1. dto'[p].input = f /\ pc'[p] = "prompt" /\ todo'[p] = todo[p]
    BY <1>14 DEF JobsResetJob, Hold, Goto, JobDto, RowDto
  <2>2. Written(f)
    BY <1>14 DEF JobsResetJob, Readable, Exists, Written
  <2> QED BY <1>1, <1>2, <2>1, <2>2, WrittenStays
<1>15. CASE ReviewPrepare(p)
  <2>1. PICK f \in WithStatus("REVIEW") : todo' = [todo EXCEPT ![p] = @ \cup {NextDto(f)}]
    BY <1>15 DEF ReviewPrepare
  <2>2. f \in Files /\ NextDto(f).input = f /\ Written(f)
    BY DEF OutputInv, WithStatus, NextDto, RowDto
  <2>3. \A d \in todo'[p] : Written(d.input)'
    BY <1>1, <1>2, <2>1, <2>2, WrittenStays
  <2>4. pc[p] \in {"save", "put", "prompt"} => dto[p].input \in Files
    BY DEF Holding, Dto
  <2> QED BY <1>1, <1>15, <2>3, <2>4, WrittenStays DEF ReviewPrepare, OutputInv
<1>16. CASE ReviewShow(p)
  <2>1. ASSUME NEW d \in todo[p], Hold(p, d), Goto(p, "prompt"),
               todo' = [todo EXCEPT ![p] = @ \ {d}]
        PROVE  Seen(p)'
    BY <1>2, <2>1 DEF Hold, Goto
  <2> QED BY <1>3, <1>16, <2>1 DEF ReviewShow
<1>17. CASE PromptDecide(p)
  <2>1. dto[p] \in Dto /\ dto[p].input \in Files /\ Written(dto[p].input)
    BY <1>17 DEF PromptDecide, Holding, Dto, OutputInv
  <2>2. dto'[p].input = dto[p].input /\ todo' = todo
    BY <1>17, DecidedDto
  <2> QED BY <1>1, <1>2, <2>1, <2>2, WrittenStays
<1>18. CASE PutJob(p)
  BY <1>3, <1>4, <1>18 DEF PutJob, Goto
<1>19. CASE Start(p)
  BY <1>4, <1>5, <1>6, <1>13, <1>14, <1>19
  DEF Start, StartJobs, EnableStop, DisableStop, ProcessDir, ResetJob, ForceApprove,
      ManualJob, ValidateJob, ReviewJobs, Goto
<1>20. CASE Step(p)
  BY <1>3, <1>4, <1>7, <1>8, <1>9, <1>10, <1>11, <1>12, <1>13, <1>15, <1>16, <1>17, <1>18,
     <1>20
  DEF Step, FetchJob, ClaimJob, LaunchFfmpeg, SaveResult, CheckStop, ConsumeStop,
      ManualQueue, ManualClaim, ProcessDirReview, QueueFile, QueueGivesUp,
      PreviewDelete, QueueDone, BulkSave, BulkDone, PromptDelete, ReviewEnds, Goto
<1> QED BY <1>3, <1>19, <1>20 DEF Abort

\* An input goes only when its output has been written.
LEMMA RecycleStep ==
    ASSUME TypeOK, NoPreview, OutputInv, [Next]_vars, NEW f \in Files,
           f \in inputs, f \notin inputs'
    PROVE  Written(f)
<1>1. PICK p \in Procs : Step(p) /\ inputs' # inputs
  <2>1. ASSUME NEW p \in Procs, Start(p) \/ Abort(p) PROVE inputs' = inputs
    BY <2>1 DEF Abort, Start, StartJobs, EnableStop, DisableStop, ProcessDir, BulkApprove,
       ResetJob, ForceApprove, ManualJob, CancelJob, ValidateJob, ReviewJobs, JobsResetJob,
       fileVars
  <2> QED BY <2>1 DEF Next, vars
<1>2. BulkRecycle(p) \/ PromptDelete(p) \/ PromptDecide(p)
  BY <1>1 DEF NoPreview, Step, FetchJob, ClaimJob, EncodeRaises, LaunchFfmpeg,
     FfmpegEnds, FfmpegRefuses, SaveResult, CheckStop, ConsumeStop, ManualQueue,
     ManualClaim, ManualDecline, ProcessDirReview, QueueFile, QueueGivesUp, PreviewDelete,
     QueueDone, RerunValidation, PutJob, BulkSave, BulkDone, ReviewPrepare, ReviewShow,
     ReviewEnds, fileVars
<1>3. CASE BulkRecycle(p)
  <2>1. PICK d \in todo[p] : inputs' \in {inputs, inputs \ {d.input}}
    BY <1>3 DEF BulkRecycle
  <2>2. d.input = f
    BY <2>1
  <2> QED BY <2>2 DEF OutputInv, Seen
<1>4. CASE PromptDelete(p) \/ PromptDecide(p)
  <2>1. pc[p] = "prompt" /\ f = dto[p].input
    BY <1>4 DEF PromptDelete, PromptDecide, fileVars
  <2> QED BY <2>1 DEF OutputInv, Seen
<1> QED BY <1>2, <1>3, <1>4

LEMMA OutputNext ==
    TypeOK /\ HeldInv /\ NoPreview /\ OutputInv /\ [Next]_vars => OutputInv'
<1> SUFFICES ASSUME TypeOK, HeldInv, NoPreview, OutputInv, [Next]_vars
             PROVE  OutputInv'
  OBVIOUS
<1>1. ASSUME NEW f \in Files, f \notin inputs' PROVE Written(f)'
  <2>1. Written(f)
    BY <1>1, RecycleStep DEF OutputInv
  <2> QED BY <2>1, WrittenStays
<1>2. ASSUME NEW f \in Files, jobs'[f].status = "REVIEW" PROVE Written(f)'
  <2> USE DEF TypeOK, StoreTypeOK, Row
  <2>1. CASE jobs[f].status = "REVIEW"
    BY <2>1, WrittenStays DEF OutputInv, WithStatus
  <2>2. CASE jobs[f].status # "REVIEW"
    <3>1. ~ UNCHANGED storeVars
      BY <1>2, <2>2 DEF storeVars
    <3>2. ~ BulkUpdateStatus("WORKING", "PENDING")
      BY <1>2, <2>2 DEF BulkUpdateStatus
    <3>3. \A g \in Files, s \in {"PENDING", "COMPLETE"} : ~ ForceStatus(g, s)
      BY <1>2, <2>2 DEF ForceStatus
    <3>4. PICK d \in Dto : UpsertJob(d) /\ Writable(d)
      BY <3>1, <3>2, <3>3, StoreNext DEF StoreEffect
    <3>5. d.input = f /\ d.status = "REVIEW"
      BY <1>2, <2>2, <3>4 DEF UpsertJob, Dto
    <3> QED BY <3>4, <3>5, WrittenStays DEF Writable, OutputInv, Seen
  <2> QED BY <2>1, <2>2
<1>3. ASSUME NEW q \in Procs PROVE Seen(q)'
  <2>1. ASSUME UNCHANGED <<pc, dto, todo>>, UNCHANGED outs PROVE Seen(q)'
    BY <2>1 DEF OutputInv, Seen, Written
  <2>2. ASSUME NEW p \in Procs, Start(p) \/ Step(p) \/ Abort(p) PROVE Seen(q)'
    <3>1. CASE q = p
      BY <2>2, <3>1, HeldWritten
    <3>2. CASE q # p
      <4>1. pc'[q] = pc[q] /\ dto'[q] = dto[q] /\ todo'[q] = todo[q]
        BY <2>2, <3>2, OthersUnchanged
      <4>2. /\ \A d \in todo[q] : d.input \in Files
            /\ pc[q] \in {"save", "put", "prompt"} => dto[q].input \in Files
        BY DEF TypeOK, ProcTypeOK, Dto, Holding
      <4> QED BY <4>1, <4>2, WrittenStays DEF OutputInv, Seen
    <3> QED BY <3>1, <3>2
  <2> QED BY <2>1, <2>2 DEF Next, vars
<1> QED BY <1>1, <1>2, <1>3 DEF OutputInv, WithStatus

\* Outside preview mode no input is recycled before something has been
\* written to its output path, however stale the list of bulk-approve or the
\* jobs of a review are; what was written is there still, or was removed by
\* the user of a review.
THEOREM RecycledSound == Spec => []RecycledHasOutput
<1>1. NoPreview /\ Init => OutputInv
  BY DEF Init, OutputInv, Seen, WithStatus, NoRow
<1>2. OutputInv => RecycledHasOutput
  BY DEF OutputInv, RecycledHasOutput, Written
<1>3. ~ NoPreview => RecycledHasOutput
  BY DEF NoPreview, RecycledHasOutput
<1>4. CASE NoPreview
  <2>1. Init => OutputInv
    BY <1>1, <1>4
  <2>2. TypeOK /\ HeldInv /\ OutputInv /\ [Next]_vars => OutputInv'
    BY <1>4, OutputNext
  <2> QED BY <1>2, <2>1, <2>2, TypeInit, TypeNext, HeldInit, HeldNext, PTL DEF Spec
<1>5. CASE ~ NoPreview
  <2>1. RecycledHasOutput
    BY <1>3, <1>5
  <2> QED BY <2>1, PTL
<1> QED BY <1>4, <1>5

-----------------------------------------------------------------------------
(* Owners of WORKING rows.                                                 *)

Owns(p, f) == pc[p] \in {"encode", "ffmpeg", "save"} /\ dto[p].input = f

\* A process that is between claim and save stays there, or writes the row.
LEMMA OwnerStep ==
    ASSUME TypeOK, HeldInv, NEW p \in Procs, Start(p) \/ Step(p) \/ Abort(p), ~ MayAbort,
           NEW f \in Files, Owns(p, f)
    PROVE  Owns(p, f)' \/ jobs'[f].status # "WORKING"
<1> USE DEF TypeOK, ProcTypeOK, Owns
<1>1. dto[p] \in Dto
  BY DEF Holding
<1>2. Step(p)
  BY DEF Abort, Start, StartJobs, EnableStop, DisableStop, ProcessDir, BulkApprove,
     ResetJob, ForceApprove, ManualJob, CancelJob, ValidateJob, ReviewJobs, JobsResetJob,
     MayRun, procVars
<1>3. CASE EncodeRaises(p) \/ FfmpegEnds(p) \/ FfmpegRefuses(p)
  BY <1>1, <1>3, OutcomeType DEF EncodeRaises, FfmpegEnds, FfmpegRefuses, ProbeOutput,
     Goto, Hold
<1>4. CASE LaunchFfmpeg(p)
  BY <1>4 DEF LaunchFfmpeg, Goto
<1>5. CASE ManualDecline(p)
  BY <1>1, <1>5, StatusType DEF ManualDecline, Goto, Hold, JobStatus
<1>6. CASE SaveResult(p)
  <2>1. dto[p].status # "WORKING"
    BY <1>6 DEF SaveResult, HeldInv, HeldOK
  <2> QED BY <1>1, <1>6, <2>1 DEF SaveResult, UpsertJob, StoreTypeOK, Dto
<1>7. CASE ReviewPrepare(p)
  BY <1>7 DEF ReviewPrepare
<1> QED
  BY <1>2, <1>3, <1>4, <1>5, <1>6, <1>7
  DEF Step, FetchJob, ClaimJob, CheckStop, ConsumeStop, ManualQueue, ManualClaim,
      ProcessDirReview, QueueFile, QueueGivesUp, PreviewDelete, QueueDone,
      RerunValidation, PutJob, BulkRecycle, BulkSave, BulkDone, ReviewShow, PromptDelete,
      PromptDecide, ReviewEnds

LEMMA OwnerNext ==
    TypeOK /\ HeldInv /\ WorkingHasOwner /\ [Next]_vars => WorkingHasOwner'
<1> SUFFICES ASSUME TypeOK, HeldInv, WorkingHasOwner, [Next]_vars, ~ MayAbort,
                    NEW f \in Files, jobs'[f].status = "WORKING"
             PROVE  \E q \in Procs : Owns(q, f)'
  BY DEF WorkingHasOwner, WithStatus, Owns
<1> USE DEF TypeOK, StoreTypeOK, Row
<1>1. CASE jobs[f].status = "WORKING"
  <2>1. PICK q \in Procs : Owns(q, f)
    BY <1>1 DEF WorkingHasOwner, WithStatus, Owns
  <2>2. CASE UNCHANGED vars
    BY <2>1, <2>2 DEF vars, Owns
  <2>3. ASSUME NEW p \in Procs, Start(p) \/ Step(p) \/ Abort(p) PROVE Owns(q, f)'
    <3>1. CASE q = p
      BY <2>1, <2>3, <3>1, OwnerStep
    <3>2. CASE q # p
      BY <2>1, <2>3, <3>2, OthersUnchanged DEF Owns
    <3> QED BY <3>1, <3>2
  <2> QED BY <2>1, <2>2, <2>3 DEF Next
<1>2. CASE jobs[f].status # "WORKING"
  <2>1. ~ UNCHANGED storeVars
    BY <1>2 DEF storeVars
  <2>2. ~ BulkUpdateStatus("WORKING", "PENDING")
    BY <1>2 DEF BulkUpdateStatus
  <2>3. \A g \in Files, s \in {"PENDING", "COMPLETE"} : ~ ForceStatus(g, s)
    BY <1>2 DEF ForceStatus
  <2>4. PICK d \in Dto : UpsertJob(d) /\ Claimed(d)
    BY <2>1, <2>2, <2>3, StoreNext DEF StoreEffect
  <2>5. d.input = f /\ d.status = "WORKING"
    BY <1>2, <2>4 DEF UpsertJob, Dto
  <2> QED BY <2>4, <2>5 DEF Claimed, Owns
<1> QED BY <1>1, <1>2

\* As long as no process dies, every WORKING row is being worked on.
THEOREM OwnerSound == Spec => []WorkingHasOwner
<1>1. Init => WorkingHasOwner
  BY DEF Init, WorkingHasOwner, WithStatus, NoRow
<1> QED BY <1>1, TypeInit, TypeNext, HeldInit, HeldNext, OwnerNext, PTL DEF Spec

-----------------------------------------------------------------------------
(* The life of a job.                                                      *)

\* One command at a time, whichever it is and however it ends; the others
\* may at most set and remove the STOP file.
OneAtATime(w) == \A q \in Procs \ {w} : Commands[q] \subseteq {"enable-stop", "disable-stop"}

StatusOf == [f \in Files |-> jobs[f].status]

\* What a process holds fits the row it is about.
RowFits(p) ==
    LET row == jobs[dto[p].input].status IN
    /\ pc[p] = "claim" => row = "PENDING"
    /\ pc[p] \in {"encode", "ffmpeg", "save"} => row = "WORKING"
    /\ pc[p] = "save" => dto[p].status \in {"REVIEW", "ERROR", "PENDING"}
    /\ pc[p] = "manual" => row = "IND_JOB"
    /\ pc[p] = "rerun" => row \in {"REVIEW", "ERROR"}
    /\ pc[p] = "put" =>
          \/ row # "NONE" /\ dto[p].status \in {"CANCELLED", "COMPLETE", "DELETED", "PENDING"}
          \/ dto[p].status = "REVIEW" /\ row \in {"REVIEW", "ERROR"}
    /\ pc[p] = "prompt" => row # "NONE"
    /\ pc[p] = "bulkSave" => row # "NONE"
    /\ \A d \in todo[p] : HasRow(d.input)

LifeInv(w) ==
    /\ RowFits(w)
    /\ \A q \in Procs \ {w} : pc[q] = "idle" /\ mode[q] # "review"

\* A job gets the status of the object that is written.
LEMMA UpsertStatus ==
    ASSUME StoreTypeOK, NEW d \in Dto, UpsertJob(d)
    PROVE  /\ d.input \in Files
           /\ StatusOf' = [StatusOf EXCEPT ![d.input] = d.status]
           /\ jobs'[d.input].status = d.status
           /\ \A f \in Files : HasRow(f) => HasRow(f)'
<1>1. d.input \in Files /\ d.status # "NONE"
  BY DEF Dto, JobStatus
<1>2. \A f \in Files : jobs'[f].status = IF f = d.input THEN d.status ELSE jobs[f].status
  BY <1>1 DEF UpsertJob, StoreTypeOK, Row
<1>3. StatusOf' = [StatusOf EXCEPT ![d.input] = d.status]
  BY <1>1, <1>2 DEF StatusOf
<1> QED BY <1>1, <1>2, <1>3 DEF HasRow

LEMMA ForcedStatus ==
    ASSUME StoreTypeOK, NEW f \in Files, NEW s, ForceStatus(f, s)
    PROVE  StatusOf' = [StatusOf EXCEPT ![f] = s]
<1>1. \A g \in Files : jobs'[g].status = IF g = f THEN s ELSE jobs[g].status
  BY DEF ForceStatus, StoreTypeOK, Row
<1> QED BY <1>1 DEF StatusOf

\* One step of the life of the job f.
LifeOf(f) == \/ Lifecycle!Submit(f) \/ Lifecycle!Claim(f) \/ Lifecycle!Result(f)
             \/ Lifecycle!Validate(f) \/ Lifecycle!Close(f)

LifeEffect == \/ UNCHANGED StatusOf \/ Lifecycle!Recover
              \/ \E f \in Files : LifeOf(f)

\* The step of the lifecycle that a step of a command is.
LEMMA LifeStep ==
    ASSUME TypeOK, HeldInv, NEW p \in Procs, RowFits(p), Start(p) \/ Step(p) \/ Abort(p)
    PROVE  LifeEffect
<1> USE DEF TypeOK, ProcTypeOK
<1>1. CASE UNCHANGED storeVars
  BY <1>1 DEF storeVars, StatusOf, LifeEffect
<1>3. \A s : \A f \in Files : StatusOf' = [StatusOf EXCEPT ![f] = s] => Lifecycle!Becomes(f, s)
  BY DEF StatusOf, Lifecycle!Becomes
<1>4. \A f \in Files : StatusOf[f] = jobs[f].status
  BY DEF StatusOf
<1>5. dto[p] \in Dto \/ pc[p] \notin Holding
  BY DEF ProcTypeOK
<1>6. ASSUME NEW d \in Dto, UpsertJob(d)
     PROVE  Lifecycle!Becomes(d.input, d.status) /\ d.input \in Files
  BY <1>3, <1>6, UpsertStatus
<1>7. ASSUME NEW m \in {"loop", "once"}, StartJobs(p, m) PROVE LifeEffect
  BY <1>7
  DEF StartJobs, BulkUpdateStatus, StatusOf, Lifecycle!Recover, LifeEffect, StoreTypeOK, Row
<1>8. ASSUME NEW f \in Files, ResetJob(p, f) PROVE LifeEffect
  BY <1>3, <1>8, ForcedStatus DEF ResetJob, Lifecycle!Submit, LifeOf, LifeEffect
<1>9. ASSUME NEW f \in Files, ForceApprove(p, f) PROVE LifeEffect
  BY <1>3, <1>4, <1>9, ForcedStatus
  DEF ForceApprove, ForceStatus, HasRow, Lifecycle!Close, LifeOf, LifeEffect
<1>10. ASSUME NEW f \in Files, ManualJob(p, f) PROVE LifeEffect
  <2>1. NewDto(f, "IND_JOB") \in Dto /\ NewDto(f, "IND_JOB").status = "IND_JOB"
        /\ NewDto(f, "IND_JOB").input = f
    BY NewType DEF NewDto, JobStatus
  <2> QED BY <1>6, <1>10, <2>1 DEF ManualJob, Lifecycle!Submit, LifeOf, LifeEffect
<1>11. CASE ClaimJob(p)
  <2>1. dto[p] \in Dto /\ dto[p].status = "WORKING" /\ jobs[dto[p].input].status = "PENDING"
    BY <1>5, <1>11 DEF ClaimJob, HeldInv, HeldOK, RowFits, Holding
  <2> QED BY <1>4, <1>6, <1>11, <2>1 DEF ClaimJob, Lifecycle!Claim, LifeOf, LifeEffect
<1>12. CASE SaveResult(p)
  <2>1. /\ dto[p] \in Dto /\ jobs[dto[p].input].status = "WORKING"
        /\ dto[p].status \in {"REVIEW", "ERROR", "PENDING"}
    BY <1>5, <1>12 DEF SaveResult, RowFits, Holding
  <2> QED BY <1>4, <1>6, <1>12, <2>1
        DEF SaveResult, Lifecycle!Result, Lifecycle!Submit, LifeOf, LifeEffect
<1>13. CASE ManualQueue(p)
  <2>1. dto[p] \in Dto
    BY <1>5, <1>13 DEF ManualQueue, Holding
  <2>2. [dto[p] EXCEPT !.status = "PENDING"] \in Dto
    BY <2>1, StatusType DEF JobStatus
  <2>3. [dto[p] EXCEPT !.status = "PENDING"].status = "PENDING"
    BY <2>1 DEF Dto
  <2> QED BY <1>6, <1>13, <2>2, <2>3 DEF ManualQueue, Lifecycle!Submit, LifeOf, LifeEffect
<1>14. CASE ManualClaim(p)
  <2>1. dto[p] \in Dto /\ jobs[dto[p].input].status = "IND_JOB"
    BY <1>5, <1>14 DEF ManualClaim, RowFits, Holding
  <2>2. [dto[p] EXCEPT !.status = "WORKING"] \in Dto
        /\ [dto[p] EXCEPT !.status = "WORKING"].input = dto[p].input
    BY <2>1, StatusType DEF JobStatus
  <2>3. [dto[p] EXCEPT !.status = "WORKING"].status = "WORKING"
    BY <2>1 DEF Dto
  <2> QED BY <1>4, <1>6, <1>14, <2>1, <2>2, <2>3
        DEF ManualClaim, Lifecycle!Claim, LifeOf, LifeEffect
<1>15. CASE QueueFile(p)
  <2>1. PICK f \in Files : UpsertJob(NewDto(f, "PENDING"))
    BY <1>15 DEF QueueFile, Largest
  <2>2. NewDto(f, "PENDING") \in Dto /\ NewDto(f, "PENDING").status = "PENDING"
        /\ NewDto(f, "PENDING").input = f
    BY NewType DEF NewDto, JobStatus
  <2> QED BY <1>6, <2>1, <2>2 DEF Lifecycle!Submit, LifeOf, LifeEffect
<1>16. CASE PutJob(p)
  <2>1. dto[p] \in Dto
    BY <1>5, <1>16 DEF PutJob, Holding
  <2>2. \/ /\ jobs[dto[p].input].status # "NONE"
           /\ dto[p].status \in {"CANCELLED", "COMPLETE", "DELETED", "PENDING"}
        \/ dto[p].status = "REVIEW" /\ jobs[dto[p].input].status \in {"REVIEW", "ERROR"}
    BY <1>16 DEF PutJob, RowFits
  <2> QED BY <1>4, <1>6, <1>16, <2>1, <2>2
        DEF PutJob, Lifecycle!Close, Lifecycle!Submit, Lifecycle!Validate, LifeOf, LifeEffect
<1>17. CASE BulkSave(p)
  <2>1. dto[p] \in Dto /\ dto[p].status = "COMPLETE" /\ jobs[dto[p].input].status # "NONE"
    BY <1>5, <1>17 DEF BulkSave, HeldInv, HeldOK, RowFits, Holding
  <2> QED BY <1>4, <1>6, <1>17, <2>1 DEF BulkSave, Lifecycle!Close, LifeOf, LifeEffect
<1>18. CASE Start(p)
  BY <1>1, <1>7, <1>8, <1>9, <1>10, <1>18
  DEF Start, EnableStop, DisableStop, ProcessDir, BulkApprove, CancelJob, ValidateJob,
      ReviewJobs, JobsResetJob
<1>19. CASE Step(p)
  <2>1. \/ UNCHANGED storeVars \/ ClaimJob(p) \/ SaveResult(p) \/ ManualQueue(p)
        \/ ManualClaim(p) \/ QueueFile(p) \/ PutJob(p) \/ BulkSave(p)
    BY <1>19
    DEF Step, FetchJob, EncodeRaises, LaunchFfmpeg, FfmpegEnds, FfmpegRefuses, CheckStop,
        ConsumeStop, ManualDecline, ProcessDirReview, QueueGivesUp, PreviewDelete,
        QueueDone, RerunValidation, BulkRecycle, BulkDone, ReviewPrepare, ReviewShow,
        PromptDelete, PromptDecide, ReviewEnds
  <2> QED BY <1>1, <1>11, <1>12, <1>13, <1>14, <1>15, <1>16, <1>17, <2>1
<1> QED BY <1>1, <1>18, <1>19 DEF Abort

\* A row never disappears.
LEMMA RowsStay ==
    ASSUME TypeOK, HeldInv, NEW p \in Procs, Start(p) \/ Step(p) \/ Abort(p),
           NEW f \in Files, HasRow(f)
    PROVE  HasRow(f)'
<1> USE DEF TypeOK, StoreTypeOK, Row, HasRow
<1>1. CASE UNCHANGED storeVars
  BY <1>1 DEF storeVars
<1>2. CASE BulkUpdateStatus("WORKING", "PENDING")
  BY <1>2 DEF BulkUpdateStatus
<1>3. ASSUME NEW g \in Files, NEW s \in {"PENDING", "COMPLETE"}, ForceStatus(g, s)
      PROVE  HasRow(f)'
  BY <1>3 DEF ForceStatus
<1>4. ASSUME NEW d \in Dto, UpsertJob(d) PROVE HasRow(f)'
  BY <1>4 DEF UpsertJob, Dto, JobStatus
<1> QED BY <1>1, <1>2, <1>3, <1>4, StoreStep DEF StoreEffect

\* A step leaves its process with an object that fits the row.
LEMMA FitsStep ==
    ASSUME TypeOK, HeldInv, NEW p \in Procs, RowFits(p), Start(p) \/ Step(p) \/ Abort(p)
    PROVE  RowFits(p)'
<1> USE DEF TypeOK, ProcTypeOK
<1> DEFINE Quiet == {"idle", "fetch", "check", "disable", "bulk", "dirReview", "dir", "review"}
<1>1. dto[p] \in Dto \/ pc[p] \notin Holding
  OBVIOUS
<1>2. \A d \in todo[p] : HasRow(d.input)'
  <2>1. \A d \in todo[p] : d.input \in Files /\ HasRow(d.input)
    BY DEF RowFits, Dto
  <2> QED BY <2>1, RowsStay
<1>3. ASSUME pc'[p] \in Quiet, todo'[p] \subseteq todo[p] PROVE RowFits(p)'
  BY <1>2, <1>3 DEF RowFits
<1>4. CASE Finish(p)
  BY <1>3, <1>4 DEF Finish, Goto
<1>5. ASSUME NEW f \in Files, ManualJob(p, f) PROVE RowFits(p)'
  <2>1. NewDto(f, "IND_JOB") \in Dto /\ NewDto(f, "IND_JOB").status = "IND_JOB"
        /\ NewDto(f, "IND_JOB").input = f
    BY NewType DEF NewDto, JobStatus
  <2>2. jobs'[f].status = "IND_JOB"
    BY <1>5, <2>1, UpsertStatus DEF ManualJob
  <2>3. pc'[p] = "manual" /\ dto'[p].input = f /\ todo'[p] = todo[p]
    BY <1>5, <2>1 DEF ManualJob, Goto, Hold
  <2> QED BY <1>2, <2>2, <2>3 DEF RowFits
<1>6. ASSUME NEW f \in Files, CancelJob(p, f) PROVE RowFits(p)'
  <2>1. pc'[p] = "put" /\ todo'[p] = todo[p] /\ jobs'[f].status # "NONE"
    BY <1>6 DEF CancelJob, Goto, HasRow, storeVars
  <2>2. dto'[p].input = f /\ dto'[p].status = "CANCELLED"
    BY <1>6 DEF CancelJob, Hold, JobDto, RowDto
  <2> QED BY <1>2, <2>1, <2>2 DEF RowFits
<1>7. ASSUME NEW f \in Files, ValidateJob(p, f) PROVE RowFits(p)'
  <2>1. pc'[p] = "rerun" /\ todo'[p] = todo[p] /\ jobs'[f].status \in {"REVIEW", "ERROR"}
    BY <1>7 DEF ValidateJob, Goto, storeVars
  <2>2. dto'[p].input = f
    BY <1>7 DEF ValidateJob, Hold, JobDto, RowDto
  <2> QED BY <1>2, <2>1, <2>2 DEF RowFits
<1>8. CASE BulkApprove(p)
  <2>1. pc'[p] = "bulk" /\ storeVars' = storeVars
    BY <1>8 DEF BulkApprove, Goto
  <2>2. \A d \in todo'[p] : HasRow(d.input)'
    BY <1>8 DEF BulkApprove, JobDto, RowDto, WithStatus, HasRow, storeVars
  <2> QED BY <2>1, <2>2 DEF RowFits
<1>9. CASE FetchJob(p)
  <2>1. ASSUME NEW f \in Largest(WithStatus("PENDING")), Goto(p, "claim"),
               Hold(p, [NextDto(f) EXCEPT !.status = "WORKING"])
        PROVE  RowFits(p)'
    <3>1. pc'[p] = "claim" /\ todo'[p] = todo[p] /\ jobs' = jobs
      BY <1>9, <2>1 DEF FetchJob, Goto, storeVars, Finish
    <3>2. dto'[p].input = f /\ jobs[f].status = "PENDING"
      BY <2>1 DEF Hold, NextDto, RowDto, Largest, WithStatus
    <3> QED BY <1>2, <3>1, <3>2 DEF RowFits
  <2> QED BY <1>4, <1>9, <2>1 DEF FetchJob
<1>10. CASE ClaimJob(p)
  <2>1. dto[p] \in Dto /\ dto[p].status = "WORKING"
    BY <1>1, <1>10 DEF ClaimJob, HeldInv, HeldOK, Holding
  <2>2. jobs'[dto[p].input].status = "WORKING"
    BY <1>10, <2>1, UpsertStatus DEF ClaimJob
  <2>3. pc'[p] = "encode" /\ dto'[p] = dto[p] /\ todo'[p] = todo[p]
    BY <1>10 DEF ClaimJob, Goto
  <2> QED BY <1>2, <2>2, <2>3 DEF RowFits
<1>11. CASE LaunchFfmpeg(p)
  <2>1. pc'[p] = "ffmpeg" /\ dto'[p] = dto[p] /\ todo'[p] = todo[p] /\ jobs' = jobs
        /\ pc[p] = "encode"
    BY <1>11 DEF LaunchFfmpeg, Goto, storeVars
  <2> QED BY <1>2, <2>1 DEF RowFits
<1>12. CASE EncodeRaises(p) \/ FfmpegEnds(p) \/ FfmpegRefuses(p) \/ ManualDecline(p)
  <2>1. pc'[p] = "save" /\ todo'[p] = todo[p] /\ jobs' = jobs
    BY <1>12 DEF EncodeRaises, FfmpegEnds, FfmpegRefuses, ManualDecline, ProbeOutput,
       Goto, storeVars
  <2>2. pc[p] \in {"encode", "ffmpeg"} /\ dto[p] \in Dto
    BY <1>1, <1>12 DEF EncodeRaises, FfmpegEnds, FfmpegRefuses, ManualDecline, Holding
  <2>3. \/ dto'[p] = Failed(dto[p])
        \/ \E s \in {"small", "large"} : dto'[p] = Encoded(dto[p], s)
        \/ dto'[p] = [dto[p] EXCEPT !.status = "PENDING"]
    BY <1>12 DEF EncodeRaises, FfmpegEnds, FfmpegRefuses, ManualDecline, ProbeOutput, Hold
  <2>4. dto'[p].input = dto[p].input /\ dto'[p].status \in {"REVIEW", "ERROR", "PENDING"}
    BY <2>2, <2>3 DEF Failed, Encoded, Dto
  <2> QED BY <1>2, <2>1, <2>2, <2>4 DEF RowFits
<1>13. CASE ManualClaim(p)
  <2>1. dto[p] \in Dto
    BY <1>1, <1>13 DEF ManualClaim, Holding
  <2> DEFINE d == [dto[p] EXCEPT !.status = "WORKING"]
  <2>2. d \in Dto /\ d.input = dto[p].input
    BY <2>1, StatusType DEF JobStatus
  <2>3. d.status = "WORKING"
    BY <2>1 DEF Dto
  <2>4. pc'[p] = "encode" /\ dto'[p] = d /\ todo'[p] = todo[p] /\ UpsertJob(d)
    BY <1>13 DEF ManualClaim, Goto, Hold
  <2> HIDE DEF d
  <2>5. jobs'[d.input].status = "WORKING"
    BY <2>2, <2>3, <2>4, UpsertStatus
  <2> QED BY <1>2, <2>4, <2>5 DEF RowFits
<1>14. CASE RerunValidation(p)
  <2>1. ASSUME NEW s \in {"small", "large"}, Hold(p, Encoded(dto[p], s)), Goto(p, "put"),
               UNCHANGED todo
        PROVE  RowFits(p)'
    <3>1. dto[p] \in Dto /\ pc[p] = "rerun" /\ jobs' = jobs
      BY <1>1, <1>14 DEF RerunValidation, Holding, storeVars
    <3>2. dto'[p].input = dto[p].input /\ dto'[p].status = "REVIEW"
      BY <2>1, <3>1 DEF Hold, Encoded, Dto
    <3> QED BY <1>2, <2>1, <3>1, <3>2 DEF RowFits, Goto
  <2> QED BY <1>4, <1>14, <2>1 DEF RerunValidation
<1>15. CASE BulkRecycle(p)
  <2>1. PICK d \in todo[p] : /\ Hold(p, [d EXCEPT !.status = "COMPLETE", !.notes = {"flow"}])
                             /\ todo' = [todo EXCEPT ![p] = @ \ {d}]
    BY <1>15 DEF BulkRecycle
  <2>2. dto'[p].input = d.input
    BY <2>1 DEF Hold, Dto
  <2>3. pc'[p] = "bulkSave" /\ todo'[p] \subseteq todo[p]
    BY <1>15, <2>1 DEF BulkRecycle, Goto
  <2> QED BY <1>2, <2>2, <2>3 DEF RowFits, HasRow
<1>16. ASSUME NEW f \in Files, JobsResetJob(p, f) PROVE RowFits(p)'
  <2>1. pc'[p] = "prompt" /\ todo'[p] = todo[p] /\ jobs'[f].status # "NONE"
    BY <1>16 DEF JobsResetJob, Goto, HasRow, storeVars
  <2>2. dto'[p].input = f
    BY <1>16 DEF JobsResetJob, Hold, JobDto, RowDto
  <2> QED BY <1>2, <2>1, <2>2 DEF RowFits
<1>17. CASE ReviewPrepare(p)
  <2>1. PICK f \in WithStatus("REVIEW") : todo' = [todo EXCEPT ![p] = @ \cup {NextDto(f)}]
    BY <1>17 DEF ReviewPrepare
  <2>2. NextDto(f).input = f /\ HasRow(f)
    BY DEF WithStatus, HasRow, NextDto, RowDto
  <2>3. UNCHANGED <<pc, dto, jobs>>
    BY <1>17 DEF ReviewPrepare, storeVars
  <2>4. \A d \in todo'[p] : HasRow(d.input)'
    BY <1>2, <2>1, <2>2, <2>3 DEF HasRow
  <2> QED BY <2>3, <2>4 DEF RowFits
<1>18. CASE ReviewShow(p)
  <2>1. ASSUME NEW d \in todo[p], Hold(p, d), Goto(p, "prompt"),
               todo' = [todo EXCEPT ![p] = @ \ {d}]
        PROVE  RowFits(p)'
    <3>1. dto'[p] = d /\ pc'[p] = "prompt" /\ todo'[p] \subseteq todo[p]
      BY <2>1 DEF Hold, Goto
    <3> QED BY <1>2, <3>1 DEF RowFits, HasRow
  <2> QED BY <1>4, <1>18, <2>1 DEF ReviewShow
<1>19. CASE PromptDecide(p)
  <2>1. dto[p] \in Dto /\ jobs[dto[p].input].status # "NONE"
    BY <1>1, <1>19 DEF PromptDecide, Holding, RowFits
  <2>2. /\ dto'[p].input = dto[p].input
        /\ dto'[p].status \in {"COMPLETE", "DELETED", "PENDING"}
    BY <1>19, DecidedDto
  <2>3. pc'[p] \in {"prompt", "put"} /\ todo'[p] = todo[p] /\ jobs' = jobs
    BY <1>19 DEF PromptDecide, Goto, storeVars
  <2> QED BY <1>2, <2>1, <2>2, <2>3 DEF RowFits
<1>20. CASE PromptDelete(p)
  BY <1>20 DEF PromptDelete, storeVars, procVars, RowFits, HasRow
<1>21. CASE Start(p)
  BY <1>3, <1>5, <1>6, <1>7, <1>8, <1>16, <1>21
  DEF Start, StartJobs, EnableStop, DisableStop, ProcessDir, ResetJob, ForceApprove,
      ReviewJobs, MayRun, procVars, Goto
<1>22. CASE Step(p)
  BY <1>3, <1>4, <1>9, <1>10, <1>11, <1>12, <1>13, <1>14, <1>15, <1>17, <1>18, <1>19,
     <1>20, <1>22
  DEF Step, SaveResult, CheckStop, ConsumeStop, ManualQueue, ProcessDirReview, QueueFile,
      QueueGivesUp, PreviewDelete, QueueDone, PutJob, BulkSave, BulkDone, ReviewEnds, Goto
<1> QED BY <1>4, <1>21, <1>22 DEF Abort

\* Processes that come one after the other lead each job through its life:
\* no claim takes a job from another encode, no result or approval is
\* written over a row that has moved on, and an interrupted job goes back to
\* the queue - for any files, commands, outcomes and crashes.
THEOREM LifecycleSound ==
    ASSUME NEW w \in Procs, OneAtATime(w)
    PROVE  Spec => LifecycleSpec
<1>1. Init => Lifecycle!Init
  BY QueueAssumption DEF Init, Lifecycle!Init, NoRow
<1>2. Init => LifeInv(w)
  BY DEF Init, LifeInv, RowFits
<1>3. ASSUME LifeInv(w), NEW q \in Procs \ {w}, Start(q) \/ Step(q) \/ Abort(q)
      PROVE  UNCHANGED <<storeVars, procVars>>
  <2>1. pc[q] = "idle" /\ mode[q] # "review"
    BY <1>3 DEF LifeInv
  <2>2. ~ Step(q) /\ ~ Abort(q)
    BY <2>1
    DEF Abort, Step, FetchJob, ClaimJob, EncodeRaises,
        LaunchFfmpeg, FfmpegEnds, FfmpegRefuses, SaveResult, CheckStop, ConsumeStop,
        ManualQueue, ManualClaim, ManualDecline, ProcessDirReview, QueueFile, QueueGivesUp,
        PreviewDelete, QueueDone, RerunValidation, PutJob, BulkRecycle, BulkSave, BulkDone,
        ReviewPrepare, ReviewShow, PromptDelete, PromptDecide, ReviewEnds
  <2>3. EnableStop(q) \/ DisableStop(q)
    BY <1>3, <2>2
    DEF OneAtATime, MayRun, Start, StartJobs, ProcessDir, BulkApprove, ResetJob, ForceApprove,
        ManualJob, CancelJob, ValidateJob, ReviewJobs, JobsResetJob
  <2> QED BY <2>3 DEF EnableStop, DisableStop
<1>4. TypeOK /\ HeldInv /\ LifeInv(w) /\ [Next]_vars => LifeInv(w)'
  <2> SUFFICES ASSUME TypeOK, HeldInv, LifeInv(w), [Next]_vars PROVE LifeInv(w)'
    OBVIOUS
  <2>1. CASE UNCHANGED <<storeVars, procVars>>
    BY <2>1 DEF storeVars, procVars, LifeInv, RowFits, HasRow
  <2>2. CASE Start(w) \/ Step(w) \/ Abort(w)
    BY <2>2, FitsStep, OthersUnchanged DEF LifeInv
  <2> QED BY <1>3, <2>1, <2>2 DEF Next, vars, storeVars, procVars
<1>5. TypeOK /\ HeldInv /\ LifeInv(w) /\ [Next]_vars => [Lifecycle!Next]_StatusOf
  <2> SUFFICES ASSUME TypeOK, HeldInv, LifeInv(w), [Next]_vars
               PROVE  [Lifecycle!Next]_StatusOf
    OBVIOUS
  <2>1. CASE UNCHANGED <<storeVars, procVars>>
    BY <2>1 DEF storeVars, StatusOf
  <2>2. CASE Start(w) \/ Step(w) \/ Abort(w)
    <3>1. LifeEffect
      BY <2>2, LifeStep DEF LifeInv
    <3> QED BY <3>1 DEF LifeEffect, LifeOf, Lifecycle!Next
  <2> QED BY <1>3, <2>1, <2>2 DEF Next, vars, storeVars, procVars
<1> QED
  BY <1>1, <1>2, <1>4, <1>5, TypeInit, TypeNext, HeldInit, HeldNext, PTL
  DEF Spec, LifecycleSpec, Lifecycle!Spec, StatusOf

-----------------------------------------------------------------------------
(* The videos of recycled inputs.                                          *)

\* One process encodes, one queues, cancels, reviews and approves, nobody
\* validates again, works by hand or asks about a job in the queue; and every
\* file has an output path of its own.
Discipline(e, c) ==
    /\ \A f, g \in Files : OutName[f] = OutName[g] => f = g
    /\ \A p \in Procs :
          Commands[p] \cap {"preview", "manual-job", "validate-job", "jobs-reset-job"} = {}
    /\ \A p \in Procs \ {e} : "start-jobs" \notin Commands[p]
    /\ \A p \in Procs \ {c} :
          Commands[p] \cap {"process-dir", "cancel-job", "bulk-approve", "review-jobs"} = {}

\* Who can be where under this discipline.
Post(e, c, p) ==
    /\ pc[p] \in {"idle", "fetch", "claim", "encode", "ffmpeg", "save", "check", "disable",
                  "put", "bulk", "bulkSave", "dirReview", "dir", "review", "prompt"}
    /\ pc[p] \in {"fetch", "claim", "encode", "ffmpeg", "save", "check", "disable"} => p = e
    /\ pc[p] \in {"put", "bulk", "bulkSave", "dirReview", "dir", "review", "prompt"} => p = c
    /\ mode[p] # "manual"
    /\ mode[p] = "review" => pc[p] \in {"review", "prompt", "put"}
    /\ todo[p] # {} => pc[p] \in {"bulk", "bulkSave", "review", "prompt", "put"}

PostInv(e, c) == \A p \in Procs : Post(e, c, p)

\* The steps that are left.
Disciplined(p) ==
    \/ \E m \in {"loop", "once"} : StartJobs(p, m)
    \/ EnableStop(p) \/ DisableStop(p) \/ ProcessDir(p) \/ BulkApprove(p) \/ ReviewJobs(p)
    \/ \E f \in Files : ResetJob(p, f) \/ ForceApprove(p, f) \/ CancelJob(p, f)
    \/ FetchJob(p) \/ ClaimJob(p) \/ EncodeRaises(p) \/ LaunchFfmpeg(p) \/ FfmpegEnds(p)
    \/ FfmpegRefuses(p) \/ SaveResult(p) \/ CheckStop(p) \/ ConsumeStop(p)
    \/ ProcessDirReview(p) \/ QueueFile(p) \/ QueueGivesUp(p) \/ QueueDone(p)
    \/ PutJob(p) \/ BulkRecycle(p) \/ BulkSave(p) \/ BulkDone(p) \/ Abort(p)
    \/ ReviewPrepare(p) \/ ReviewShow(p) \/ PromptDelete(p) \/ PromptDecide(p)
    \/ ReviewEnds(p)

LEMMA DisciplinedStep ==
    ASSUME NEW e, NEW c, Discipline(e, c), NEW p \in Procs, Post(e, c, p),
           Start(p) \/ Step(p) \/ Abort(p)
    PROVE  Disciplined(p)
<1>1. \A f \in Files : ~ ManualJob(p, f) /\ ~ ValidateJob(p, f) /\ ~ JobsResetJob(p, f)
  BY DEF Discipline, ManualJob, ValidateJob, JobsResetJob, MayRun
<1>2. ~ PreviewDelete(p)
  BY DEF Discipline, PreviewDelete
<1>3. ~ ManualQueue(p) /\ ~ ManualClaim(p) /\ ~ ManualDecline(p) /\ ~ RerunValidation(p)
  BY DEF Post, ManualQueue, ManualClaim, ManualDecline, RerunValidation
<1> QED BY <1>1, <1>2, <1>3 DEF Disciplined, Start, Step

LEMMA PostStep ==
    ASSUME TypeOK, NEW e, NEW c, Discipline(e, c), NEW p \in Procs, Post(e, c, p),
           Disciplined(p)
    PROVE  Post(e, c, p)'
<1> USE DEF TypeOK, ProcTypeOK, Post
<1>1. CASE Finish(p)
  BY <1>1 DEF Finish, Goto
<1>2. CASE UNCHANGED procVars
  BY <1>2 DEF procVars
<1>3. ASSUME NEW m \in {"loop", "once"}, StartJobs(p, m) PROVE Post(e, c, p)'
  BY <1>3 DEF StartJobs, Goto, MayRun, Discipline
<1>4. CASE ProcessDir(p) \/ BulkApprove(p) \/ ReviewJobs(p)
  BY <1>4 DEF ProcessDir, BulkApprove, ReviewJobs, Goto, MayRun, Discipline
<1>5. ASSUME NEW f \in Files, CancelJob(p, f) PROVE Post(e, c, p)'
  BY <1>5 DEF CancelJob, Goto, MayRun, Discipline
<1>6. CASE FetchJob(p) \/ ClaimJob(p) \/ EncodeRaises(p) \/ LaunchFfmpeg(p)
           \/ FfmpegEnds(p) \/ FfmpegRefuses(p) \/ SaveResult(p) \/ CheckStop(p)
  BY <1>1, <1>6 DEF FetchJob, ClaimJob, EncodeRaises, LaunchFfmpeg, FfmpegEnds,
     FfmpegRefuses, ProbeOutput, SaveResult, CheckStop, Goto
<1>7. CASE ProcessDirReview(p) \/ QueueFile(p) \/ BulkRecycle(p) \/ BulkSave(p)
  BY <1>1, <1>7 DEF ProcessDirReview, QueueFile, BulkRecycle, BulkSave, Goto
<1>8. CASE PutJob(p) \/ ReviewShow(p)
  BY <1>1, <1>8 DEF PutJob, ReviewShow, Goto
<1>9. CASE ReviewPrepare(p) \/ PromptDecide(p)
  BY <1>9 DEF ReviewPrepare, PromptDecide, Goto
<1> QED
  BY <1>1, <1>2, <1>3, <1>4, <1>5, <1>6, <1>7, <1>8, <1>9
  DEF Disciplined, EnableStop, DisableStop, ResetJob, ForceApprove, ConsumeStop,
      QueueGivesUp, QueueDone, BulkDone, PromptDelete, ReviewEnds, Abort

\* What was made of f is at its output path, or the user removed it.
Kept(f) == outs[OutName[f]] \in {f, "short", "removed"}

\* An object that names an output file is about a video that is kept.  What
\* the encoder may write over is new in the table too; what the clerk has
\* read, each job once, stays as it was until it is written.
Faithful(p) ==
    LET d == dto[p] IN
    /\ pc[p] \in Holding /\ d.output = "file" => Kept(d.input)
    /\ pc[p] \in {"claim", "encode", "ffmpeg", "save"} /\ d.output = "dir" =>
          jobs[d.input].output = "dir"
    /\ pc[p] = "ffmpeg" => d.output = "dir" /\ d.input \in inputs
    /\ pc[p] \in {"put", "bulkSave"} /\ d.output = "file" => jobs[d.input].output = "file"
    /\ pc[p] = "bulkSave" => d.output = "file"
    /\ pc[p] = "prompt" => jobs[d.input].output = "file"
    /\ \A t \in todo[p] : t.output = "file" /\ jobs[t.input].output = "file"
    /\ \A s, t \in todo[p] : s.input = t.input => s = t
    /\ pc[p] \in {"prompt", "put"} => \A t \in todo[p] : t.input # d.input

\* A row that names an output file, and an input that is gone, are about a
\* video that is kept; no path has the encode of another file.
SurvivalInv ==
    /\ \A f \in Files : f \notin inputs \/ jobs[f].output = "file" => Kept(f)
    /\ \A f \in Files : outs[OutName[f]] \in Files => outs[OutName[f]] = f
    /\ \A p \in Procs : Faithful(p)

\* What happens to the column output of a row.
OutputColumn(p, f) ==
    \/ jobs'[f].output = jobs[f].output
    \/ jobs'[f].output = "dir" /\ pc[p] \in {"put", "dir"}
    \/ /\ jobs'[f].output = "file" /\ pc[p] \in {"claim", "save"}
       /\ dto[p].input = f /\ dto[p].output = "file"

LEMMA ColumnStep ==
    ASSUME TypeOK, NEW p \in Procs, Faithful(p), Disciplined(p), NEW f \in Files
    PROVE  OutputColumn(p, f)
<1> USE DEF TypeOK, ProcTypeOK, StoreTypeOK, Row, OutputColumn
<1>1. CASE UNCHANGED storeVars
  BY <1>1 DEF storeVars
<1>2. ASSUME NEW d \in Dto, UpsertJob(d)
      PROVE  jobs'[f].output = IF f = d.input THEN d.output ELSE jobs[f].output
  BY <1>2 DEF UpsertJob, Dto
<1>3. dto[p] \in Dto \/ pc[p] \notin Holding
  OBVIOUS
<1>4. \A d \in Dto : d.output \in {"dir", "file"}
  BY DEF Dto, OutputKind
<1>5. ASSUME NEW m \in {"loop", "once"}, StartJobs(p, m) PROVE OutputColumn(p, f)
  BY <1>5 DEF StartJobs, BulkUpdateStatus
<1>6. ASSUME NEW g \in Files, ResetJob(p, g) \/ ForceApprove(p, g) PROVE OutputColumn(p, f)
  <2>1. PICK s \in {"PENDING", "COMPLETE"} : jobs' = [jobs EXCEPT ![g].status = s]
    BY <1>6 DEF ResetJob, ForceApprove, ForceStatus
  <2>2. jobs'[f].output = jobs[f].output
    BY <2>1
  <2> QED BY <2>2
<1>7. CASE ClaimJob(p) \/ SaveResult(p)
  <2>1. dto[p] \in Dto /\ UpsertJob(dto[p]) /\ pc[p] \in {"claim", "save"}
    BY <1>3, <1>7 DEF ClaimJob, SaveResult, Holding
  <2> QED BY <1>2, <1>4, <2>1 DEF Faithful
<1>8. CASE QueueFile(p)
  <2>1. PICK g \in Files : UpsertJob(NewDto(g, "PENDING"))
    BY <1>8 DEF QueueFile, Largest
  <2>2. NewDto(g, "PENDING") \in Dto /\ NewDto(g, "PENDING").output = "dir"
    BY NewType DEF NewDto, JobStatus
  <2> QED BY <1>2, <1>8, <2>1, <2>2 DEF QueueFile
<1>9. CASE PutJob(p) \/ BulkSave(p)
  <2>1. dto[p] \in Dto /\ UpsertJob(dto[p]) /\ pc[p] \in {"put", "bulkSave"}
    BY <1>3, <1>9 DEF PutJob, BulkSave, Holding
  <2> QED BY <1>2, <1>4, <2>1 DEF Faithful
<1> QED
  BY <1>1, <1>5, <1>6, <1>7, <1>8, <1>9
  DEF Disciplined, EnableStop, DisableStop, ProcessDir, BulkApprove, CancelJob, FetchJob,
      EncodeRaises, LaunchFfmpeg, FfmpegEnds, FfmpegRefuses, CheckStop, ConsumeStop,
      ProcessDirReview, QueueGivesUp, QueueDone, BulkRecycle, BulkDone, ReviewJobs,
      ReviewPrepare, ReviewShow, PromptDelete, PromptDecide, ReviewEnds, Abort

\* Only ffmpeg writes, and only over what is new in the table.
Overwrites(p, f) ==
    /\ pc[p] \in {"encode", "ffmpeg"} /\ dto[p].input = f /\ dto[p].output = "dir"
    /\ f \in inputs /\ jobs[f].output = "dir"
    /\ UNCHANGED <<inputs, jobs>>

LEMMA KeptStep ==
    ASSUME TypeOK, NEW e, NEW c, Discipline(e, c), NEW p \in Procs, Faithful(p),
           Disciplined(p), NEW f \in Files, Kept(f), ~ Kept(f)'
    PROVE  Overwrites(p, f)
<1> USE DEF TypeOK, ProcTypeOK, Kept
<1>1. CASE UNCHANGED outs
  BY <1>1
<1>2. CASE LaunchFfmpeg(p)
  <2>1. dto[p] \in Dto /\ dto[p].input \in Files
    BY <1>2 DEF LaunchFfmpeg, Holding, Dto
  <2>2. OutName[dto[p].input] = OutName[f]
    BY <1>2 DEF LaunchFfmpeg
  <2>3. dto[p].input = f
    BY <2>1, <2>2 DEF Discipline
  <2> QED BY <1>2, <2>3 DEF LaunchFfmpeg, CanEncode, Overwrites, Faithful, storeVars
<1>3. CASE FfmpegEnds(p)
  <2>1. dto[p] \in Dto /\ dto[p].input \in Files
    BY <1>3 DEF FfmpegEnds, Holding, Dto
  <2>2. OutName[dto[p].input] = OutName[f]
    BY <1>3 DEF FfmpegEnds
  <2>3. dto[p].input = f
    BY <2>1, <2>2 DEF Discipline
  <2> QED BY <1>3, <2>3 DEF FfmpegEnds, Overwrites, Faithful, storeVars
<1>4. CASE FfmpegRefuses(p)
  <2>1. OutName[f] \in Outputs /\ outs[OutName[f]] # "partial"
    BY QueueAssumption
  <2>2. outs'[OutName[f]] = outs[OutName[f]]
    BY <1>4, <2>1 DEF FfmpegRefuses
  <2> QED BY <2>2
<1>5. CASE PromptDelete(p) \/ PromptDecide(p)
  <2>1. outs' \in {outs, Removed(p)} /\ OutName[f] \in Outputs
    BY <1>5, QueueAssumption DEF PromptDelete, PromptDecide, fileVars
  <2>2. outs'[OutName[f]] \in {outs[OutName[f]], "removed"}
    BY <2>1 DEF Removed
  <2> QED BY <2>2
<1> QED
  BY <1>1, <1>2, <1>3, <1>4, <1>5
  DEF Disciplined, StartJobs, EnableStop, DisableStop, ProcessDir, BulkApprove, ResetJob,
      ForceApprove, CancelJob, FetchJob, ClaimJob, EncodeRaises, SaveResult, CheckStop,
      ConsumeStop, ProcessDirReview, QueueFile, QueueGivesUp, QueueDone, PutJob,
      BulkRecycle, BulkSave, BulkDone, ReviewJobs, ReviewPrepare, ReviewShow, ReviewEnds,
      Abort, fileVars

\* An output path gets the encode of a file only when it is the path of it.
LEMMA OwnStep ==
    ASSUME TypeOK, NEW e, NEW c, Discipline(e, c), NEW p \in Procs, Disciplined(p),
           NEW f \in Files, outs[OutName[f]] \in Files => outs[OutName[f]] = f,
           outs'[OutName[f]] \in Files
    PROVE  outs'[OutName[f]] = f
<1> USE QueueAssumption DEF TypeOK, ProcTypeOK
<1>1. CASE UNCHANGED outs
  BY <1>1
<1>2. CASE LaunchFfmpeg(p)
  BY <1>2 DEF LaunchFfmpeg
<1>3. CASE FfmpegEnds(p)
  <2>1. PICK x \in Content :
           /\ x \in {dto[p].input, "short", "unreadable"}
           /\ outs' = [outs EXCEPT ![OutName[dto[p].input]] = x]
    BY <1>3 DEF FfmpegEnds
  <2>2. dto[p].input \in Files
    BY <1>3 DEF FfmpegEnds, Holding, Dto
  <2>3. CASE OutName[dto[p].input] = OutName[f]
    <3>1. dto[p].input = f
      BY <2>2, <2>3 DEF Discipline
    <3> QED BY <2>1, <2>3, <3>1
  <2>4. CASE OutName[dto[p].input] # OutName[f]
    BY <2>1, <2>4
  <2> QED BY <2>3, <2>4
<1>4. CASE FfmpegRefuses(p)
  <2>1. outs'[OutName[f]] \in {outs[OutName[f]], "short"}
    BY <1>4 DEF FfmpegRefuses
  <2> QED BY <2>1
<1>5. CASE PromptDelete(p) \/ PromptDecide(p)
  <2>1. outs' \in {outs, Removed(p)}
    BY <1>5 DEF PromptDelete, PromptDecide, fileVars
  <2>2. outs'[OutName[f]] \in {outs[OutName[f]], "removed"}
    BY <2>1 DEF Removed
  <2> QED BY <2>2
<1> QED
  BY <1>1, <1>2, <1>3, <1>4, <1>5
  DEF Disciplined, StartJobs, EnableStop, DisableStop, ProcessDir, BulkApprove, ResetJob,
      ForceApprove, CancelJob, FetchJob, ClaimJob, EncodeRaises, SaveResult, CheckStop,
      ConsumeStop, ProcessDirReview, QueueFile, QueueGivesUp, QueueDone, PutJob,
      BulkRecycle, BulkSave, BulkDone, ReviewJobs, ReviewPrepare, ReviewShow, ReviewEnds,
      Abort, fileVars

\* An input is recycled only when its row names an output file.
LEMMA InputStep ==
    ASSUME TypeOK, NEW p \in Procs, Faithful(p), Disciplined(p), NEW f \in inputs,
           f \notin inputs'
    PROVE  jobs[f].output = "file"
<1>1. BulkRecycle(p) \/ PromptDelete(p) \/ PromptDecide(p)
  BY DEF Disciplined, StartJobs, EnableStop, DisableStop, ProcessDir, BulkApprove, ResetJob,
      ForceApprove, CancelJob, FetchJob, ClaimJob, EncodeRaises, LaunchFfmpeg, FfmpegEnds,
      FfmpegRefuses, SaveResult, CheckStop, ConsumeStop, ProcessDirReview, QueueFile,
      QueueGivesUp, QueueDone, PutJob, BulkSave, BulkDone, ReviewJobs, ReviewPrepare,
      ReviewShow, ReviewEnds, Abort, fileVars
<1>2. CASE BulkRecycle(p)
  <2>1. PICK t \in todo[p] : inputs' \in {inputs, inputs \ {t.input}}
    BY <1>2 DEF BulkRecycle
  <2> QED BY <2>1 DEF Faithful
<1>3. CASE PromptDelete(p) \/ PromptDecide(p)
  <2>1. pc[p] = "prompt" /\ inputs' \in {inputs, inputs \ {dto[p].input}}
    BY <1>3 DEF PromptDelete, PromptDecide, fileVars
  <2> QED BY <2>1 DEF Faithful
<1> QED BY <1>1, <1>2, <1>3

\* An encode changes neither the input nor, when it fails, the output of
\* the object it is given.
LEMMA OutcomeAbout ==
    ASSUME NEW d \in Dto, NEW s \in {"small", "large"}
    PROVE  /\ Encoded(d, s).input = d.input
           /\ Failed(d).input = d.input /\ Failed(d).output = d.output
BY DEF Dto, Encoded, Failed

\* A process that steps still has faithful objects.
LEMMA FaithfulStep ==
    ASSUME TypeOK, ReviewHasResult, NEW e, NEW c, Discipline(e, c), NEW p \in Procs,
           Post(e, c, p), SurvivalInv, Disciplined(p)
    PROVE  Faithful(p)'
<1> USE DEF TypeOK, ProcTypeOK, StoreTypeOK, Row
<1>1. /\ Post(e, c, p) /\ Faithful(p)
      /\ \A f \in Files : f \notin inputs \/ jobs[f].output = "file" => Kept(f)
      /\ \A f \in Files : outs[OutName[f]] \in Files => outs[OutName[f]] = f
      /\ pc[p] \in Holding => dto[p] \in Dto /\ dto[p].input \in Files
      /\ \A t \in todo[p] : t \in Dto /\ t.input \in Files
  BY DEF SurvivalInv, Dto
<1>2. CASE pc'[p] \notin Holding /\ todo'[p] = {}
  BY <1>2 DEF Faithful, Holding
<1>3. CASE Finish(p)
  BY <1>2, <1>3 DEF Finish, Goto, Holding
<1>4. CASE UNCHANGED <<pc, todo>> /\ pc[p] \in {"idle", "dir"}
  BY <1>1, <1>2, <1>4 DEF Post, Holding
<1>5. ASSUME NEW m \in {"loop", "once"}, StartJobs(p, m) PROVE Faithful(p)'
  BY <1>1, <1>2, <1>5 DEF Post, StartJobs, MayRun, Goto, Holding
<1>6. CASE ProcessDir(p) \/ ProcessDirReview(p) \/ CheckStop(p) \/ SaveResult(p)
  BY <1>1, <1>2, <1>3, <1>6
  DEF Post, ProcessDir, ProcessDirReview, CheckStop, SaveResult, MayRun, Goto, Holding
<1>7. ASSUME NEW f \in Files, CancelJob(p, f) PROVE Faithful(p)'
  <2>1. pc'[p] = "put" /\ todo'[p] = {} /\ UNCHANGED <<jobs, outs>>
    BY <1>1, <1>7 DEF Post, CancelJob, MayRun, Goto, storeVars, fileVars
  <2>2. dto'[p].input = f /\ dto'[p].output = jobs[f].output
    BY <1>7 DEF CancelJob, Hold, JobDto, RowDto
  <2> QED BY <1>1, <2>1, <2>2 DEF Faithful, Kept
<1>8. CASE FetchJob(p)
  <2>1. ASSUME NEW f \in Largest(WithStatus("PENDING")),
               Hold(p, [NextDto(f) EXCEPT !.status = "WORKING"]), Goto(p, "claim"),
               UNCHANGED todo
        PROVE  Faithful(p)'
    <3>1. f \in Files /\ pc'[p] = "claim" /\ todo'[p] = {} /\ UNCHANGED <<jobs, outs>>
      BY <1>1, <1>8, <2>1
      DEF Post, FetchJob, Goto, storeVars, fileVars, Largest, WithStatus
    <3>2. dto'[p].input = f /\ dto'[p].output = jobs[f].output
      BY <2>1 DEF Hold, NextDto, RowDto
    <3> QED BY <1>1, <3>1, <3>2 DEF Faithful, Kept
  <2> QED BY <1>3, <1>8, <2>1 DEF FetchJob
<1>9. CASE ClaimJob(p)
  <2>1. /\ pc[p] = "claim" /\ pc'[p] = "encode" /\ todo'[p] = {} /\ dto' = dto
        /\ dto[p] \in Dto /\ dto[p].input \in Files /\ outs' = outs
        /\ jobs'[dto[p].input].output = dto[p].output
    BY <1>1, <1>9 DEF Post, ClaimJob, Goto, UpsertJob, fileVars, Holding
  <2> QED BY <1>1, <2>1 DEF Faithful, Kept, Holding
<1>10. CASE EncodeRaises(p)
  <2>1. /\ pc[p] = "encode" /\ pc'[p] = "save" /\ todo'[p] = {} /\ dto'[p] = Failed(dto[p])
        /\ dto[p] \in Dto /\ UNCHANGED <<jobs, outs>>
    BY <1>1, <1>10 DEF Post, EncodeRaises, Goto, Hold, storeVars, fileVars, Holding
  <2>2. dto'[p].input = dto[p].input /\ dto'[p].output = dto[p].output
    BY <2>1 DEF Failed, Dto
  <2> QED BY <1>1, <2>1, <2>2 DEF Faithful, Kept, Holding
<1>11. CASE LaunchFfmpeg(p)
  <2>1. /\ pc[p] = "encode" /\ pc'[p] = "ffmpeg" /\ todo'[p] = {}
        /\ UNCHANGED <<jobs, dto, inputs>>
        /\ dto[p].output = "dir" /\ dto[p].input \in inputs
    BY <1>1, <1>11 DEF Post, LaunchFfmpeg, CanEncode, Goto, storeVars
  <2> QED BY <1>1, <2>1 DEF Faithful
<1>12. CASE FfmpegEnds(p)
  <2>1. /\ pc[p] = "ffmpeg" /\ pc'[p] = "save" /\ todo'[p] = {} /\ UNCHANGED jobs
        /\ dto[p] \in Dto /\ dto[p].input \in Files /\ OutName[dto[p].input] \in Outputs
    BY <1>1, <1>12, QueueAssumption
    DEF Post, FfmpegEnds, ProbeOutput, Goto, storeVars, Holding
  <2>2. PICK x \in Content :
           /\ x \in {dto[p].input, "short", "unreadable"}
           /\ outs' = [outs EXCEPT ![OutName[dto[p].input]] = x]
           /\ ProbeOutput(p, dto[p], x)
    BY <1>12 DEF FfmpegEnds
  <2>3. \/ \E s \in {"small", "large"} : dto'[p] = Encoded(dto[p], s) /\ Readable(x)
        \/ dto'[p] = Failed(dto[p])
    BY <2>2 DEF ProbeOutput, Hold
  <2>4. CASE dto'[p] = Failed(dto[p])
    <3>1. dto'[p].input = dto[p].input /\ dto'[p].output = "dir"
      BY <1>1, <2>1, <2>4, OutcomeAbout DEF Faithful
    <3> QED BY <1>1, <2>1, <3>1 DEF Faithful
  <2>5. ASSUME NEW s \in {"small", "large"}, dto'[p] = Encoded(dto[p], s), Readable(x)
        PROVE  Faithful(p)'
    <3>1. dto'[p].input = dto[p].input /\ dto'[p].output = "file"
      BY <2>1, <2>5, OutcomeAbout, OutcomeHeld DEF HasResult
    <3>2. outs'[OutName[dto[p].input]] \in {dto[p].input, "short"}
      BY <2>1, <2>2, <2>5 DEF Readable
    <3> QED BY <2>1, <3>1, <3>2 DEF Faithful, Kept
  <2> QED BY <2>3, <2>4, <2>5
<1>13. CASE BulkApprove(p)
  <2>1. pc'[p] = "bulk" /\ UNCHANGED <<jobs, outs>>
    BY <1>13 DEF BulkApprove, Goto, storeVars, fileVars
  <2>2. ASSUME NEW t \in todo'[p] PROVE t.output = "file" /\ jobs[t.input].output = "file"
    <3>1. PICK f \in WithStatus("REVIEW") : t = JobDto(f)
      BY <1>13 DEF BulkApprove
    <3> QED BY <3>1 DEF ReviewHasResult, JobDto, RowDto
  <2>3. ASSUME NEW t \in todo'[p] PROVE t = JobDto(t.input)
    <3>1. PICK f \in WithStatus("REVIEW") : t = JobDto(f)
      BY <1>13 DEF BulkApprove
    <3> QED BY <3>1 DEF JobDto, RowDto
  <2>4. \A s, t \in todo'[p] : s.input = t.input => s = t
    BY <2>3
  <2> QED BY <2>1, <2>2, <2>4 DEF Faithful, Holding
<1>14. CASE BulkRecycle(p)
  <2>1. PICK t \in todo[p] : /\ Hold(p, [t EXCEPT !.status = "COMPLETE", !.notes = {"flow"}])
                             /\ todo' = [todo EXCEPT ![p] = @ \ {t}]
    BY <1>14 DEF BulkRecycle
  <2>2. pc[p] = "bulk" /\ pc'[p] = "bulkSave" /\ UNCHANGED <<jobs, outs>>
    BY <1>14 DEF BulkRecycle, Goto, storeVars
  <2>3. t \in Dto /\ dto'[p].input = t.input /\ dto'[p].output = t.output
    BY <2>1 DEF Hold, Dto
  <2>4. t.output = "file" /\ jobs[t.input].output = "file" /\ t.input \in Files
    BY <1>1, <2>3 DEF Faithful, Dto
  <2>5. Kept(t.input)
    BY <1>1, <2>4
  <2>6. todo'[p] \subseteq todo[p]
    BY <2>1
  <2> QED BY <1>1, <2>2, <2>3, <2>4, <2>5, <2>6 DEF Faithful, Kept
<1>15. CASE BulkSave(p)
  <2>1. /\ pc[p] = "bulkSave" /\ pc'[p] = "bulk" /\ UNCHANGED todo
        /\ dto[p] \in Dto /\ dto[p].output = "file" /\ UpsertJob(dto[p])
    BY <1>1, <1>15 DEF BulkSave, Goto, Holding, Faithful
  <2>2. \A f \in Files : jobs[f].output = "file" => jobs'[f].output = "file"
    BY <2>1 DEF UpsertJob, Dto
  <2> QED BY <1>1, <2>1, <2>2 DEF Faithful, Holding
<1>16. CASE FfmpegRefuses(p)
  <2>1. /\ pc[p] = "encode" /\ pc'[p] = "save" /\ todo'[p] = {} /\ UNCHANGED jobs
        /\ dto[p] \in Dto /\ dto[p].input \in Files /\ OutName[dto[p].input] \in Outputs
        /\ dto[p].output = "dir" /\ jobs[dto[p].input].output = "dir"
    BY <1>1, <1>16, QueueAssumption
    DEF Post, FfmpegRefuses, CanEncode, ProbeOutput, Goto, storeVars, Holding, Faithful
  <2> DEFINE x == outs[OutName[dto[p].input]]
  <2>2. \/ \E s \in {"small", "large"} : dto'[p] = Encoded(dto[p], s) /\ Readable(x)
        \/ dto'[p] = Failed(dto[p])
    BY <1>16 DEF FfmpegRefuses, ProbeOutput, Hold
  <2>3. CASE dto'[p] = Failed(dto[p])
    <3>1. dto'[p].input = dto[p].input /\ dto'[p].output = "dir"
      BY <2>1, <2>3, OutcomeAbout
    <3> QED BY <2>1, <3>1 DEF Faithful
  <2>4. ASSUME NEW s \in {"small", "large"}, dto'[p] = Encoded(dto[p], s), Readable(x)
        PROVE  Faithful(p)'
    <3>1. dto'[p].input = dto[p].input /\ dto'[p].output = "file"
      BY <2>1, <2>4, OutcomeAbout, OutcomeHeld DEF HasResult
    <3>2. x \in Content
      BY <2>1
    <3>3. x \in {dto[p].input, "short", "partial"}
      BY <1>1, <2>1, <2>4, <3>2 DEF Readable, Exists, Content
    <3>4. outs'[OutName[dto[p].input]] = IF x = "partial" THEN "short" ELSE x
      BY <1>16, <2>1 DEF FfmpegRefuses
    <3>5. outs'[OutName[dto[p].input]] \in {dto[p].input, "short"}
      BY <3>3, <3>4
    <3> QED BY <2>1, <3>1, <3>5 DEF Faithful, Kept
  <2> QED BY <2>2, <2>3, <2>4
<1>17. CASE ReviewJobs(p)
  BY <1>1, <1>2, <1>17 DEF Post, ReviewJobs, MayRun, Goto, Holding
<1>18. CASE ReviewPrepare(p)
  <2>1. PICK f \in WithStatus("REVIEW") :
           /\ \A d \in todo[p] : d.input # f
           /\ dto[p] # NoDto => dto[p].input # f
           /\ todo' = [todo EXCEPT ![p] = @ \cup {NextDto(f)}]
    BY <1>18 DEF ReviewPrepare
  <2>2. NextDto(f).input = f /\ NextDto(f).output = "file" /\ jobs[f].output = "file"
    BY DEF ReviewHasResult, NextDto, RowDto
  <2>3. todo'[p] = todo[p] \cup {NextDto(f)}
    BY <2>1
  <2>4. UNCHANGED <<jobs, outs, inputs, pc, dto>>
    BY <1>18 DEF ReviewPrepare, storeVars, fileVars
  <2>5. pc[p] \in {"prompt", "put"} => dto[p].input # f
    BY <1>1, <2>1, QueueAssumption DEF Holding
  <2> HIDE DEF TypeOK, ProcTypeOK, StoreTypeOK, Row
  <2>6. \A s, t \in todo'[p] : s.input = t.input => s = t
    BY <1>1, <2>1, <2>2, <2>3 DEF Faithful
  <2>7. \A t \in todo'[p] : t.output = "file" /\ jobs[t.input].output = "file"
    BY <1>1, <2>2, <2>3 DEF Faithful
  <2>8. pc[p] \in {"prompt", "put"} => \A t \in todo'[p] : t.input # dto[p].input
    BY <1>1, <2>2, <2>3, <2>5 DEF Faithful
  <2> QED BY <1>1, <2>4, <2>6, <2>7, <2>8 DEF Faithful, Kept
<1>19. CASE ReviewShow(p)
  <2>1. ASSUME NEW d \in todo[p], Hold(p, d), Goto(p, "prompt"),
               todo' = [todo EXCEPT ![p] = @ \ {d}]
        PROVE  Faithful(p)'
    <3>1. /\ pc'[p] = "prompt" /\ dto'[p] = d /\ todo'[p] = todo[p] \ {d}
          /\ UNCHANGED <<jobs, outs>>
      BY <1>19, <2>1 DEF ReviewShow, Hold, Goto, storeVars, fileVars
    <3>2. d.input \in Files /\ d.output = "file" /\ jobs[d.input].output = "file"
      BY <1>1 DEF Faithful
    <3>3. Kept(d.input)
      BY <1>1, <3>2
    <3>4. \A t \in todo'[p] : t.input # d.input
      BY <1>1, <2>1, <3>1 DEF Faithful
    <3> QED BY <1>1, <3>1, <3>2, <3>3, <3>4 DEF Faithful, Kept
  <2> QED BY <1>3, <1>19, <2>1 DEF ReviewShow
<1>20. CASE PromptDelete(p)
  <2>1. /\ pc[p] = "prompt" /\ UNCHANGED <<jobs, pc, dto, todo>>
        /\ outs' \in {outs, Removed(p)}
    BY <1>20 DEF PromptDelete, storeVars, procVars
  <2>2. Kept(dto[p].input)
    BY <1>1, <2>1 DEF Faithful, Holding
  <2>3. Kept(dto[p].input)'
    BY <1>1, <2>1, <2>2, QueueAssumption DEF Kept, Removed, Holding
  <2> QED BY <1>1, <2>1, <2>3 DEF Faithful
<1>21. CASE PromptDecide(p)
  <2>1. /\ pc[p] = "prompt" /\ pc'[p] \in {"prompt", "put"} /\ UNCHANGED jobs
        /\ outs' \in {outs, Removed(p)}
    BY <1>21 DEF PromptDecide, Goto, storeVars, fileVars
  <2>2. dto'[p].input = dto[p].input /\ todo' = todo
    BY <1>21, DecidedDto
  <2> DEFINE f == dto[p].input
  <2>3. f \in Files /\ jobs[f].output = "file" /\ outs[OutName[f]] \in {f, "short", "removed"}
    BY <1>1, <2>1 DEF Faithful, Holding, Kept
  <2>4. outs'[OutName[f]] \in {outs[OutName[f]], "removed"}
    BY <2>1, <2>3, QueueAssumption DEF Removed
  <2>5. outs'[OutName[f]] \in {f, "short", "removed"}
    BY <2>3, <2>4
  <2> QED BY <1>1, <2>1, <2>2, <2>3, <2>5 DEF Faithful, Kept
<1>22. CASE PutJob(p)
  <2>1. CASE Finish(p)
    BY <1>3, <2>1
  <2>2. CASE Goto(p, "review") /\ UNCHANGED todo
    <3>1. pc[p] = "put" /\ pc'[p] = "review" /\ todo' = todo /\ UpsertJob(dto[p])
      BY <1>22, <2>2 DEF PutJob, Goto
    <3>2. \A f \in Files : f # dto[p].input => jobs'[f] = jobs[f]
      BY <3>1 DEF UpsertJob
    <3>3. \A t \in todo[p] : t.input # dto[p].input
      BY <1>1, <3>1 DEF Faithful
    <3>4. \A t \in todo[p] : t.output = "file" /\ jobs'[t.input].output = "file"
      BY <1>1, <3>2, <3>3 DEF Faithful
    <3> QED BY <1>1, <3>1, <3>4 DEF Faithful, Holding
  <2> QED BY <1>22, <2>1, <2>2 DEF PutJob
<1> QED
  BY <1>3, <1>4, <1>5, <1>6, <1>7, <1>8, <1>9, <1>10, <1>11, <1>12, <1>13, <1>14, <1>15,
     <1>16, <1>17, <1>18, <1>19, <1>20, <1>21, <1>22
  DEF Disciplined, EnableStop, DisableStop, ResetJob, ForceApprove, MayRun, procVars,
      ConsumeStop, QueueFile, QueueGivesUp, QueueDone, BulkDone, ReviewEnds, Abort

\* The objects of the other processes stay faithful too: the encoder writes
\* over a file only while its row is new, and the clerk alone makes it new.
LEMMA OthersFaithful ==
    ASSUME TypeOK, NEW e, NEW c, Discipline(e, c), PostInv(e, c), SurvivalInv,
           NEW p \in Procs, Start(p) \/ Step(p) \/ Abort(p), Disciplined(p),
           NEW q \in Procs, q # p
    PROVE  Faithful(q)'
<1> USE DEF TypeOK, ProcTypeOK
<1>1. /\ pc'[q] = pc[q] /\ dto'[q] = dto[q] /\ todo'[q] = todo[q]
      /\ Faithful(q) /\ Faithful(p) /\ Post(e, c, p) /\ Post(e, c, q)
      /\ pc[q] \in Holding => dto[q] \in Dto /\ dto[q].input \in Files
      /\ \A t \in todo[q] : t.input \in Files
  BY OthersUnchanged DEF PostInv, SurvivalInv, Dto
<1>2. \A f \in Files : OutputColumn(p, f)
  BY <1>1, ColumnStep
<1>3. ASSUME pc[q] \in Holding, dto[q].output = "file" PROVE Kept(dto[q].input)'
  <2>1. Kept(dto[q].input)
    BY <1>1, <1>3 DEF Faithful
  <2>2. CASE Overwrites(p, dto[q].input)
    <3>1. p = e /\ pc[q] \in {"put", "bulkSave", "prompt"}
      BY <1>1, <1>3, <2>2 DEF Overwrites, Post, Holding
    <3> QED BY <1>1, <1>3, <2>2, <3>1 DEF Overwrites, Faithful
  <2> QED BY <1>1, <1>3, <2>1, <2>2, KeptStep
<1>4. ASSUME pc[q] \in {"claim", "encode", "ffmpeg", "save"}, dto[q].output = "dir"
      PROVE  jobs'[dto[q].input].output = "dir"
  <2>1. dto[q].input \in Files /\ jobs[dto[q].input].output = "dir" /\ p # e
    BY <1>1, <1>4 DEF Faithful, Holding, Post
  <2> QED BY <1>1, <1>2, <2>1 DEF OutputColumn, Post
<1>5. ASSUME NEW f \in Files, jobs[f].output = "file", q = c PROVE jobs'[f].output = "file"
  BY <1>1, <1>2, <1>5 DEF OutputColumn, Post
<1>6. ASSUME pc[q] = "ffmpeg" PROVE dto[q].output = "dir" /\ dto[q].input \in inputs'
  <2>1. dto[q].output = "dir" /\ dto[q].input \in inputs /\ jobs[dto[q].input].output = "dir"
    BY <1>1, <1>6 DEF Faithful
  <2> QED BY <1>1, <2>1, InputStep
<1>7. todo[q] # {} \/ pc[q] \in {"put", "bulkSave", "prompt"} => q = c
  BY <1>1 DEF Post
<1> QED BY <1>1, <1>3, <1>4, <1>5, <1>6, <1>7 DEF Faithful, Holding

LEMMA PostNext ==
    ASSUME NEW e, NEW c, Discipline(e, c)
    PROVE  TypeOK /\ PostInv(e, c) /\ [Next]_vars => PostInv(e, c)'
<1> SUFFICES ASSUME TypeOK, PostInv(e, c), [Next]_vars, NEW q \in Procs PROVE Post(e, c, q)'
  BY DEF PostInv
<1>1. CASE UNCHANGED vars
  BY <1>1 DEF vars, PostInv, Post
<1>2. ASSUME NEW p \in Procs, Start(p) \/ Step(p) \/ Abort(p) PROVE Post(e, c, q)'
  <2>1. Disciplined(p) /\ Post(e, c, p)
    BY <1>2, DisciplinedStep DEF PostInv
  <2>2. CASE q = p
    BY <2>1, <2>2, PostStep
  <2>3. CASE q # p
    BY <1>2, <2>1, <2>3, OthersUnchanged DEF Post, PostInv
  <2> QED BY <2>2, <2>3
<1> QED BY <1>1, <1>2 DEF Next

LEMMA SurvivalNext ==
    ASSUME NEW e, NEW c, Discipline(e, c)
    PROVE  /\ TypeOK /\ ReviewHasResult /\ PostInv(e, c) /\ SurvivalInv /\ [Next]_vars
           => SurvivalInv'
<1> SUFFICES ASSUME TypeOK, ReviewHasResult, PostInv(e, c), SurvivalInv, [Next]_vars
             PROVE  SurvivalInv'
  OBVIOUS
<1>1. CASE UNCHANGED vars
  BY <1>1 DEF vars, SurvivalInv, Faithful, Kept
<1>2. ASSUME NEW p \in Procs, Start(p) \/ Step(p) \/ Abort(p) PROVE SurvivalInv'
  <2>1. Disciplined(p) /\ Post(e, c, p) /\ Faithful(p)
    BY <1>2, DisciplinedStep DEF PostInv, SurvivalInv
  <2>2. ASSUME NEW q \in Procs PROVE Faithful(q)'
    BY <1>2, <2>1, FaithfulStep, OthersFaithful
  <2>3. ASSUME NEW f \in Files, f \notin inputs' \/ jobs'[f].output = "file" PROVE Kept(f)'
    <3>1. CASE Kept(f)
      <4>1. CASE Overwrites(p, f)
        <5>1. f \in inputs' /\ jobs'[f].output = "dir"
          BY <4>1 DEF Overwrites
        <5> QED BY <2>3, <5>1
      <4> QED BY <2>1, <3>1, <4>1, KeptStep
    <3>2. CASE ~ Kept(f)
      <4>1. f \in inputs /\ jobs[f].output # "file"
        BY <3>2 DEF SurvivalInv
      <4>2. f \in inputs'
        BY <2>1, <4>1, InputStep
      <4>3. dto[p].input = f /\ dto[p].output = "file" /\ pc[p] \in Holding
        BY <2>1, <2>3, <4>1, <4>2, ColumnStep DEF OutputColumn, Holding
      <4> QED BY <2>1, <3>2, <4>3 DEF Faithful
    <3> QED BY <3>1, <3>2
  <2>4. \A f \in Files : outs'[OutName[f]] \in Files => outs'[OutName[f]] = f
    BY <2>1, OwnStep DEF SurvivalInv
  <2> QED BY <2>2, <2>3, <2>4 DEF SurvivalInv
<1> QED BY <1>1, <1>2 DEF Next

\* With one encoder, one clerk who queues, reviews, cancels and approves, and
\* an output path for every file, what every recycled input was recycled for
\* stays at its output path unless the user of a review removes it - through
\* crashes, resets and forced approvals at any moment, and whatever ffmpeg
\* ends in: a short output that was taken for a result counts, a file that
\* cannot be read, another job's encode or a half overwritten one does not.
THEOREM SurvivesSound ==
    ASSUME NEW e, NEW c, Discipline(e, c)
    PROVE  Spec => []RecycledVideoSurvives
<1>1. Init => PostInv(e, c) /\ SurvivalInv
  BY QueueAssumption DEF Init, PostInv, Post, SurvivalInv, Faithful, Holding, NoRow
<1>2. Init => ReviewHasResult
  BY DEF Init, ReviewHasResult, WithStatus, NoRow
<1>3. SurvivalInv => RecycledVideoSurvives
  BY QueueAssumption DEF SurvivalInv, Kept, RecycledVideoSurvives
<1>4. /\ TypeOK /\ PostInv(e, c) /\ [Next]_vars => PostInv(e, c)'
      /\ TypeOK /\ ReviewHasResult /\ PostInv(e, c) /\ SurvivalInv /\ [Next]_vars
         => SurvivalInv'
  BY PostNext, SurvivalNext
<1> QED BY <1>1, <1>2, <1>3, <1>4, TypeInit, TypeNext, HeldInit, HeldNext, ReviewNext, PTL
      DEF Spec
=============================================================================
