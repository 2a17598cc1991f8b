---------------------------- MODULE ReviewSession ----------------------------
(***************************************************************************)
(* jobs review-jobs of ihb_encode: a background thread                     *)
(* (encoder.background_process_job) reads the largest jobs in review,      *)
(* probes their files and puts them into a priority queue; the main thread *)
(* (job_manager.review_results) takes the largest job from the queue, asks *)
(* the user, and saves the decision.  The prompt appears here by what it   *)
(* does to the job and to its files.                                       *)
(*                                                                         *)
(* Meanwhile other processes write job objects, force the status of rows   *)
(* and add or remove files, each in one step and whenever they like: which *)
(* objects and states they write are parameters, so that any command of    *)
(* ihb_encode is among them, a second review session too.                  *)
(***************************************************************************)
EXTENDS JobStore

CONSTANTS QueueMax,    \* maxsize of the PriorityQueue
          QueryLimit,  \* how many jobs a query returns
          Written,     \* the job objects other processes may write
          Forced,      \* the states they may force on a row
          FilesChange, \* they add outputs and remove inputs and outputs
          End,         \* the end marker None
          NoDto        \* the absence of a job object

ASSUME ReviewAssumption ==
    /\ QueueMax \in Nat \ {0}
    /\ QueryLimit \in Nat \ {0}
    /\ Written \subseteq Dto
    /\ Forced \subseteq {"PENDING", "COMPLETE"}
    /\ FilesChange \in BOOLEAN
    /\ {End, NoDto} \cap Dto = {}

VARIABLES inputs,     \* jobs whose input file exists
          outputs,    \* jobs whose output file exists
          bpc,        \* where the background thread stands
          batch,      \* job_list, what is left of it
          processed,  \* processed_jobs
          bdto,       \* the job the background thread is about to put
          queue,      \* job_queue
          main,       \* where the main thread stands, or how the session ended
          current,    \* review_job
          touched     \* jobs whose rows another process has changed, while
                      \* they were in review, since the session began (history)

fileVars == <<inputs, outputs>>
threadVars == <<bpc, batch, processed, bdto>>
vars == <<jobs, history, inputs, outputs, bpc, batch, processed, bdto, queue,
          main, current, touched>>

\* How a session ends: all reviewed, the user quits, the prompt refuses the
\* job, or the queue or the database raises.
Ended == {"idle", "all", "quit", "refused", "raised", "failed"}

\* Both files of a job are there, to be probed and shown.
Reviewable(f) == f \in inputs \cap outputs

\* Tables, queue and threads have the shapes below; the queue keeps to its
\* size, and a thread that is to handle a job has one.
TypeOK ==
    /\ StoreTypeOK
    /\ inputs \subseteq Files /\ outputs \subseteq Files
    /\ bpc \in {"none", "query", "each", "put", "end", "done", "dead", "lost"}
    /\ batch \subseteq Dto
    /\ processed \subseteq Files
    /\ bdto \in Dto \cup {NoDto}
    /\ bpc = "put" => bdto \in Dto
    /\ queue \subseteq Dto \cup {End}
    /\ Cardinality(queue) <= QueueMax
    /\ main \in Ended \cup {"get", "show", "ask", "save"}
    /\ current \in Dto \cup {NoDto}
    /\ main \in {"show", "ask", "save"} => current \in Dto
    /\ touched \subseteq Files

\* Every job is in review, with its two files, or pending.
Init ==
    /\ \E R \in SUBSET Files :
          /\ jobs = [f \in Files |->
                       [output |-> IF f \in R THEN "file" ELSE "dir",
                        sizeOut |-> IF f \in R THEN "small" ELSE "null",
                        status |-> IF f \in R THEN "REVIEW" ELSE "PENDING"]]
          /\ history = [f \in Files |->
                       [after |-> IF f \in R THEN "REVIEW" ELSE "PENDING",
                        notes |-> IF f \in R THEN {"validation"} ELSE {}]]
          /\ outputs = R
    /\ inputs = Files
    /\ bpc = "none" /\ batch = {} /\ processed = {} /\ bdto = NoDto
    /\ queue = {}
    /\ main = "idle" /\ current = NoDto /\ touched = {}

LargestDto(S) == {d \in S : \A e \in S : SizeIn[e.input] <= SizeIn[d.input]}

-----------------------------------------------------------------------------
(* review-jobs begins.                                                     *)

StartReview ==
    /\ main \in Ended
    /\ WithStatus("REVIEW") # {}
    /\ main' = "get" /\ current' = NoDto
    /\ bpc' = "query" /\ batch' = {} /\ processed' = {} /\ bdto' = NoDto
    /\ queue' = {} /\ touched' = {}
    /\ UNCHANGED <<storeVars, fileVars>>

\* The background thread is a daemon: it goes on only while the main thread
\* does.
Running == main \notin Ended

-----------------------------------------------------------------------------
(* The background thread.                                                  *)

\* get_next_job_by_status(REVIEW, limit): the largest jobs, any of them when
\* sizes are equal; none makes the thread send the end marker.
Query ==
    /\ Running /\ bpc = "query"
    /\ LET R == WithStatus("REVIEW")
       IN  \/ /\ R = {}
              /\ bpc' = "end"
              /\ UNCHANGED batch
           \/ /\ R # {}
              /\ \E S \in SUBSET R :
                    /\ S = R \/ Cardinality(S) = QueryLimit
                    /\ Cardinality(S) <= QueryLimit
                    /\ \A f \in S, g \in R \ S : SizeIn[g] <= SizeIn[f]
                    /\ batch' = {NextDto(f) : f \in S}
              /\ bpc' = "each"
    /\ UNCHANGED <<storeVars, fileVars, processed, bdto, queue, main, current, touched>>

\* sqlite raises in the query, which no try of the thread covers: the thread
\* is gone, and nobody is left to put anything into the queue.
QueryFails ==
    /\ Running /\ bpc = "query"
    /\ bpc' = "lost"
    /\ UNCHANGED <<storeVars, fileVars, batch, processed, bdto, queue, main, current, touched>>

\* Mutant: jobs offered before are offered again.
ProbeAgain(d) ==
    /\ Running /\ bpc = "each"
    /\ d \in LargestDto(batch)
    /\ batch' = batch \ {d}
    /\ processed' = processed \cup {d.input}
    /\ IF Reviewable(d.input) THEN bdto' = d /\ bpc' = "put"
                              ELSE UNCHANGED <<bdto, bpc>>
    /\ UNCHANGED <<storeVars, fileVars, queue, main, current, touched>>

\* A job is probed once in a session; when one of its files cannot be probed
\* the exception is logged and the job is not offered.
ProbeJob(d) ==
    /\ Running /\ bpc = "each"
    /\ d \in LargestDto(batch)
    /\ batch' = batch \ {d}
    /\ processed' = processed \cup {d.input}
    /\ IF d.input \notin processed /\ Reviewable(d.input)
       THEN bdto' = d /\ bpc' = "put"
       ELSE UNCHANGED <<bdto, bpc>>
    /\ UNCHANGED <<storeVars, fileVars, queue, main, current, touched>>

PutJob ==
    /\ Running /\ bpc = "put"
    /\ Cardinality(queue) < QueueMax
    /\ queue' = queue \cup {bdto}
    /\ bpc' = "each"
    /\ bdto' = NoDto
    /\ UNCHANGED <<storeVars, fileVars, batch, processed, main, current, touched>>

\* Mutant: the end of a batch is taken for the end of the jobs.
BatchIsAll ==
    /\ Running /\ bpc = "each"
    /\ batch = {}
    /\ bpc' = "end"
    /\ UNCHANGED <<storeVars, fileVars, batch, processed, bdto, queue, main, current, touched>>

\* The batch is through: sleep, and query again.
NextBatch ==
    /\ Running /\ bpc = "each"
    /\ batch = {}
    /\ bpc' = "query"
    /\ UNCHANGED <<storeVars, fileVars, batch, processed, bdto, queue, main, current, touched>>

\* Mutant: the thread ends without a word.
EndSilently ==
    /\ Running /\ bpc = "end"
    /\ Cardinality(queue) < QueueMax
    /\ bpc' = "done"
    /\ UNCHANGED <<storeVars, fileVars, batch, processed, bdto, queue, main, current, touched>>

\* put(None).  In a heap that holds jobs the marker cannot be compared: it
\* is left at the end of the heap and the thread dies of the TypeError.
PutEnd ==
    /\ Running /\ bpc = "end"
    /\ Cardinality(queue) < QueueMax
    /\ queue' = queue \cup {End}
    /\ bpc' = IF queue = {} THEN "done" ELSE "dead"
    /\ UNCHANGED <<storeVars, fileVars, batch, processed, bdto, main, current, touched>>

-----------------------------------------------------------------------------
(* The main thread.                                                        *)

\* Mutant: the end marker is not told from a job.
MarkerIsJob ==
    /\ main = "get"
    /\ \E d \in queue : current' = d /\ queue' = queue \ {d}
    /\ main' = "show"
    /\ UNCHANGED <<storeVars, fileVars, threadVars, touched>>

\* get() takes the largest job.  With the marker and two jobs or more in it
\* the heap cannot be put in order: the exception ends the session.
GetJob ==
    /\ main = "get"
    /\ \/ /\ End \notin queue \/ Cardinality(queue) = 2
          /\ \E d \in LargestDto(queue \ {End}) :
                /\ current' = d
                /\ queue' = queue \ {d}
          /\ main' = "show"
       \/ /\ End \in queue /\ Cardinality(queue) > 2
          /\ main' = "raised"
          /\ UNCHANGED <<queue, current>>
       \/ /\ queue = {End}
          /\ queue' = {}
          /\ main' = "all"
          /\ UNCHANGED current
    /\ UNCHANGED <<storeVars, fileVars, threadVars, touched>>

\* prompt_review_job returns False when a file is missing, as for a quit.
ShowJob ==
    /\ main = "show"
    /\ main' = IF Reviewable(current.input) THEN "ask" ELSE "refused"
    /\ UNCHANGED <<storeVars, fileVars, threadVars, queue, current, touched>>

Quit ==
    /\ main = "ask"
    /\ main' = "quit"
    /\ UNCHANGED <<storeVars, fileVars, threadVars, queue, current, touched>>

\* Option d: one of the two files is recycled, the job stays as it is.
DeleteFile ==
    /\ main = "ask"
    /\ \/ inputs' = inputs \ {current.input} /\ UNCHANGED outputs
       \/ outputs' = outputs \ {current.input} /\ UNCHANGED inputs
    /\ UNCHANGED <<storeVars, threadVars, queue, main, current, touched>>

\* Options a, r and x change the object.  As the last letter of an answer they
\* lead to the save; with another letter after them the question may be asked
\* again.
Approve(next) ==
    /\ main = "ask"
    /\ current' = [current EXCEPT !.status = "COMPLETE"]
    /\ main' = next
    /\ UNCHANGED <<storeVars, fileVars, threadVars, queue, touched>>

\* Option r: the output file is removed and the job queued again.
Reset(next) ==
    /\ main = "ask"
    /\ current' = [current EXCEPT !.status = "PENDING", !.output = "dir",
                                  !.sizeOut = "null"]
    /\ outputs' = outputs \ {current.input}
    /\ main' = next
    /\ UNCHANGED <<storeVars, inputs, threadVars, queue, touched>>

\* Option x: both files are recycled, as far as that succeeds.
Delete(next) ==
    /\ main = "ask"
    /\ current' = [current EXCEPT !.status = "DELETED"]
    /\ inputs' \in {inputs, inputs \ {current.input}}
    /\ outputs' \in {outputs, outputs \ {current.input}}
    /\ main' = next
    /\ UNCHANGED <<storeVars, threadVars, queue, touched>>

\* An error of the database is caught and ends the session.
SaveDecision ==
    /\ main = "save"
    /\ \/ UpsertJob(current) /\ main' = "get"
       \/ main' = "failed" /\ UNCHANGED storeVars
    /\ UNCHANGED <<fileVars, threadVars, queue, current, touched>>

-----------------------------------------------------------------------------
(* Other processes.  A transaction that changes several rows is here one   *)
(* step for each of them.                                                  *)

Touch(f) == touched' = IF jobs[f].status = "REVIEW" THEN touched \cup {f} ELSE touched

\* An encoder, bulk-approve, cancel-job, validate-job, process-dir, manual-job
\* or another review writes a job.
OtherUpserts(d) ==
    /\ UpsertJob(d)
    /\ Touch(d.input)
    /\ UNCHANGED <<fileVars, threadVars, queue, main, current>>

\* db reset-job and force-approve, and the rescue at the start of start-jobs.
OtherForces(f, s) ==
    /\ ForceStatus(f, s)
    /\ Touch(f)
    /\ UNCHANGED <<fileVars, threadVars, queue, main, current>>

OtherFiles(f) ==
    /\ FilesChange
    /\ inputs' \in {inputs, inputs \ {f}}
    /\ outputs' \in {outputs, outputs \ {f}, outputs \cup {f}}
    /\ UNCHANGED <<storeVars, threadVars, queue, main, current, touched>>

-----------------------------------------------------------------------------

Background ==
    \/ Query \/ QueryFails \/ PutJob \/ NextBatch \/ PutEnd
    \/ \E d \in batch : ProbeJob(d)

Main == GetJob \/ ShowJob \/ SaveDecision

\* The user's answers that end the prompt, and those that do not.
Answer == Quit \/ Approve("save") \/ Reset("save") \/ Delete("save")
AskAgain == DeleteFile \/ Approve("ask") \/ Reset("ask") \/ Delete("ask")

Other ==
    \/ \E d \in Written : OtherUpserts(d)
    \/ \E f \in Files : OtherFiles(f) \/ \E s \in Forced : OtherForces(f, s)

Next == StartReview \/ Background \/ Main \/ Answer \/ AskAgain \/ Other

Spec == Init /\ [][Next]_vars

\* Both threads are scheduled, and a user answers in the end.
FairSpec == /\ Spec
            /\ WF_vars(Background)
            /\ WF_vars(Main)
            /\ WF_vars(Answer)

-----------------------------------------------------------------------------
(* Properties.                                                             *)

\* A job is before the user, or on its way there, with one object at most.
OneObjectPerJob ==
    Running =>
        /\ \A d, e \in queue \ {End} : d.input = e.input => d = e
        /\ main \in {"show", "ask", "save"} =>
              \A d \in queue \ {End} : d.input # current.input
        /\ bpc = "put" => \A d \in queue \ {End} : d.input # bdto.input
        /\ bpc = "put" /\ main \in {"show", "ask", "save"} =>
              bdto.input # current.input

\* The user is shown the row as it is in the database, however long ago the
\* background thread has read it, and the decision overwrites a row that is
\* still in review.  It takes another process to decide on an object that is
\* no longer true: one that changed the row of that job while it was in review
\* and the session went on - by db reset-job, force-approve, bulk-approve,
\* cancel-job, validate-job, process-dir, an encoder's late save or another
\* review.  What the session does itself, jobs it sent back to the queue that
\* come back from an encoder, and changes of other rows never do.
DecisionIsCurrent ==
    main \in {"show", "ask", "save"} /\ current.input \notin touched =>
        /\ jobs[current.input].status = "REVIEW"
        /\ main = "show" => current = NextDto(current.input)

\* Unless another process changed a row in review during the session, the end
\* marker goes into an empty queue: no job is left behind it and neither
\* thread raises.
EndMarkerAlone ==
    touched = {} => /\ Running /\ End \in queue => queue = {End}
                    /\ main # "raised"

\* Where nobody else interferes, the session comes to its end, also with more
\* jobs than a query returns or the queue holds: the main thread does not wait
\* for ever for a job or an end marker that never comes.  When it says that
\* all jobs are reviewed, none is in review.  Two things make it wait for
\* ever: an error of the database in the background thread, which dies of it
\* in silence, and a job in review whose files cannot be probed, which is
\* neither offered nor forgotten.
SessionEnds ==
    main = "get" ~> \/ main \in {"quit", "refused", "failed"}
                    \/ main = "all" /\ WithStatus("REVIEW") = {}
                    \/ bpc = "lost"
                    \/ \E f \in WithStatus("REVIEW") : ~Reviewable(f)

\* review_results prints "User terminated review." whenever the prompt answers
\* False.  It would have to be the user who ended the review, never a prompt
\* that refuses a job because one of its files is missing.
TerminatedByUser == [][main' = "refused" => main = "refused"]_vars
=============================================================================
