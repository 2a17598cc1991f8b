------------------------ MODULE ReviewSessionProofs ------------------------
(***************************************************************************)
(* Theorems about ReviewSession, for any jobs, queue size and query limit. *)
(***************************************************************************)
EXTENDS ReviewSession, FiniteSetTheorems, TLAPS

\* upsert_job keeps the tables well formed.
LEMMA DtoStore ==
    ASSUME StoreTypeOK, NEW d \in Dto, UpsertJob(d)
    PROVE  StoreTypeOK'
BY DEF StoreTypeOK, UpsertJob, Dto, Row, HistoryRow

\* So does force_job_status.
LEMMA ForceStore ==
    ASSUME StoreTypeOK, NEW f \in Files, NEW s \in JobStatus, ForceStatus(f, s)
    PROVE  StoreTypeOK'
BY DEF StoreTypeOK, ForceStatus, Row

\* A row with a status is read as a well-formed object about its own job.
LEMMA NextDtoType ==
    ASSUME StoreTypeOK, NEW f \in Files, HasRow(f)
    PROVE  /\ NextDto(f) \in Dto /\ JobDto(f) \in Dto
           /\ NextDto(f).input = f /\ JobDto(f).input = f
<1>1. jobs[f] \in Row /\ jobs[f].status \in JobStatus
  BY DEF StoreTypeOK, HasRow, Row
<1>2. history[f].notes \in SUBSET NoteKey
  BY DEF StoreTypeOK, HistoryRow
<1> QED
  BY <1>1, <1>2 DEF NextDto, JobDto, RowDto, Row, Dto

\* What a decision puts into the fields of an object.
LEMMA StatusUpdate ==
    ASSUME NEW d \in Dto, NEW s \in JobStatus
    PROVE  /\ [d EXCEPT !.status = s] \in Dto
           /\ [d EXCEPT !.status = s].input = d.input
BY DEF Dto

LEMMA OutputUpdate ==
    ASSUME NEW d \in Dto, NEW s \in JobStatus, NEW o \in OutputKind, NEW z \in SizeOut
    PROVE  /\ [d EXCEPT !.status = s, !.output = o, !.sizeOut = z] \in Dto
           /\ [d EXCEPT !.status = s, !.output = o, !.sizeOut = z].input = d.input
BY DEF Dto

-----------------------------------------------------------------------------
(* Type correctness: inductive together with the finiteness of the queue.  *)

TypeInv == TypeOK /\ IsFiniteSet(queue)

LEMMA TypeInit == Init => TypeInv
<1> SUFFICES ASSUME Init PROVE TypeInv
  OBVIOUS
<1>1. StoreTypeOK
  BY DEF Init, StoreTypeOK, Row, HistoryRow, OutputKind, SizeOut, JobStatus, NoteKey
<1>2. IsFiniteSet(queue) /\ Cardinality(queue) <= QueueMax
  BY FS_EmptySet, ReviewAssumption DEF Init
<1> QED
  BY <1>1, <1>2 DEF Init, TypeInv, TypeOK, Ended

\* The queue after a put and after a get.
LEMMA QueueSize ==
    ASSUME IsFiniteSet(queue), Cardinality(queue) <= QueueMax, NEW x
    PROVE  /\ IsFiniteSet(queue \ {x}) /\ Cardinality(queue \ {x}) <= QueueMax
           /\ IsFiniteSet(queue \cup {x})
           /\ Cardinality(queue) < QueueMax => Cardinality(queue \cup {x}) <= QueueMax
<1>1. Cardinality(queue) \in Nat /\ QueueMax \in Nat
  BY FS_CardinalityType, ReviewAssumption
<1>2. IsFiniteSet(queue \ {x}) /\ IsFiniteSet(queue \cup {x})
  BY FS_RemoveElement, FS_AddElement
<1>3. Cardinality(queue \ {x}) \in {Cardinality(queue), Cardinality(queue) - 1}
  BY FS_RemoveElement
<1>4. Cardinality(queue \cup {x}) \in {Cardinality(queue), Cardinality(queue) + 1}
  BY FS_AddElement
<1> QED
  BY <1>1, <1>2, <1>3, <1>4

LEMMA TypeBackground == TypeInv /\ Background => TypeInv'
<1> SUFFICES ASSUME TypeInv, Background PROVE TypeInv'
  OBVIOUS
<1> USE DEF TypeInv, TypeOK, storeVars, fileVars, Running, Ended
<1>1. CASE Query
  <2>1. CASE bpc' = "end" /\ UNCHANGED batch
    BY <1>1, <2>1 DEF Query, StoreTypeOK
  <2>2. ASSUME NEW S \in SUBSET WithStatus("REVIEW"),
               batch' = {NextDto(f) : f \in S}, bpc' = "each"
        PROVE  TypeInv'
    <3>1. \A f \in S : NextDto(f) \in Dto
      BY NextDtoType DEF WithStatus, HasRow
    <3> QED
      BY <1>1, <2>2, <3>1 DEF Query, StoreTypeOK
  <2> QED
    BY <1>1, <2>1, <2>2 DEF Query
<1>2. CASE PutJob
  BY <1>2, QueueSize DEF PutJob, StoreTypeOK
<1>3. CASE NextBatch
  BY <1>3 DEF NextBatch, StoreTypeOK
<1>4. CASE PutEnd
  BY <1>4, QueueSize DEF PutEnd, StoreTypeOK
<1>5. ASSUME NEW d \in batch, ProbeJob(d) PROVE TypeInv'
  <2>1. d.input \in Files
    BY DEF Dto
  <2> QED
    BY <1>5, <2>1 DEF ProbeJob, StoreTypeOK
<1>6. CASE QueryFails
  BY <1>6 DEF QueryFails, StoreTypeOK
<1> QED
  BY <1>1, <1>2, <1>3, <1>4, <1>5, <1>6 DEF Background

LEMMA TypeMain == TypeInv /\ (Main \/ Answer \/ AskAgain \/ StartReview) => TypeInv'
<1> SUFFICES ASSUME TypeInv, Main \/ Answer \/ AskAgain \/ StartReview PROVE TypeInv'
  OBVIOUS
<1> USE DEF TypeInv, TypeOK, storeVars, fileVars, threadVars, Ended
<1>1. CASE GetJob
  <2>1. ASSUME NEW d \in LargestDto(queue \ {End}), current' = d,
               queue' = queue \ {d}, main' = "show"
        PROVE  TypeInv'
    <3>1. d \in Dto
      BY DEF LargestDto
    <3> QED
      BY <1>1, <2>1, <3>1, QueueSize DEF GetJob, StoreTypeOK
  <2>2. CASE main' = "raised" /\ UNCHANGED <<queue, current>>
    BY <1>1, <2>2 DEF GetJob, StoreTypeOK
  <2>3. CASE queue' = {} /\ main' = "all" /\ UNCHANGED current
    <3>1. IsFiniteSet(queue') /\ Cardinality(queue') <= QueueMax
      BY <2>3, FS_EmptySet, ReviewAssumption
    <3> QED
      BY <1>1, <2>3, <3>1 DEF GetJob, StoreTypeOK
  <2> QED
    BY <1>1, <2>1, <2>2, <2>3 DEF GetJob
<1>2. CASE ShowJob
  BY <1>2 DEF ShowJob, StoreTypeOK
<1>3. CASE SaveDecision
  <2>1. StoreTypeOK'
    BY <1>3, DtoStore DEF SaveDecision, StoreTypeOK
  <2> QED
    BY <1>3, <2>1 DEF SaveDecision
<1>4. CASE Quit
  BY <1>4 DEF Quit, StoreTypeOK
<1>5. ASSUME NEW l \in {"ask", "save"}, Approve(l) PROVE TypeInv'
  BY <1>5, StatusUpdate DEF Approve, StoreTypeOK, JobStatus
<1>6. ASSUME NEW l \in {"ask", "save"}, Reset(l) PROVE TypeInv'
  BY <1>6, OutputUpdate DEF Reset, StoreTypeOK, JobStatus, OutputKind, SizeOut
<1>7. ASSUME NEW l \in {"ask", "save"}, Delete(l) PROVE TypeInv'
  BY <1>7, StatusUpdate DEF Delete, StoreTypeOK, JobStatus
<1>8. CASE DeleteFile
  BY <1>8 DEF DeleteFile, StoreTypeOK
<1>9. CASE StartReview
  <2>1. IsFiniteSet(queue') /\ Cardinality(queue') <= QueueMax
    BY <1>9, FS_EmptySet, ReviewAssumption DEF StartReview
  <2> QED
    BY <1>9, <2>1 DEF StartReview, StoreTypeOK
<1> QED
  BY <1>1, <1>2, <1>3, <1>4, <1>5, <1>6, <1>7, <1>8, <1>9 DEF Main, Answer, AskAgain

\* Another process writes well-formed rows and leaves the session alone.
LEMMA OtherEffect ==
    ASSUME TypeInv, Other
    PROVE  /\ StoreTypeOK'
           /\ UNCHANGED <<threadVars, queue, main, current>>
           /\ touched \subseteq touched' /\ touched' \subseteq Files
           /\ inputs' \subseteq Files /\ outputs' \subseteq Files
<1> USE ReviewAssumption DEF TypeInv, TypeOK
<1>1. ASSUME NEW d \in Written, OtherUpserts(d) PROVE StoreTypeOK'
  BY <1>1, DtoStore DEF OtherUpserts
<1>2. ASSUME NEW f \in Files, NEW s \in Forced, OtherForces(f, s) PROVE StoreTypeOK'
  BY <1>2, ForceStore DEF OtherForces, JobStatus
<1>3. ASSUME NEW f \in Files, OtherFiles(f) PROVE StoreTypeOK'
  BY <1>3 DEF OtherFiles, StoreTypeOK, storeVars
<1>4. \A d \in Written : d.input \in Files
  BY DEF Dto
<1> QED
  BY <1>1, <1>2, <1>3, <1>4 DEF Other, OtherUpserts, OtherForces, OtherFiles, Touch, fileVars

LEMMA TypeStep == TypeInv /\ [Next]_vars => TypeInv'
<1>1. TypeInv /\ Other => TypeInv'
  BY OtherEffect DEF TypeInv, TypeOK, threadVars
<1>2. TypeInv /\ UNCHANGED vars => TypeInv'
  BY DEF TypeInv, TypeOK, StoreTypeOK, vars
<1> QED
  BY <1>1, <1>2, TypeBackground, TypeMain DEF Next

\* In every session of review-jobs the tables, the queue and the threads are
\* well formed, and the priority queue keeps to its size.
THEOREM SessionTypeCorrect == Spec => []TypeOK
<1>1. TypeInv => TypeOK
  BY DEF TypeInv
<1> QED
  BY TypeInit, TypeStep, <1>1, PTL DEF Spec

-----------------------------------------------------------------------------
(* One object per job: every object on its way to the user was marked in   *)
(* processed when it was probed.                                           *)

Shown == main \in {"show", "ask", "save"}

OneInv ==
    Running =>
        /\ \A d \in queue \ {End} : d.input \in processed
        /\ bpc = "put" => bdto.input \in processed
        /\ Shown => current.input \in processed
        /\ OneObjectPerJob

\* A decision is about the job that was asked about.
LEMMA Decided ==
    ASSUME TypeInv, NEW l \in {"ask", "save"}, Approve(l) \/ Reset(l) \/ Delete(l)
    PROVE  /\ main = "ask" /\ main' = l /\ current'.input = current.input
           /\ UNCHANGED <<storeVars, threadVars, queue, touched>>
<1>1. main = "ask" /\ current \in Dto
  BY DEF Approve, Reset, Delete, TypeInv, TypeOK
<1>2. CASE Approve(l) \/ Delete(l)
  <2>1. PICK t \in JobStatus : current' = [current EXCEPT !.status = t]
    BY <1>2 DEF Approve, Delete, JobStatus
  <2>2. current'.input = current.input
    BY <1>1, <2>1, StatusUpdate
  <2> QED BY <1>1, <1>2, <2>2 DEF Approve, Delete
<1>3. CASE Reset(l)
  <2>1. current'.input = current.input
    BY <1>1, <1>3, OutputUpdate DEF Reset, JobStatus, OutputKind, SizeOut
  <2> QED BY <1>1, <1>3, <2>1 DEF Reset
<1> QED BY <1>2, <1>3

LEMMA OneBackground == TypeInv /\ OneInv /\ Background => OneInv'
<1> SUFFICES ASSUME TypeInv, OneInv, Background PROVE OneInv'
  OBVIOUS
<1> USE DEF OneInv, OneObjectPerJob, Shown, Running, Ended
<1>1. CASE Query
  BY <1>1 DEF Query
<1>2. CASE PutJob
  BY <1>2 DEF PutJob
<1>3. CASE NextBatch
  BY <1>3 DEF NextBatch
<1>4. CASE PutEnd
  BY <1>4 DEF PutEnd
<1>5. ASSUME NEW d \in batch, ProbeJob(d) PROVE OneInv'
  BY <1>5 DEF ProbeJob
<1>6. CASE QueryFails
  BY <1>6 DEF QueryFails
<1> QED
  BY <1>1, <1>2, <1>3, <1>4, <1>5, <1>6 DEF Background

LEMMA OneMain ==
    TypeInv /\ OneInv /\ (Main \/ Answer \/ AskAgain \/ StartReview) => OneInv'
<1> SUFFICES ASSUME TypeInv, OneInv, Main \/ Answer \/ AskAgain \/ StartReview
             PROVE  OneInv'
  OBVIOUS
<1> USE DEF OneInv, OneObjectPerJob, Shown, Running, Ended, threadVars
<1>1. CASE GetJob
  <2>1. ASSUME NEW d \in LargestDto(queue \ {End}), current' = d,
               queue' = queue \ {d}, main' = "show"
        PROVE  OneInv'
    BY <1>1, <2>1 DEF GetJob, LargestDto
  <2> QED
    BY <1>1, <2>1 DEF GetJob
<1>2. CASE ShowJob
  BY <1>2 DEF ShowJob
<1>3. CASE SaveDecision
  BY <1>3 DEF SaveDecision
<1>4. CASE Quit
  BY <1>4 DEF Quit
<1>5. ASSUME main = "ask", main' \in {"ask", "save"}, current'.input = current.input,
             UNCHANGED <<threadVars, queue>>
      PROVE  OneInv'
  BY <1>5
<1>6. ASSUME NEW l \in {"ask", "save"}, Approve(l) \/ Reset(l) \/ Delete(l) PROVE OneInv'
  BY <1>5, <1>6, Decided
<1>7. CASE DeleteFile
  BY <1>7 DEF DeleteFile
<1>8. CASE StartReview
  BY <1>8 DEF StartReview
<1> QED
  BY <1>1, <1>2, <1>3, <1>4, <1>6, <1>7, <1>8 DEF Main, Answer, AskAgain

LEMMA OneStep == TypeInv /\ OneInv /\ [Next]_vars => OneInv'
<1>1. TypeInv /\ OneInv /\ Other => OneInv'
  BY OtherEffect DEF OneInv, OneObjectPerJob, Shown, Running, Ended, threadVars
<1>2. OneInv /\ UNCHANGED vars => OneInv'
  BY DEF OneInv, OneObjectPerJob, Shown, Running, Ended, vars
<1> QED
  BY <1>1, <1>2, OneBackground, OneMain DEF Next

\* Whatever other processes do to the rows and the files, also when a job
\* returns to review during the session, the user is never asked twice about
\* one job from two objects of one session.
THEOREM OneObjectSound == Spec => []OneObjectPerJob
<1>1. Init => OneInv
  BY DEF Init, OneInv, Running, Ended
<1>2. OneInv => OneObjectPerJob
  BY DEF OneInv, OneObjectPerJob
<1> QED
  BY TypeInit, TypeStep, OneStep, <1>1, <1>2, PTL DEF Spec

-----------------------------------------------------------------------------
(* Decisions are about current rows, and the end marker comes last, as far *)
(* as nobody else changes rows in review: the user changes the row of the  *)
(* current job only.                                                       *)

Fresh(d) == /\ jobs[d.input].status = "REVIEW"
            /\ d = NextDto(d.input)

FreshInv ==
    Running =>
        /\ \A d \in queue \ {End} : d.input \notin touched => Fresh(d)
        /\ bpc = "put" /\ bdto.input \notin touched => Fresh(bdto)
        /\ \A d \in batch : d.input \notin processed \cup touched => Fresh(d)
        /\ main = "show" /\ current.input \notin touched => Fresh(current)
        /\ main \in {"ask", "save"} /\ current.input \notin touched =>
              jobs[current.input].status = "REVIEW"

\* With nothing in review when the thread last asked, nothing was queued.
EndInv ==
    touched = {} =>
        /\ main # "raised"
        /\ Running =>
              /\ bpc # "dead"
              /\ bpc = "end" => queue = {}
              /\ bpc = "done" => queue \subseteq {End}
              /\ bpc # "done" => End \notin queue

\* A change of one row leaves the objects of other jobs fresh.
LEMMA UpsertKeepsFresh ==
    ASSUME StoreTypeOK, NEW d \in Dto, NEW e \in Dto, UpsertJob(e),
           Fresh(d), d.input # e.input
    PROVE  Fresh(d)'
BY DEF Fresh, UpsertJob, StoreTypeOK, NextDto, RowDto, Dto

\* What other processes do to rows that are not in review leaves the objects
\* of this session fresh.
LEMMA OthersKeepFresh ==
    ASSUME TypeInv, Other, NEW d \in Dto, d.input \notin touched'
    PROVE  /\ Fresh(d) => Fresh(d)'
           /\ jobs[d.input].status = "REVIEW" => jobs'[d.input].status = "REVIEW"
<1> USE DEF TypeInv, TypeOK
<1> SUFFICES ASSUME jobs[d.input].status = "REVIEW"
             PROVE  /\ Fresh(d) => Fresh(d)'
                    /\ jobs'[d.input].status = "REVIEW"
  BY DEF Fresh
<1>1. d.input \in Files
  BY DEF Dto
<1>2. ASSUME NEW e \in Written, OtherUpserts(e)
      PROVE  jobs'[d.input] = jobs[d.input] /\ history'[d.input] = history[d.input]
  <2>1. d.input # e.input
    BY <1>2 DEF OtherUpserts, Touch
  <2>2. e \in Dto
    BY ReviewAssumption
  <2> QED
    BY <1>1, <1>2, <2>1, <2>2 DEF OtherUpserts, UpsertJob, StoreTypeOK
<1>3. ASSUME NEW f \in Files, NEW s \in Forced, OtherForces(f, s)
      PROVE  jobs'[d.input] = jobs[d.input] /\ history'[d.input] = history[d.input]
  <2>1. d.input # f
    BY <1>3 DEF OtherForces, Touch
  <2> QED
    BY <1>1, <1>3, <2>1 DEF OtherForces, ForceStatus, StoreTypeOK
<1>4. jobs'[d.input] = jobs[d.input] /\ history'[d.input] = history[d.input]
  BY <1>2, <1>3 DEF Other, OtherFiles, storeVars
<1> QED
  BY <1>4 DEF Fresh, NextDto, RowDto

\* An object read from a row in review is fresh.
LEMMA ReadIsFresh ==
    ASSUME StoreTypeOK, NEW f \in WithStatus("REVIEW")
    PROVE  Fresh(NextDto(f)) /\ NextDto(f).input = f
BY NextDtoType DEF Fresh, WithStatus, HasRow

LEMMA FreshBackground == TypeInv /\ FreshInv /\ Background => FreshInv'
<1> SUFFICES ASSUME TypeInv, FreshInv, Background PROVE FreshInv'
  OBVIOUS
<1>0. Running
  BY DEF Background, Query, QueryFails, PutJob, NextBatch, PutEnd, ProbeJob
<1>1. \A d : UNCHANGED jobs /\ UNCHANGED history => (Fresh(d) <=> Fresh(d)')
  BY DEF Fresh, NextDto, RowDto
<1> USE DEF FreshInv, Running, Ended, storeVars
<1>2. CASE Query
  <2>1. CASE UNCHANGED batch
    BY <1>0, <1>1, <1>2, <2>1 DEF Query
  <2>2. ASSUME NEW S \in SUBSET WithStatus("REVIEW"), batch' = {NextDto(f) : f \in S}
        PROVE  FreshInv'
    <3>1. \A d \in batch' : Fresh(d)
      BY <2>2, ReadIsFresh DEF TypeInv, TypeOK
    <3> QED
      BY <1>0, <1>1, <1>2, <3>1 DEF Query
  <2> QED
    BY <1>2, <2>1, <2>2 DEF Query
<1>3. CASE PutJob
  BY <1>0, <1>1, <1>3 DEF PutJob
<1>4. CASE NextBatch
  BY <1>0, <1>1, <1>4 DEF NextBatch
<1>5. CASE PutEnd
  BY <1>0, <1>1, <1>5 DEF PutEnd
<1>6. ASSUME NEW d \in batch, ProbeJob(d) PROVE FreshInv'
  BY <1>0, <1>1, <1>6 DEF ProbeJob
<1>7. CASE QueryFails
  BY <1>0, <1>1, <1>7 DEF QueryFails
<1> QED
  BY <1>2, <1>3, <1>4, <1>5, <1>6, <1>7 DEF Background

LEMMA FreshMain ==
    TypeInv /\ OneInv /\ FreshInv /\ (Main \/ Answer \/ AskAgain \/ StartReview)
        => FreshInv'
<1> SUFFICES ASSUME TypeInv, OneInv, FreshInv,
                    Main \/ Answer \/ AskAgain \/ StartReview
             PROVE  FreshInv'
  OBVIOUS
<1>0. \A d : UNCHANGED jobs /\ UNCHANGED history => (Fresh(d) <=> Fresh(d)')
  BY DEF Fresh, NextDto, RowDto
<1> USE DEF FreshInv, Running, Ended, storeVars, threadVars
<1>1. CASE GetJob
  <2>1. CASE main' = "show"
    <3>1. PICK d \in LargestDto(queue \ {End}) : current' = d /\ queue' = queue \ {d}
      BY <1>1, <2>1 DEF GetJob
    <3>2. d \in queue \ {End}
      BY DEF LargestDto
    <3> QED
      BY <1>0, <1>1, <2>1, <3>1, <3>2 DEF GetJob
  <2> QED
    BY <1>1, <2>1 DEF GetJob
<1>2. CASE ShowJob
  <2>1. current.input \notin touched => jobs[current.input].status = "REVIEW"
    BY <1>2 DEF ShowJob, Fresh
  <2> QED BY <1>0, <1>2, <2>1 DEF ShowJob
<1>3. CASE SaveDecision
  <2>1. CASE UpsertJob(current) /\ main' = "get"
    <3>1. main = "save" /\ current \in Dto
      BY <1>3 DEF SaveDecision, TypeInv, TypeOK
    <3>2. \A d \in Dto : Fresh(d) /\ d.input # current.input => Fresh(d)'
      BY <2>1, <3>1, UpsertKeepsFresh DEF TypeInv, TypeOK
    <3>3. /\ \A d \in queue \ {End} : d \in Dto /\ d.input # current.input
          /\ bpc = "put" => bdto \in Dto /\ bdto.input # current.input
          /\ current.input \in processed
      BY <3>1 DEF OneInv, Shown, OneObjectPerJob, TypeInv, TypeOK
    <3>4. batch \subseteq Dto
      BY DEF TypeInv, TypeOK
    <3> QED
      BY <1>3, <2>1, <3>1, <3>2, <3>3, <3>4 DEF SaveDecision
  <2>2. CASE main' = "failed"
    BY <2>2
  <2> QED
    BY <1>3, <2>1, <2>2 DEF SaveDecision
<1>4. CASE Quit
  BY <1>4 DEF Quit
<1>5. ASSUME NEW l \in {"ask", "save"}, Approve(l) \/ Reset(l) \/ Delete(l)
      PROVE  FreshInv'
  <2>1. /\ main = "ask" /\ main' = l /\ current'.input = current.input
        /\ UNCHANGED <<storeVars, threadVars, queue, touched>>
    BY <1>5, Decided
  <2> QED BY <1>0, <2>1
<1>8. CASE DeleteFile
  BY <1>0, <1>8 DEF DeleteFile
<1>9. CASE StartReview
  BY <1>9 DEF StartReview
<1> QED
  BY <1>1, <1>2, <1>3, <1>4, <1>5, <1>8, <1>9 DEF Main, Answer, AskAgain

LEMMA FreshStep == TypeInv /\ OneInv /\ FreshInv /\ [Next]_vars => FreshInv'
<1>1. ASSUME TypeInv, FreshInv, Other PROVE FreshInv'
  <2>1. /\ UNCHANGED <<bpc, batch, processed, bdto, queue, main, current>>
        /\ touched \subseteq touched'
    BY <1>1, OtherEffect DEF threadVars
  <2>2. \A d \in Dto : d.input \notin touched' =>
            /\ Fresh(d) => Fresh(d)'
            /\ jobs[d.input].status = "REVIEW" => jobs'[d.input].status = "REVIEW"
    BY <1>1, OthersKeepFresh
  <2>3. /\ queue \ {End} \subseteq Dto /\ batch \subseteq Dto
        /\ bpc = "put" => bdto \in Dto
        /\ main \in {"show", "ask", "save"} => current \in Dto
    BY <1>1 DEF TypeInv, TypeOK
  <2> QED
    BY <1>1, <2>1, <2>2, <2>3 DEF FreshInv, Running, Ended
<1>2. FreshInv /\ UNCHANGED vars => FreshInv'
  BY DEF FreshInv, Fresh, NextDto, RowDto, Running, Ended, vars
<1> QED
  BY <1>1, <1>2, FreshBackground, FreshMain DEF Next

LEMMA EndStep == TypeInv /\ FreshInv /\ EndInv /\ [Next]_vars => EndInv'
<1> SUFFICES ASSUME TypeInv, FreshInv, EndInv, [Next]_vars, touched' = {}
             PROVE  EndInv'
  BY DEF EndInv
<1>0. touched = {} \/ StartReview
  BY OtherEffect DEF Next, Background, Query, QueryFails, PutJob, NextBatch, PutEnd,
     ProbeJob, Main, GetJob, ShowJob, SaveDecision, Answer, AskAgain, Quit, Approve,
     Reset, Delete, DeleteFile, vars
<1> USE DEF EndInv, Running, Ended, threadVars
<1>1. CASE Background
  <2>1. CASE Query
    <3>1. WithStatus("REVIEW") = {} => queue = {}
      <4> SUFFICES ASSUME NEW d \in queue \ {End} PROVE WithStatus("REVIEW") # {}
        BY <1>0, <2>1 DEF Query
      <4> QED
        BY <1>0, <2>1 DEF Query, FreshInv, Fresh, WithStatus, TypeInv, TypeOK, Dto
    <3> QED
      BY <1>0, <2>1, <3>1 DEF Query
  <2>2. CASE PutJob
    <3>1. bdto # End
      BY <2>2, ReviewAssumption DEF PutJob, TypeInv, TypeOK
    <3> QED
      BY <1>0, <2>2, <3>1 DEF PutJob
  <2>3. CASE NextBatch
    BY <1>0, <2>3 DEF NextBatch
  <2>4. CASE PutEnd
    BY <1>0, <2>4 DEF PutEnd
  <2>5. ASSUME NEW d \in batch, ProbeJob(d) PROVE EndInv'
    BY <1>0, <2>5 DEF ProbeJob
  <2>6. CASE QueryFails
    BY <1>0, <2>6 DEF QueryFails
  <2> QED
    BY <1>0, <1>1, <2>1, <2>2, <2>3, <2>4, <2>5, <2>6 DEF Background
<1>2. CASE GetJob
  <2>1. End \in queue => queue = {End}
    BY <1>0, <1>2 DEF GetJob
  <2>2. Cardinality({End}) = 1
    BY FS_Singleton
  <2>3. main' # "raised"
    BY <1>0, <1>2, <2>1, <2>2 DEF GetJob
  <2>4. CASE main' = "show"
    BY <1>0, <1>2, <2>4 DEF GetJob, LargestDto
  <2> QED
    BY <1>0, <1>2, <2>3, <2>4 DEF GetJob
<1>3. CASE ShowJob \/ SaveDecision \/ Answer \/ AskAgain
  BY <1>0, <1>3
  DEF ShowJob, SaveDecision, Answer, AskAgain, Quit, Approve, Reset, Delete, DeleteFile
<1>4. CASE StartReview
  BY <1>0, <1>4 DEF StartReview
<1>5. CASE Other
  BY <1>0, <1>5, OtherEffect
<1>6. CASE UNCHANGED vars
  BY <1>0, <1>6 DEF vars
<1> QED
  BY <1>1, <1>2, <1>3, <1>4, <1>5, <1>6 DEF Next, Main

LEMMA SessionInit == Init => OneInv /\ FreshInv /\ EndInv
BY DEF Init, OneInv, FreshInv, EndInv, Running, Ended

\* What is shown to the user and what the decision overwrites is the row in
\* the database, although the object was read by another thread any number of
\* decisions ago - whatever objects and states other processes write, and
\* whatever files come and go, unless they changed the row of this very job
\* while it was in review.
THEOREM DecisionSound == Spec => []DecisionIsCurrent
<1>1. FreshInv => DecisionIsCurrent
  BY DEF FreshInv, DecisionIsCurrent, Fresh, Running, Ended
<1> QED
  BY TypeInit, SessionInit, TypeStep, OneStep, FreshStep, <1>1, PTL DEF Spec

\* Unless other processes changed rows in review, put(None) meets an empty heap:
\* neither thread raises and no job is left behind the marker.
THEOREM EndMarkerSound == Spec => []EndMarkerAlone
<1>1. EndInv => EndMarkerAlone
  BY DEF EndInv, EndMarkerAlone
<1> QED
  BY TypeInit, SessionInit, TypeStep, OneStep, FreshStep, EndStep, <1>1, PTL DEF Spec
=============================================================================
