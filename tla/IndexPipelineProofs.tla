------------------------ MODULE IndexPipelineProofs ------------------------
(***************************************************************************)
(* Proofs about IndexPipeline, for any finite set of files, any number of  *)
(* workers, and any capacity of the queue and of a batch.                  *)
(***************************************************************************)
EXTENDS IndexPipeline, FiniteSetTheorems, TLAPS

USE PipelineAssumption

-----------------------------------------------------------------------------
(* Type correctness.                                                       *)

\* The writer thread is started when the ghosts are deleted; while it may
\* still take a record, its batch has room for one.
BatchHasRoom ==
    /\ main \in {"idle", "ghosts"} => writer = "none"
    /\ writer \in {"none", "check", "empty", "get"} => Cardinality(cache) < CacheMax

TypeInv == TypeOK /\ BatchHasRoom

\* A set of files is finite, and a file more or less changes its size by at
\* most one.
LEMMA FileCount ==
    ASSUME NEW S \in SUBSET Files
    PROVE  /\ IsFiniteSet(S)
           /\ Cardinality(S) \in Nat
           /\ \A f : Cardinality(S \cup {f}) <= Cardinality(S) + 1
           /\ \A T \in SUBSET S : Cardinality(T) <= Cardinality(S)
           /\ Cardinality({}) = 0
<1>1. IsFiniteSet(S)
  BY FS_Subset
<1>2. Cardinality(S) \in Nat
  BY <1>1, FS_CardinalityType
<1>3. ASSUME NEW f PROVE Cardinality(S \cup {f}) <= Cardinality(S) + 1
  BY <1>1, <1>2, FS_AddElement
<1>4. ASSUME NEW T \in SUBSET S PROVE Cardinality(T) <= Cardinality(S)
  BY <1>1, FS_Subset
<1>. QED
  BY <1>1, <1>2, <1>3, <1>4, FS_EmptySet

LEMMA TypeStep ==
    ASSUME TypeInv, [Next]_vars
    PROVE  TypeInv'
<1>. USE DEF TypeInv, TypeOK, CapacityOK, BatchHasRoom, InWork, MainLabel, WriterLabel
<1>0. /\ Cardinality(hashing \cup putting) \in Nat
      /\ Cardinality(queue) \in Nat
      /\ Cardinality(cache) \in Nat
      /\ Cardinality({}) = 0
  BY FileCount
<1>1. CASE StartRun
  BY <1>1 DEF StartRun, walkVars, workVars, resultVars, writerVars
<1>2. ASSUME NEW f \in Files, CheckRecord(f) PROVE TypeInv'
  BY <1>2 DEF CheckRecord, diskVars, workVars, resultVars, writerVars
<1>3. ASSUME NEW f \in Files, Visit(f) PROVE TypeInv'
  BY <1>3 DEF Visit, diskVars, ghostVars, resultVars, writerVars
<1>4. CASE DeleteGhosts
  BY <1>4 DEF DeleteGhosts, diskVars, ghostVars, workVars, resultVars
<1>5. CASE EndWalk \/ Shutdown \/ Join \/ Interrupt \/ Unwind
  BY <1>5 DEF EndWalk, Shutdown, Join, Interrupt, Unwind, diskVars, ghostVars,
              walkVars, workVars, resultVars, writerVars
<1>6. CASE SetStop
  BY <1>6 DEF SetStop, diskVars, ghostVars, walkVars, workVars, resultVars
<1>7. CASE Clear
  <2>1. /\ hashing' \cup putting' = {}
        /\ queue' = {}
        /\ cache' = {}
    BY <1>7 DEF Clear
  <2>2. /\ Cardinality(hashing' \cup putting') = 0
        /\ Cardinality(queue') = 0
        /\ Cardinality(cache') = 0
    BY <2>1, <1>0, Zenon
  <2>3. CapacityOK' /\ (Cardinality(cache) < CacheMax)'
    BY <2>2 DEF CapacityOK
  <2>4. /\ (disk \cup moved \cup db \subseteq Files)'
        /\ (records \cup ghosts \cup existing \cup unseen \subseteq Files)'
        /\ (InWork \cup queue \cup cache \cup done \cup failed \subseteq Files)'
        /\ main' = "idle" /\ writer' = "none" /\ stopEvent' \in BOOLEAN
    BY <1>7 DEF Clear, diskVars
  <2>5. main' \in MainLabel /\ writer' \in WriterLabel
    BY <2>4
  <2>. QED
    BY <2>3, <2>4, <2>5, Zenon DEF TypeInv, TypeOK, BatchHasRoom
<1>8. ASSUME NEW f \in Files, TakeJob(f) PROVE TypeInv'
  <2>1. hashing' \cup putting' = (hashing \cup putting) \cup {f}
    BY <1>8 DEF TakeJob
  <2>2. Cardinality(hashing' \cup putting') <= MaxWorkers
    <3>1. Cardinality((hashing \cup putting) \cup {f}) <= Cardinality(hashing \cup putting) + 1
      BY FileCount
    <3>2. (hashing \cup putting) \cup {f} \in SUBSET Files
      OBVIOUS
    <3>3. Cardinality((hashing \cup putting) \cup {f}) \in Nat
      BY <3>2, FileCount
    <3>4. Cardinality((hashing \cup putting) \cup {f}) <= MaxWorkers
      BY <1>8, <1>0, <3>1, <3>3 DEF TakeJob
    <3>. QED
      BY <2>1, <3>4, Zenon
  <2>. QED
    BY <1>8, <2>2 DEF TakeJob, diskVars, ghostVars, walkVars, resultVars, writerVars
<1>9. ASSUME NEW f \in Files, HashFile(f) PROVE TypeInv'
  <2>1. hashing' \cup putting' = hashing \cup putting
    BY <1>9 DEF HashFile
  <2>. QED
    BY <1>9, <2>1 DEF HashFile, diskVars, ghostVars, walkVars, resultVars, writerVars
<1>10. ASSUME NEW f \in Files, HashFails(f) PROVE TypeInv'
  <2>1. hashing' \cup putting' \subseteq hashing \cup putting
    BY <1>10 DEF HashFails
  <2>2. Cardinality(hashing' \cup putting') <= MaxWorkers
    <3>1. Cardinality(hashing' \cup putting') \in Nat
      BY <2>1, FileCount
    <3>2. Cardinality(hashing' \cup putting') <= Cardinality(hashing \cup putting)
      BY <2>1, FileCount
    <3>. QED
      BY <3>1, <3>2, <1>0
  <2>. QED
    BY <1>10, <2>2 DEF HashFails, diskVars, ghostVars, walkVars, writerVars
<1>11. ASSUME NEW f \in Files, PutRecord(f) PROVE TypeInv'
  <2>1. hashing' \cup putting' \subseteq hashing \cup putting
    BY <1>11 DEF PutRecord
  <2>2. Cardinality(hashing' \cup putting') <= MaxWorkers
    <3>1. Cardinality(hashing' \cup putting') \in Nat
      BY <2>1, FileCount
    <3>2. Cardinality(hashing' \cup putting') <= Cardinality(hashing \cup putting)
      BY <2>1, FileCount
    <3>. QED
      BY <3>1, <3>2, <1>0
  <2>3. Cardinality(queue') <= QueueMax
    <3>1. Cardinality(queue \cup {f}) <= Cardinality(queue) + 1
      BY FileCount
    <3>2. queue' \in SUBSET Files
      BY <1>11 DEF PutRecord
    <3>3. Cardinality(queue') \in Nat
      BY <3>2, FileCount
    <3>. QED
      BY <1>11, <1>0, <3>1, <3>3 DEF PutRecord
  <2>. QED
    BY <1>11, <2>2, <2>3 DEF PutRecord, diskVars, ghostVars, walkVars, writerVars
<1>12. CASE CheckStop \/ CheckEmpty
  BY <1>12 DEF CheckStop, CheckEmpty, WriterAt, diskVars, ghostVars, walkVars,
               workVars, resultVars
<1>13. CASE GetRecord
  <2>1. ASSUME NEW f \in queue, queue' = queue \ {f}, cache' = cache \cup {f},
               writer' = IF Cardinality(cache') >= CacheMax THEN "write" ELSE "check"
        PROVE  TypeInv'
    <3>1. Cardinality(queue') <= Cardinality(queue) /\ Cardinality(queue') \in Nat
      BY <2>1, FileCount
    <3>2. Cardinality(cache') <= Cardinality(cache) + 1
      BY <2>1, FileCount
    <3>3. cache' \in SUBSET Files
      BY <2>1
    <3>4. Cardinality(cache') \in Nat
      BY <3>3, FileCount
    <3>5. Cardinality(queue') <= QueueMax /\ Cardinality(cache') <= CacheMax
      BY <1>13, <1>0, <3>1, <3>2, <3>4 DEF GetRecord
    <3>. QED
      BY <1>13, <2>1, <3>3, <3>4, <3>5
         DEF GetRecord, diskVars, ghostVars, walkVars, workVars, resultVars
  <2>2. CASE queue = {} /\ WriterAt("check") /\ UNCHANGED <<queue, cache>>
    BY <1>13, <2>2 DEF GetRecord, WriterAt, diskVars, ghostVars, walkVars,
                       workVars, resultVars
  <2>. QED
    BY <1>13, <2>1, <2>2 DEF GetRecord, WriterAt
<1>14. CASE WriteRecords \/ WriteRaises
  BY <1>14, <1>0 DEF WriteRecords, WriteRaises, WriterAt, diskVars, ghostVars,
                     walkVars, workVars, resultVars
<1>15. ASSUME NEW f \in Files, FileMoves(f) PROVE TypeInv'
  BY <1>15 DEF FileMoves, ghostVars, walkVars, workVars, resultVars, writerVars
<1>16. CASE UNCHANGED vars
  BY <1>16 DEF vars
<1>. QED
  BY <1>1, <1>2, <1>3, <1>4, <1>5, <1>6, <1>7, <1>8, <1>9, <1>10, <1>11, <1>12,
     <1>13, <1>14, <1>15, <1>16
     DEF Next, MainStep, WorkerStep, WriterStep, Report, Exit, Kill

\* The index pipeline is well typed and keeps to its capacities.
THEOREM PipelineTypeCorrect == Spec => []TypeOK
<1>1. Init => TypeInv
  <2>. SUFFICES ASSUME Init PROVE TypeInv
    OBVIOUS
  <2>1. hashing \cup putting = {} /\ queue = {} /\ cache = {}
    BY DEF Init
  <2>2. /\ Cardinality(hashing \cup putting) = 0
        /\ Cardinality(queue) = 0
        /\ Cardinality(cache) = 0
    BY <2>1, FS_EmptySet, Zenon
  <2>3. CapacityOK /\ Cardinality(cache) < CacheMax
    BY <2>2 DEF CapacityOK
  <2>4. /\ disk \cup moved \cup db \subseteq Files
        /\ records \cup ghosts \cup existing \cup unseen \subseteq Files
        /\ InWork \cup queue \cup cache \cup done \cup failed \subseteq Files
        /\ main \in MainLabel /\ writer \in WriterLabel /\ stopEvent \in BOOLEAN
        /\ writer = "none"
    BY DEF Init, InWork, MainLabel, WriterLabel
  <2>. QED
    BY <2>3, <2>4, Zenon DEF TypeInv, TypeOK, BatchHasRoom
<1>2. TypeInv /\ [Next]_vars => TypeInv'
  BY TypeStep
<1>3. TypeInv => TypeOK
  BY DEF TypeInv
<1>. QED
  BY <1>1, <1>2, <1>3, PTL DEF Spec

-----------------------------------------------------------------------------
(* What the writer keeps.                                                  *)

\* The event is set when the workers are done, and the writer leaves its loop
\* when the event is set and the queue is empty; the batch it has left is
\* written before it ends.
WriterInv ==
    /\ main \in {"idle", "ghosts"} =>
          /\ writer = "none" /\ ~ stopEvent
          /\ InWork \cup queue \cup cache \cup done \cup failed = {}
    /\ main \in {"idle", "ghosts", "walk"} \/ unseen = {} \/ main \in {"unwind", "raised"}
    /\ main \in {"stop", "join", "report"} => InWork = {}
    /\ stopEvent => main \in {"join", "report"}
    /\ writer \in {"empty", "flush", "ended"} => stopEvent
    /\ writer \in {"flush", "ended"} => queue = {}
    /\ writer = "ended" => cache = {}
    /\ main = "report" => writer \in {"ended", "dead"}
    /\ writer # "dead" => done \subseteq queue \cup cache \cup db

\* Every step of every thread, and every fault, keeps WriterInv.
LEMMA WriterStepInv ==
    ASSUME TypeOK, WriterInv, [Next]_vars
    PROVE  WriterInv'
<1>. USE DEF WriterInv, TypeOK, InWork, MainLabel, WriterLabel
<1>1. CASE StartRun
  BY <1>1 DEF StartRun, walkVars, workVars, resultVars, writerVars
<1>2. ASSUME NEW f \in Files, CheckRecord(f) PROVE WriterInv'
  BY <1>2 DEF CheckRecord, diskVars, workVars, resultVars, writerVars
<1>3. ASSUME NEW f \in Files, Visit(f) PROVE WriterInv'
  BY <1>3 DEF Visit, diskVars, ghostVars, resultVars, writerVars
<1>4. CASE DeleteGhosts
  BY <1>4 DEF DeleteGhosts, diskVars, ghostVars, workVars, resultVars
<1>5. CASE EndWalk \/ Shutdown \/ Join \/ Interrupt \/ Unwind
  BY <1>5 DEF EndWalk, Shutdown, Join, Interrupt, Unwind, diskVars, ghostVars,
              walkVars, workVars, resultVars, writerVars
<1>6. CASE SetStop
  BY <1>6 DEF SetStop, diskVars, ghostVars, walkVars, workVars, resultVars
<1>7. CASE Clear
  BY <1>7 DEF Clear, diskVars
<1>8. ASSUME NEW f \in Files, WorkerStep(f) PROVE WriterInv'
  BY <1>8 DEF WorkerStep, TakeJob, HashFile, HashFails, PutRecord, diskVars,
              ghostVars, walkVars, resultVars, writerVars
<1>9. CASE CheckStop \/ CheckEmpty
  BY <1>9 DEF CheckStop, CheckEmpty, WriterAt, diskVars, ghostVars, walkVars,
              workVars, resultVars
<1>10. CASE GetRecord
  BY <1>10 DEF GetRecord, WriterAt, diskVars, ghostVars, walkVars, workVars, resultVars
<1>11. CASE WriteRecords \/ WriteRaises
  BY <1>11 DEF WriteRecords, WriteRaises, WriterAt, diskVars, ghostVars,
               walkVars, workVars, resultVars
<1>12. ASSUME NEW f \in Files, FileMoves(f) PROVE WriterInv'
  BY <1>12 DEF FileMoves, ghostVars, walkVars, workVars, resultVars, writerVars
<1>13. CASE UNCHANGED vars
  BY <1>13 DEF vars
<1>. QED
  BY <1>1, <1>2, <1>3, <1>4, <1>5, <1>6, <1>7, <1>8, <1>9, <1>10, <1>11, <1>12, <1>13
     DEF Next, MainStep, WriterStep, Report, Exit, Kill

\* Nothing a worker has delivered gets lost on its way to the database while
\* the writer lives.
THEOREM DeliveredSound == Spec => []DeliveredIsKept
<1>1. Init => WriterInv
  BY DEF Init, WriterInv, InWork
<1>2. TypeOK /\ WriterInv /\ [Next]_vars => WriterInv'
  BY WriterStepInv
<1>3. WriterInv => DeliveredIsKept
  BY DEF WriterInv, DeliveredIsKept, InWork
<1>. QED
  BY <1>1, <1>2, <1>3, PipelineTypeCorrect, PTL DEF Spec

\* The report claims only files that have a record.
THEOREM ReportSound == Spec => []ReportHonest
<1>1. Init => WriterInv
  BY DEF Init, WriterInv, InWork
<1>2. TypeOK /\ WriterInv /\ [Next]_vars => WriterInv'
  BY WriterStepInv
<1>3. WriterInv => ReportHonest
  BY DEF WriterInv, ReportHonest
<1>. QED
  BY <1>1, <1>2, <1>3, PipelineTypeCorrect, PTL DEF Spec

-----------------------------------------------------------------------------
(* The index and the disk.                                                 *)

\* A record the run keeps, or is about to write, belongs to a file that was
\* there when the run looked; and a file the walk has passed has a record, is
\* on its way to one, or has failed - unless the file came or went.
DiskInv ==
    /\ records \cup existing \subseteq db
    /\ existing \ moved \subseteq disk
    /\ main = "idle" => records \cup ghosts \cup existing = {}
    /\ main = "ghosts" =>
          /\ records \cap existing = {}
          /\ db \subseteq records \cup existing \cup ghosts
          /\ (records \cup existing) \cap ghosts = {}
    /\ main \notin {"idle", "ghosts"} =>
          /\ (db \cup putting \cup queue \cup cache) \ moved \subseteq disk
          /\ writer # "dead" =>
                disk \ moved \subseteq unseen \cup InWork \cup queue \cup cache
                                       \cup db \cup failed

\* The steps that read or write what DiskInv speaks of keep it.
LEMMA DiskStep ==
    ASSUME TypeOK, WriterInv, DiskInv, [Next]_vars
    PROVE  DiskInv'
<1>. USE DEF DiskInv, TypeOK, InWork
<1>1. CASE StartRun
  BY <1>1 DEF WriterInv, StartRun, walkVars, workVars, resultVars, writerVars
<1>2. ASSUME NEW f \in Files, CheckRecord(f) PROVE DiskInv'
  BY <1>2 DEF CheckRecord, diskVars, workVars, resultVars, writerVars
<1>3. ASSUME NEW f \in Files, Visit(f) PROVE DiskInv'
  BY <1>3 DEF Visit, diskVars, ghostVars, resultVars, writerVars
<1>4. CASE DeleteGhosts
  BY <1>4 DEF WriterInv, DeleteGhosts, diskVars, ghostVars, workVars, resultVars
<1>5. CASE EndWalk \/ Shutdown \/ Join \/ Interrupt \/ Unwind
  BY <1>5 DEF EndWalk, Shutdown, Join, Interrupt, Unwind, diskVars, ghostVars,
              walkVars, workVars, resultVars, writerVars
<1>6. CASE SetStop
  BY <1>6 DEF SetStop, diskVars, ghostVars, walkVars, workVars, resultVars
<1>7. CASE Clear
  BY <1>7 DEF Clear, diskVars
<1>8. ASSUME NEW f \in Files, WorkerStep(f) PROVE DiskInv'
  BY <1>8 DEF WriterInv, WorkerStep, TakeJob, HashFile, HashFails, PutRecord, diskVars,
              ghostVars, walkVars, resultVars, writerVars
<1>9. CASE CheckStop \/ CheckEmpty
  BY <1>9 DEF CheckStop, CheckEmpty, WriterAt, diskVars, ghostVars, walkVars,
              workVars, resultVars
<1>10. CASE GetRecord
  BY <1>10 DEF GetRecord, WriterAt, diskVars, ghostVars, walkVars, workVars, resultVars
<1>11. CASE WriteRecords \/ WriteRaises
  BY <1>11 DEF WriterInv, WriteRecords, WriteRaises, WriterAt, diskVars, ghostVars,
               walkVars, workVars, resultVars
<1>12. ASSUME NEW f \in Files, FileMoves(f) PROVE DiskInv'
  BY <1>12 DEF FileMoves, ghostVars, walkVars, workVars, resultVars, writerVars
<1>13. CASE UNCHANGED vars
  BY <1>13 DEF vars
<1>. QED
  BY <1>1, <1>2, <1>3, <1>4, <1>5, <1>6, <1>7, <1>8, <1>9, <1>10, <1>11, <1>12, <1>13
     DEF Next, MainStep, WriterStep, Report, Exit, Kill

\* At the report of a run, the index is what the disk is, up to the files that
\* failed and those that came or went during the run.
THEOREM IndexSound == Spec => []IndexMatchesDisk
<1>. DEFINE Inv == WriterInv /\ DiskInv
<1>1. Init => Inv
  BY DEF Init, WriterInv, DiskInv, InWork
<1>2. TypeOK /\ Inv /\ [Next]_vars => Inv'
  BY WriterStepInv, DiskStep
<1>3. Inv => IndexMatchesDisk
  BY DEF WriterInv, DiskInv, IndexMatchesDisk, InWork
<1>. QED
  BY <1>1, <1>2, <1>3, PipelineTypeCorrect, PTL DEF Spec

-----------------------------------------------------------------------------
(* What can be lost.                                                       *)

\* What the queue holds has been delivered, and once the writer is dead at
\* most a batch is missing besides what waits in the queue for ever.
LossInv ==
    /\ queue \subseteq done
    /\ writer = "dead" =>
          Cardinality(done \ db) <= CacheMax + Cardinality(queue)

LEMMA LossStep ==
    ASSUME TypeOK, WriterInv, LossInv, [Next]_vars
    PROVE  LossInv'
<1>. USE DEF LossInv, TypeOK, InWork
<1>0. /\ Cardinality(done \ db) \in Nat /\ Cardinality(queue) \in Nat
      /\ Cardinality(cache) \in Nat /\ Cardinality({}) = 0
  BY FileCount
<1>1. CASE UNCHANGED <<queue, done, db, writer>>
  BY <1>1
<1>2. CASE DeleteGhosts
  BY <1>2 DEF DeleteGhosts, resultVars
<1>3. CASE Clear
  BY <1>3 DEF Clear
<1>4. ASSUME NEW f \in Files, PutRecord(f) PROVE LossInv'
  <2>1. queue' \subseteq done'
    BY <1>4 DEF PutRecord
  <2>2. ASSUME writer' = "dead"
        PROVE  Cardinality(done' \ db') <= CacheMax + Cardinality(queue')
    <3>1. CASE f \in queue
      <4>1. queue' = queue /\ done' = done /\ db' = db /\ writer = "dead"
        BY <1>4, <2>2, <3>1 DEF PutRecord, writerVars
      <4>. QED
        BY <4>1
    <3>2. CASE f \notin queue
      <4>1. Cardinality(queue \cup {f}) = Cardinality(queue) + 1
        <5>1. IsFiniteSet(queue)
          BY FileCount
        <5>. QED
          BY <5>1, <3>2, FS_AddElement
      <4>2. Cardinality((done \ db) \cup {f}) <= Cardinality(done \ db) + 1
        BY FileCount
      <4>3. (done \ db) \cup {f} \in SUBSET Files
        OBVIOUS
      <4>4. (done \cup {f}) \ db \in SUBSET ((done \ db) \cup {f})
        OBVIOUS
      <4>5. /\ Cardinality((done \cup {f}) \ db) <= Cardinality((done \ db) \cup {f})
            /\ Cardinality((done \ db) \cup {f}) \in Nat
        BY <4>3, <4>4, FileCount
      <4>6. Cardinality((done \cup {f}) \ db) \in Nat
        BY <4>4, <4>3, FileCount
      <4>7. /\ queue' = queue \cup {f} /\ done' = done \cup {f} /\ db' = db
            /\ writer = "dead"
        BY <1>4, <2>2 DEF PutRecord, writerVars
      <4>8. Cardinality((done \cup {f}) \ db) <= CacheMax + Cardinality(queue \cup {f})
        BY <1>0, <4>1, <4>2, <4>5, <4>6, <4>7
      <4>. QED
        BY <4>7, <4>8, Zenon
    <3>. QED
      BY <3>1, <3>2
  <2>. QED
    BY <2>1, <2>2
<1>5. CASE CheckStop \/ CheckEmpty
  BY <1>5 DEF CheckStop, CheckEmpty, WriterAt, resultVars
<1>6. CASE GetRecord
  BY <1>6 DEF GetRecord, WriterAt, resultVars
<1>7. CASE WriteRecords
  BY <1>7 DEF WriteRecords, WriterAt, resultVars
<1>8. CASE WriteRaises
  <2>1. done \ db \in SUBSET (queue \cup cache)
    BY <1>8 DEF WriteRaises, WriterInv
  <2>2. IsFiniteSet(queue) /\ IsFiniteSet(cache) /\ IsFiniteSet(queue \cap cache)
    BY FileCount, FS_Intersection
  <2>3. Cardinality(queue \cup cache) =
           Cardinality(queue) + Cardinality(cache) - Cardinality(queue \cap cache)
    BY <2>2, FS_Union
  <2>4. Cardinality(queue \cap cache) \in Nat
    BY <2>2, FS_CardinalityType
  <2>5. queue \cup cache \in SUBSET Files
    OBVIOUS
  <2>6. Cardinality(done \ db) <= Cardinality(queue \cup cache)
    BY <2>1, <2>5, FileCount
  <2>7. Cardinality(done \ db) <= CacheMax + Cardinality(queue)
    BY <1>0, <2>3, <2>4, <2>6 DEF CapacityOK
  <2>8. UNCHANGED <<done, db, queue>>
    BY <1>8 DEF WriteRaises, resultVars
  <2>. QED
    BY <2>7, <2>8
<1>. QED
  BY <1>1, <1>2, <1>3, <1>4, <1>5, <1>6, <1>7, <1>8
     DEF Next, MainStep, WriterStep, WorkerStep, Report, Exit, Kill, StartRun,
         CheckRecord, Visit, EndWalk, Shutdown, SetStop, Join, TakeJob, HashFile,
         HashFails, Interrupt, Unwind, FileMoves, vars, diskVars, ghostVars,
         walkVars, workVars, resultVars, writerVars

\* A dead writer costs at most one batch and one full queue of records.
THEOREM LossSound == Spec => []LossBounded
<1>. DEFINE Inv == WriterInv /\ LossInv
<1>1. Init => Inv
  BY DEF Init, WriterInv, LossInv, InWork
<1>2. TypeOK /\ Inv /\ [Next]_vars => Inv'
  BY WriterStepInv, LossStep
<1>3. TypeOK /\ Inv => LossBounded
  <2>. SUFFICES ASSUME TypeOK, WriterInv, LossInv PROVE LossBounded
    OBVIOUS
  <2>. USE DEF TypeOK, CapacityOK, InWork
  <2>0. /\ Cardinality(done \ db) \in Nat /\ Cardinality(queue) \in Nat
        /\ Cardinality(cache) \in Nat
    BY FileCount
  <2>1. CASE writer = "dead"
    BY <2>0, <2>1 DEF LossInv, LossBounded
  <2>2. CASE writer # "dead"
    <3>1. done \ db \in SUBSET (queue \cup cache)
      BY <2>2 DEF WriterInv
    <3>2. IsFiniteSet(queue) /\ IsFiniteSet(cache) /\ IsFiniteSet(queue \cap cache)
      BY FileCount, FS_Intersection
    <3>3. Cardinality(queue \cup cache) =
             Cardinality(queue) + Cardinality(cache) - Cardinality(queue \cap cache)
      BY <3>2, FS_Union
    <3>4. Cardinality(queue \cap cache) \in Nat
      BY <3>2, FS_CardinalityType
    <3>5. queue \cup cache \in SUBSET Files
      OBVIOUS
    <3>6. Cardinality(done \ db) <= Cardinality(queue \cup cache)
      BY <3>1, <3>5, FileCount
    <3>. QED
      BY <2>0, <3>3, <3>4, <3>6 DEF LossBounded
  <2>. QED
    BY <2>1, <2>2
<1>. QED
  BY <1>1, <1>2, <1>3, PipelineTypeCorrect, PTL DEF Spec
=============================================================================
