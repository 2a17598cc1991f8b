---------------------------- MODULE IndexPipeline ----------------------------
(***************************************************************************)
(* process-dir of ihb_video_tools (core/file_processor.py with db_writer   *)
(* and its helpers of core/db_manager.py): the main thread compares the    *)
(* file index with the disk, a pool of workers hashes the new files and    *)
(* puts a record of each into a bounded queue, and one writer thread moves *)
(* the records, a batch at a time, from the queue to the database.         *)
(*                                                                         *)
(* Files come and go on the disk meanwhile, a worker's probe of a file can *)
(* fail, sqlite can raise in the writer, the user can interrupt the main   *)
(* thread, and the whole process can be killed; process-dir is run again   *)
(* and again, one run at a time.  A file stands for its path, for its      *)
(* File_DTO and for its record.  The queue and the batch are sets: the     *)
(* order of the records makes no difference to the database.               *)
(***************************************************************************)
EXTENDS Integers, FiniteSets

CONSTANTS Files,        \* video files, on the disk or not
          MaxWorkers,   \* config general.max_workers
          QueueMax,     \* capacity of the queue, four times max_workers
          CacheMax,     \* config db.cache, the size of a batch
          MayRaise,     \* sqlite may raise in the writer thread
          MayInterrupt, \* the user may interrupt the main thread
          MayKill       \* the process may be killed

ASSUME PipelineAssumption ==
    /\ IsFiniteSet(Files)
    /\ MaxWorkers \in Nat \ {0}
    /\ QueueMax \in Nat \ {0}
    /\ CacheMax \in Nat \ {0}
    /\ {MayRaise, MayInterrupt, MayKill} \subseteq BOOLEAN

VARIABLES disk,      \* files on the disk
          moved,     \* files that came or went since the run began (history)
          db,        \* files with a record in the database
          main,      \* where the main thread stands
          records,   \* records read and not yet compared with the disk
          ghosts,    \* records found to have no file
          existing,  \* existing_set: records with a file, not yet seen by the walk
          unseen,    \* files the walk has still to pass
          pool,      \* submitted to the pool, no worker has taken it
          hashing,   \* a worker hashes and probes it
          putting,   \* a worker waits to put its record into the queue
          queue,     \* record_queue
          done,      \* futures without an exception
          failed,    \* futures with an exception
          stopEvent, \* stop_event
          writer,    \* where the writer thread stands
          cache      \* record_cache

diskVars == <<disk, moved>>
ghostVars == <<records, ghosts>>
walkVars == <<existing, unseen>>
workVars == <<pool, hashing, putting>>
resultVars == <<done, failed>>
writerVars == <<stopEvent, writer, cache>>
vars == <<disk, moved, db, main, records, ghosts, existing, unseen,
          pool, hashing, putting, queue, done, failed, stopEvent, writer, cache>>

MainLabel == {"idle", "ghosts", "walk", "shutdown", "stop", "join",
              "report", "unwind", "raised"}
WriterLabel == {"none", "check", "empty", "get", "write", "flush", "ended", "dead"}

\* Submitted files whose futures are not done.
InWork == pool \cup hashing \cup putting

\* Never more files in the workers, the queue and the batch than these hold.
CapacityOK ==
    /\ Cardinality(hashing \cup putting) <= MaxWorkers
    /\ Cardinality(queue) <= QueueMax
    /\ Cardinality(cache) <= CacheMax

\* Sets of files all, within the capacities.
TypeOK ==
    /\ disk \cup moved \cup db \subseteq Files
    /\ records \cup ghosts \cup existing \cup unseen \subseteq Files
    /\ InWork \cup queue \cup cache \cup done \cup failed \subseteq Files
    /\ CapacityOK
    /\ main \in MainLabel
    /\ stopEvent \in BOOLEAN
    /\ writer \in WriterLabel

Init ==
    /\ disk \in SUBSET Files
    /\ db = {}
    /\ main = "idle"
    /\ moved = {}
    /\ records = {} /\ ghosts = {} /\ existing = {} /\ unseen = {}
    /\ pool = {} /\ hashing = {} /\ putting = {} /\ queue = {}
    /\ done = {} /\ failed = {}
    /\ stopEvent = FALSE /\ writer = "none" /\ cache = {}

-----------------------------------------------------------------------------
(* The main thread: _process_dir and _find_ghosts.                         *)

StartRun ==
    /\ main = "idle"
    /\ main' = "ghosts"
    /\ records' = db
    /\ moved' = {}
    /\ UNCHANGED <<disk, db, ghosts, walkVars, workVars, queue, resultVars, writerVars>>

\* os.path.exists, one record after the other.
CheckRecord(f) ==
    /\ main = "ghosts"
    /\ f \in records
    /\ records' = records \ {f}
    /\ existing' = IF f \in disk THEN existing \cup {f} ELSE existing
    /\ ghosts' = IF f \in disk THEN ghosts ELSE ghosts \cup {f}
    /\ UNCHANGED <<diskVars, db, main, unseen, workVars, queue, resultVars, writerVars>>

\* Mutant: the ghosts are found and not deleted (is_delete_ghosts=False).
KeepGhosts ==
    /\ main = "ghosts"
    /\ records = {}
    /\ main' = "walk"
    /\ unseen' = Files
    /\ writer' = "check"
    /\ UNCHANGED <<diskVars, db, ghostVars, existing, workVars, queue, resultVars,
                   stopEvent, cache>>

\* delete_records, then the writer thread is started and the walk begins.
DeleteGhosts ==
    /\ main = "ghosts"
    /\ records = {}
    /\ db' = db \ ghosts
    /\ main' = "walk"
    /\ unseen' = Files
    /\ writer' = "check"
    /\ UNCHANGED <<diskVars, ghostVars, existing, workVars, queue, resultVars,
                   stopEvent, cache>>

\* os.walk passes the place of a file.  Without a record it is submitted; a
\* file that goes between listing and submission is one that went after it.
Visit(f) ==
    /\ main = "walk"
    /\ f \in unseen
    /\ unseen' = unseen \ {f}
    /\ existing' = IF f \in disk THEN existing \ {f} ELSE existing
    /\ pool' = IF f \in disk \ existing THEN pool \cup {f} ELSE pool
    /\ UNCHANGED <<diskVars, db, main, ghostVars, hashing, putting, queue,
                   resultVars, writerVars>>

EndWalk ==
    /\ main = "walk"
    /\ unseen = {}
    /\ main' = "shutdown"
    /\ UNCHANGED <<diskVars, db, ghostVars, walkVars, workVars, queue, resultVars, writerVars>>

\* Mutant: shutdown does not wait for the workers.
ShutdownAtOnce ==
    /\ main = "shutdown"
    /\ main' = "stop"
    /\ UNCHANGED <<diskVars, db, ghostVars, walkVars, workVars, queue, resultVars, writerVars>>

\* shutdown(wait=True) returns when every submitted job has ended.
Shutdown ==
    /\ main = "shutdown"
    /\ pool = {} /\ hashing = {} /\ putting = {}
    /\ main' = "stop"
    /\ UNCHANGED <<diskVars, db, ghostVars, walkVars, workVars, queue, resultVars, writerVars>>

SetStop ==
    /\ main = "stop"
    /\ stopEvent' = TRUE
    /\ main' = "join"
    /\ UNCHANGED <<diskVars, db, ghostVars, walkVars, workVars, queue, resultVars, writer, cache>>

\* join returns as well when the thread has died of an exception.
Join ==
    /\ main = "join"
    /\ writer \in {"ended", "dead"}
    /\ main' = "report"
    /\ UNCHANGED <<diskVars, db, ghostVars, walkVars, workVars, queue, resultVars, writerVars>>

\* What the end of the process leaves: nothing of the threads.
Clear ==
    /\ main' = "idle"
    /\ records' = {} /\ ghosts' = {} /\ existing' = {} /\ unseen' = {}
    /\ pool' = {} /\ hashing' = {} /\ putting' = {} /\ queue' = {}
    /\ done' = {} /\ failed' = {}
    /\ stopEvent' = FALSE /\ writer' = "none" /\ cache' = {}
    /\ UNCHANGED <<diskVars, db>>

\* The numbers of futures with and without an exception are logged.
Report == main = "report" /\ Clear

-----------------------------------------------------------------------------
(* A worker: file_processor.                                               *)

TakeJob(f) ==
    /\ f \in pool
    /\ Cardinality(hashing \cup putting) < MaxWorkers
    /\ pool' = pool \ {f}
    /\ hashing' = hashing \cup {f}
    /\ UNCHANGED <<diskVars, db, main, ghostVars, walkVars, putting, queue,
                   resultVars, writerVars>>

HashFile(f) ==
    /\ f \in hashing \cap disk
    /\ hashing' = hashing \ {f}
    /\ putting' = putting \cup {f}
    /\ UNCHANGED <<diskVars, db, main, ghostVars, walkVars, pool, queue,
                   resultVars, writerVars>>

\* The file has gone, or ffprobe or the conversion of its answer raises.
HashFails(f) ==
    /\ f \in hashing
    /\ hashing' = hashing \ {f}
    /\ failed' = failed \cup {f}
    /\ UNCHANGED <<diskVars, db, main, ghostVars, walkVars, pool, putting, queue,
                   done, writerVars>>

\* Mutant: the queue has no capacity.
PutAlways(f) ==
    /\ f \in putting
    /\ putting' = putting \ {f}
    /\ queue' = queue \cup {f}
    /\ done' = done \cup {f}
    /\ UNCHANGED <<diskVars, db, main, ghostVars, walkVars, pool, hashing, failed, writerVars>>

\* put(block=True) waits for room in the queue, whether or not there is
\* still a writer to make some.
PutRecord(f) ==
    /\ f \in putting
    /\ Cardinality(queue) < QueueMax
    /\ putting' = putting \ {f}
    /\ queue' = queue \cup {f}
    /\ done' = done \cup {f}
    /\ UNCHANGED <<diskVars, db, main, ghostVars, walkVars, pool, hashing, failed, writerVars>>

-----------------------------------------------------------------------------
(* The writer thread: db_writer and _write_records.                        *)

WriterAt(l) == writer' = l

\* Mutant: an empty queue ends the loop.
CheckQueueOnly ==
    /\ writer = "check"
    /\ WriterAt("empty")
    /\ UNCHANGED <<diskVars, db, main, ghostVars, walkVars, workVars, queue,
                   resultVars, stopEvent, cache>>

\* The loop condition reads the event first and the queue afterwards.
CheckStop ==
    /\ writer = "check"
    /\ WriterAt(IF stopEvent THEN "empty" ELSE "get")
    /\ UNCHANGED <<diskVars, db, main, ghostVars, walkVars, workVars, queue,
                   resultVars, stopEvent, cache>>

CheckEmpty ==
    /\ writer = "empty"
    /\ WriterAt(IF queue = {} THEN "flush" ELSE "get")
    /\ UNCHANGED <<diskVars, db, main, ghostVars, walkVars, workVars, queue,
                   resultVars, stopEvent, cache>>

\* Mutant: the size of the batch is not looked at.
GetOnly ==
    /\ writer = "get"
    /\ \/ \E f \in queue :
             /\ queue' = queue \ {f}
             /\ cache' = cache \cup {f}
             /\ WriterAt("check")
       \/ /\ queue = {}
          /\ WriterAt("check")
          /\ UNCHANGED <<queue, cache>>
    /\ UNCHANGED <<diskVars, db, main, ghostVars, walkVars, workVars, resultVars, stopEvent>>

\* get(timeout): takes a record, or finds the queue empty, sleeps and goes on.
GetRecord ==
    /\ writer = "get"
    /\ \/ \E f \in queue :
             /\ queue' = queue \ {f}
             /\ cache' = cache \cup {f}
             /\ WriterAt(IF Cardinality(cache') >= CacheMax THEN "write" ELSE "check")
       \/ /\ queue = {}
          /\ WriterAt("check")
          /\ UNCHANGED <<queue, cache>>
    /\ UNCHANGED <<diskVars, db, main, ghostVars, walkVars, workVars, resultVars, stopEvent>>

\* Mutant: the batch is written only when it is full.
WriteFull ==
    /\ writer \in {"write", "flush"}
    /\ db' = IF writer = "write" THEN db \cup cache ELSE db
    /\ cache' = {}
    /\ WriterAt(IF writer = "write" THEN "check" ELSE "ended")
    /\ UNCHANGED <<diskVars, main, ghostVars, walkVars, workVars, queue, resultVars, stopEvent>>

\* The upserts of a batch and their commit are one transaction.
WriteRecords ==
    /\ writer \in {"write", "flush"}
    /\ db' = db \cup cache
    /\ cache' = {}
    /\ WriterAt(IF writer = "write" THEN "check" ELSE "ended")
    /\ UNCHANGED <<diskVars, main, ghostVars, walkVars, workVars, queue, resultVars, stopEvent>>

\* Only queue.Empty is caught: any other exception ends the thread, and the
\* batch with it.
WriteRaises ==
    /\ MayRaise
    /\ writer \in {"write", "flush"}
    /\ cache # {}
    /\ cache' = {}
    /\ WriterAt("dead")
    /\ UNCHANGED <<diskVars, db, main, ghostVars, walkVars, workVars, queue, resultVars, stopEvent>>

-----------------------------------------------------------------------------
(* Faults, and the rest of the world.                                      *)

\* KeyboardInterrupt in the main thread while the pool is open: leaving the
\* with block waits for the workers, and the event is never set.
Interrupt ==
    /\ MayInterrupt
    /\ main \in {"walk", "shutdown"}
    /\ main' = "unwind"
    /\ UNCHANGED <<diskVars, db, ghostVars, walkVars, workVars, queue, resultVars, writerVars>>

Unwind ==
    /\ main = "unwind"
    /\ pool = {} /\ hashing = {} /\ putting = {}
    /\ main' = "raised"
    /\ UNCHANGED <<diskVars, db, ghostVars, walkVars, workVars, queue, resultVars, writerVars>>

\* An interrupted process whose writer has died is at its end.
Exit == main = "raised" /\ writer = "dead" /\ Clear

Kill == MayKill /\ main # "idle" /\ Clear

\* A file is written, renamed, or recycled.
FileMoves(f) ==
    /\ disk' = IF f \in disk THEN disk \ {f} ELSE disk \cup {f}
    /\ moved' = moved \cup {f}
    /\ UNCHANGED <<db, main, ghostVars, walkVars, workVars, queue, resultVars, writerVars>>

-----------------------------------------------------------------------------

MainStep ==
    \/ \E f \in Files : CheckRecord(f) \/ Visit(f)
    \/ DeleteGhosts \/ EndWalk \/ Shutdown \/ SetStop \/ Join \/ Report
    \/ Unwind \/ Exit

WorkerStep(f) == TakeJob(f) \/ HashFile(f) \/ HashFails(f) \/ PutRecord(f)

WriterStep == CheckStop \/ CheckEmpty \/ GetRecord \/ WriteRecords \/ WriteRaises

Next ==
    \/ StartRun \/ MainStep \/ WriterStep
    \/ \E f \in Files : WorkerStep(f) \/ FileMoves(f)
    \/ Interrupt \/ Kill

Spec == Init /\ [][Next]_vars

\* The threads of a running process are scheduled; a worker that waits for
\* room in the queue is woken by the next record the writer takes.
FairSpec == /\ Spec
            /\ WF_vars(MainStep)
            /\ WF_vars(WriterStep)
            /\ \A f \in Files : WF_vars(WorkerStep(f))

-----------------------------------------------------------------------------
(* Properties.                                                             *)

\* A record that a worker has delivered is in the queue, in the batch or in
\* the database, as long as the writer lives; and the writer leaves its loop
\* only when no worker can deliver another one.
DeliveredIsKept ==
    /\ writer # "dead" => done \subseteq queue \cup cache \cup db
    /\ writer \in {"flush", "ended"} => queue \cup InWork = {}

\* The report counts as processed only files that have a record, unless the
\* writer died.
ReportHonest ==
    main = "report" /\ writer # "dead" => done \subseteq db

\* Whatever happens to the writer, the report claims at most one batch and
\* one full queue of files that have no record.
LossBounded ==
    Cardinality(done \ db) <= CacheMax + QueueMax

\* After a run, every file on the disk has a record or is reported as an
\* error, and every record has a file - except for files that came or went
\* during the run.  It holds whatever earlier runs left behind when they were
\* interrupted, killed or lost their writer.
IndexMatchesDisk ==
    main = "report" /\ writer # "dead" =>
        /\ disk \ moved \subseteq db \cup failed
        /\ db \ moved \subseteq disk

\* A run that nobody interrupts comes to its report, unless the writer dies
\* and leaves the workers waiting for room in the queue.
RunEnds ==
    main = "walk" ~> main \in {"report", "unwind"} \/ writer = "dead"
=============================================================================
