# Verification of python-project-starting-grounds

TLA+ models, model-checking runs and machine-checked proofs for this
repository: the parts in which several threads or processes share state (the
encoding queue and the review sessions of `ihb_encode`, the file index of
`ihb_video_tools`, the commands of `gen_utils` with their child processes), and
the tools that delete, move, rename, join or relabel a user's files. Paths below
are relative to the repository, most of them below `src/`.

- [1. The system](#1-the-system)
- [2. Modules](#2-modules)
- [3. What is checked](#3-what-is-checked)
- [4. What is proved](#4-what-is-proved)
- [5. What the models abstract from](#5-what-the-models-abstract-from)
- [6. What we learned about the code](#6-what-we-learned-about-the-code)
- [7. Plan](#7-plan)

## 1. The system

The repository is a collection of Python command line tools around video files.

| Part | Where | State | Operations | Interacts with |
|---|---|---|---|---|
| Job database | `ihb_encode/data`, `ihb_encode/scripts` | tables `jobs`, `job_history` | `upsert_job`, `bulk_update_job_status`, `force_job_status`, selects | every command of `ihb_encode`; any number of processes |
| Encoding control | `ihb_encode/core/control_manager.py` | the `STOP` file | `start-jobs`, `enable-stop`, `disable-stop`, `check-stop` | database, encoder |
| Job commands | `ihb_encode/core/job_manager.py`, `encoder.py` | the job object each process holds | `process-dir`, `manual-job`, `validate-job`, `reset-job`, `review-jobs`, `sim-job` | database, encoder, prompt |
| Database commands | `ihb_encode/core/db_tools.py` | none | `reset-job`, `cancel-job`, `bulk-approve`, `force-approve`, listings | database, recycle bin |
| Review prompt | `ihb_encode/core/user_prompts.py` | the job object under review | lines of letters, each a command on a job and its two files | files |
| Encoder backend | `ihb_ext/video/encode` | the output file | build the ffmpeg command, run it, probe and validate the result | `ihb_common/utils/gen_utils.py`, ffprobe |
| File index | `ihb_video_tools/core/file_processor.py`, `db_manager.py` | table `file_data`, queue, batch, worker pool | `process-dir`, `ghosts`, `drop`, ... | files on the disk |
| Duplicate search | `ihb_video_tools/core/duplicate_manager.py`, `user_prompts.py`, `ihb_components/tui` | the list before the user | `check-dirs`, `full-duration` | file index, recycle bin |
| Running commands | `ihb_common/utils/gen_utils.py` | child process, interrupt queue, listener thread | simple, checked and interruptable commands | every caller of an external program, the terminal |
| Directory tools | `ihb_common/utils/dir_utils.py`, `file_utils.py` | the directory tree | `reorg`, `strip-res`, `sub_size`, recycling, hashing | ffprobe |
| Video data | `ihb_video/types`, `ihb_video/utils` | none | metrics, target resolution, stream filters, chapters | encoder, prompts |
| Stream setters | `ihb_video/tools` | stream flags in a container | choose default audio and subtitle streams | container tools |
| Container tools | `ihb_ext/video/tools`, `ihb_ext/zip7.py`, `ihb_ext/galley_dl.py` | none | build and run command lines | external programs |
| Concatenation | `ihb_video2/concan.py` | temporary lists, the output | join the clips of a directory, set chapters | ffmpeg backend, container tools |
| Scripts | `scripts` | the files they work on | `dupe_find`, `dupe_cleaner`, `file_type_reorg`, `video_dupe_finder`, `delta_calc_encode`, ... | ffprobe, ffmpeg |
| Others | `ihb_components/db`, `ihb_deluge`, the rest of `ihb_video2` | none shared | stubs, a hook, scripts that print | - |

How they interact. `ihb_encode/main.py` dispatches one command per process. Two
processes never talk to each other: all they share is the job database, one
`STOP` file and the video files. Every function of `data/db_manager.py` opens
its own connection and commits once, so the database serialises single calls
and nothing larger: a command that reads a row, works for seconds or hours and
writes the row back can be overtaken by any other command.
`ihb_video_tools process-dir` in contrast is one process with many threads: a
pool of workers, a bounded queue and one writer thread. `ihb_encode jobs
review-jobs` is in between: two threads and a bounded priority queue in one
process, beside all the others that share the database. Everything else is a
program that is started, works on some files and ends; what these have in
common is `gen_utils`, which runs their external commands, and a user who
answers prompts.

What is hard:

- *Interleaving.* A job is claimed in two transactions; `start-jobs` resets the
  `WORKING` rows of live processes; results, cancellations and re-queueing
  overwrite each other; `bulk-approve` recycles files from a list it read at
  its start.
- *Failure.* ffmpeg's exit code is not looked at; a killed process leaves a
  `WORKING` row and a partial output; the writer thread of the index dies of any
  sqlite error.
- *Termination.* `start-jobs` ends by a shared flag or an empty queue; the index
  run waits for workers that wait for a writer; a review session waits for an
  end marker its background thread sends when nothing is left in review.
- *Stale state.* The review prompt shows, and writes back, objects that were read
  minutes ago.
- *Resources.* A bounded queue and a batch; output paths that collide; a pipe
  nobody reads while the child writes.
- *Loss.* The tools delete duplicates, move files to names that may be taken,
  remove directories and rewrite flags, with lists made before the first change
  and with steps that fail in between.
- *Boundaries.* Durations within a tolerance, sizes rounded to 16, tracks counted
  from 0 here and from 1 there.

`PROJECT.json` lists every hazard at its line, with the property that covers it.

What makes each part correct:

- Job database and commands: a row in `REVIEW` carries the outcome of an
  encode; the history explains the status; the status moves along a life cycle
  when commands do not overlap; a recycled input has an encode.
- Encoding control: the queue drains, and the `STOP` file stops the encoders.
- Review sessions: a decision is about the row as it is, no job is asked for
  twice, nothing is left in review when the session says so, and it ends.
- File index: no delivered record is lost, the report tells the truth, the index
  converges to the disk, and a run ends.
- Running commands: what a call reports is what became of its child, a call
  ends, and no child and no listener thread stays behind unnoticed.
- Tools that delete: a copy, or the original, of everything deleted stays.
- Tools that move: every file has a path of its own in a directory that exists,
  and ends up where it belongs.
- Stream setters: the chosen stream is the default one and no other is changed.
- Concatenation: no temporary file stays, chapters are inside the output.
- Target resolution: a video is not enlarged and keeps its shape.

## 2. Modules

| Module | Models | Uses |
|---|---|---|
| `JobStore` | the two tables and the functions of `data/db_manager.py`, one operator per function | |
| `EncodeQueue` | the commands of `ihb_encode` and their interleavings | extends `JobStore`, instantiates `JobLifecycle` |
| `JobLifecycle` | abstract specification: how the status of a job may move | |
| `MCEncodeQueue` | instances for TLC | extends `EncodeQueue` |
| `EncodeQueueProofs` | theorems about `EncodeQueue` | extends `EncodeQueue`, `TLAPS` |
| `ReviewSession` | `review-jobs`: main thread, background thread, priority queue, and what other processes do meanwhile | extends `JobStore` |
| `MCReviewSession` | instances for TLC | extends `ReviewSession` |
| `ReviewSessionProofs` | theorems about `ReviewSession` | extends `ReviewSession`, `FiniteSetTheorems`, `TLAPS` |
| `IndexPipeline` | `process-dir` of `ihb_video_tools`: main thread, workers, queue, writer | |
| `MCIndexPipeline` | instances for TLC | extends `IndexPipeline` |
| `IndexPipelineProofs` | theorems about `IndexPipeline` | extends `IndexPipeline`, `FiniteSetTheorems`, `TLAPS` |
| `RunCommand` | the three ways of `gen_utils` to run a program, the child, the listener threads, the terminal | |
| `DupeScripts` | `dupe_find`, `dupe_cleaner` | |
| `DirTools` | `reorg` and `strip_res` of `dir_utils` | |
| `TypeReorg` | `file_type_reorg` | |
| `VideoDupes` | `video_dupe_finder` | |
| `DefaultStreams` | the three default stream setters, down to mkvpropedit and mp4box | |
| `DuplicateSearch` | `check-dirs` and `full-duration` of `ihb_video_tools` with their prompts | |
| `Concat` | `concan`, down to ffmpeg and the chapters | |
| `DeltaReport` | `delta_calc_encode` with its pool of threads | |
| `TargetResolution` | `calc_target_resolution` as the prompt and as the encoder call it | |
| `Tools` | these ten programs as one system, which chooses its program in the initial state | instantiates the first four by their proof modules, the others directly |
| `MCTools` | an instance for TLC | extends `Tools` |
| `ToolsProofs` | theorems about the properties of `Tools` | extends `Tools`, `FiniteSetTheorems`, `SequenceTheorems`, `WellFoundedInduction`, `TLAPS` |
| `MCDuplicateSearch` | an instance of its own for the finding | extends `DuplicateSearch` |
| `RunCommandProofs`, `DupeScriptsProofs`, `DirToolsProofs`, `TypeReorgProofs` | inductive invariants of these modules, and their steps | extend them, and `TLAPS` |

### JobStore and EncodeQueue

| TLA+ | Code |
|---|---|
| `jobs[f]` | the row of `jobs` whose input is `f`; status `"NONE"` where there is none |
| `history[f]` | the newest `job_history` row of the job |
| `inputs`, `outs[o]` | the input files that exist; what is at each output path: nothing, the encode of a file, the beginning of one (`"partial"` while ffmpeg writes it or since it was killed, `"short"` once it was taken for a result), something unreadable, or nothing since the user of a review removed it (`"removed"`) |
| `stopFile` | `STOP_FILE` exists |
| `pc[p]`, `dto[p]` | where a process stands, and its `job_dto` |
| `mode[p]` | `start-jobs` with (`"once"`) or without (`"loop"`) `--stop`, `manual-job`, or `review-jobs` |
| `todo[p]`, `listing[p]` | the job list of `bulk-approve`, or the jobs prepared for a review; the files `process-dir` has still to queue |

An action is what happens between two points at which another process could see
or change something: one transaction, one change of the file system, or one
read. `start-jobs` is `StartJobs`, then `FetchJob`, `ClaimJob`, `LaunchFfmpeg`,
`FfmpegEnds` (or `EncodeRaises`, or `FfmpegRefuses`), `SaveResult`, `CheckStop`
in a loop, and `ConsumeStop` at the end. `cancel-job` and `validate-job` are a
read and a write; `bulk-approve` is a read, then one recycling and one write per
job; `process-dir` is two reads and a write per file. `review-jobs` reads jobs
ahead (`ReviewPrepare`), shows the largest (`ReviewShow`), and leads, like
`jobs reset-job` (`JobsResetJob`), to the prompt, where every letter is a step:
`PromptDelete` recycles a file and leaves the row, `PromptDecide` changes the
object, and its files with it, and `PutJob` writes it, unless the session ends
before (`ReviewEnds`). `Finish` is the end of a command, also by an exception that
`dispatch` logs, and `Abort` is a killed process or a database error.

The output column is kept up to one bit: `"dir"` while it names the output
directory, `"file"` once the encoder has put the path of its output there. This
bit decides a lot: `force_job_status` leaves it alone, and an encode of a row
that holds a path joins a file name to that path and fails.

### JobLifecycle

Submit, claim, result, validate, close and recover, on nothing but the status.
`EncodeQueue` implements it (`LifecycleSpec`) as long as one process at a time
works on the rows; `JobLifecycle!Claim` needs a job that waits, which two
overlapping `start-jobs` do not respect.

### ReviewSession

| TLA+ | Code |
|---|---|
| `jobs`, `history` | the tables, with the operators of `JobStore` |
| `inputs`, `outputs` | jobs whose input, or output, file exists |
| `bpc`, `batch`, `processed`, `bdto` | `background_process_job`: where it stands, what is left of `job_list`, `processed_jobs`, `job_dto` |
| `queue` | `job_queue`; the marker `End` is the `None` that ends the session |
| `main`, `current` | `review_results`: where it stands or how it ended, and `review_job` |

The background thread is `Query`, `ProbeJob` and `PutJob` for each job of the
batch, `NextBatch`, and `PutEnd` when a query finds nothing; `QueryFails` is an
sqlite error, which no `try` of the thread covers. The main thread is `GetJob`,
`ShowJob`, the letters of the user and `SaveDecision`. `Approve`, `Reset` and
`Delete` change the object, and lead to the save when they are the last letter
of a line and may ask again when another follows; `DeleteFile` asks again, `Quit`
ends. The thread is a daemon: its steps need `Running`. A `PriorityQueue`
compares its items: `None` put into a heap that holds a job raises in the putting
thread and stays at the end of the heap (`PutEnd`), and with two jobs before it
raises in the `get` (`GetJob`).

The rest of the system is not modelled command by command a second time but by what
any command can do in one step: write a job object (`OtherUpserts`), force the
status of a row (`OtherForces`), add or remove files (`OtherFiles`), at any moment
and in any order. Which objects and states is left to the constants `Written` and
`Forced`; the theorems hold for all of them, so for `db reset-job`, `force-approve`,
`bulk-approve`, `cancel-job`, `validate-job`, `process-dir`, `manual-job`, encoders
early and late, and a second review session. `touched` is a history variable: the
jobs whose row another process has changed, while it was in review, since the
session began.

### IndexPipeline

| TLA+ | Code |
|---|---|
| `disk`, `db` | files on the disk; paths with a record in `file_data` |
| `main`, `records`, `ghosts`, `existing`, `unseen` | the main thread, the records it has read and not checked, `ghost_set`, `existing_set`, what `os.walk` has still to pass |
| `pool`, `hashing`, `putting` | submitted jobs, jobs a worker hashes, jobs that wait in `record_queue.put` |
| `queue`, `cache`, `stopEvent`, `writer` | `record_queue`, `record_cache`, `stop_event`, the writer thread |
| `done`, `failed` | futures without and with an exception |
| `moved` | history variable: files that came or went since the run began |

The writer's loop condition is two actions (`CheckStop`, `CheckEmpty`) because
the order in which it reads the event and the queue matters. `Interrupt` is a
`KeyboardInterrupt` while the pool is open: leaving the `with` block waits for
the workers, `stop_event.set()` is passed over, and the process stays with a
writer that polls for ever; `Kill` ends it. `WriteRaises` is any sqlite error in
the writer. After `Report`, `Kill` or `Exit` the next run may begin.

### RunCommand

| TLA+ | Code |
|---|---|
| `kind`, `call`, `pc` | how each call is made; the call at hand and the place in it |
| `child[c]` | the process of call `c`: running or ended, the signal it got, what it has still to write, what is in its pipe, its exit code, and whether it outlives `terminate()` |
| `listener[c]`, `interrupt` | the thread `_input_listener` of call `c`; the calls whose `interrupt_queue` holds the message |
| `answer[c]` | what the call returned: a result with its code, `True`, `False`, `1`, `None`, or an exception |
| `typed` | lines typed: those nobody has read, and those no child took |

Calls follow each other in one thread, and after the last one a prompt reads the
terminal. Nothing ends a listener thread, so a line the user types goes to any
listener left over, to the prompt, or to a child that inherits the terminal;
the model leaves open which of them. `Poll`, `GetNowait`, `WaitEnds`,
`WaitTimesOut` and `Communicate` are the loop of the interruptable call, in
which nobody reads the pipe; `Read` is the reader of the other two.

### The tools

The state of each is what the program keeps and what is on the disk; an action
is one change of the disk, one answer of the user, or one external command.
Whatever can fail, fails by choice: a move, a removal, a probe, an external
command, a hash that cannot be computed.

| Module | State | Steps |
|---|---|---|
| `DupeScripts` | `disk`, contents that are equal or unreadable, `groups`, `left` | a walk that groups, `ChooseKeeper`, `DeleteCopy`; `AskDelete` |
| `DirTools` | `at[f]` (directory and name), `dirs`, `moves`, `old` | `Walk`, one `MoveFile` each, one `RemoveEmpty` each; one `Rename` each |
| `TypeReorg` | `at[f]`, `dirs`, the walk with its listing, the archive at hand, `out`, `errors`, `unpacked` | per archive, nested ones included, `UnpackAll` or `UnpackFails`, one `MoveMember` each, `StoreArchive`; `CleanUp`; one `MoveFile` each; `RemoveDirs` |
| `VideoDupes` | `disk`, `groups`, `rest`, `pairs` (still to be asked), `told` (all) | `Probe`, `AudioCheck`, `FrameCheck`, `Confirm` |
| `DefaultStreams` | `flags[f]`, what the probe saw, `calls` still to be made | `ProbeFile`, `Choose`, one `Update` or `UpdateFails` per call |
| `DuplicateSearch` | `disk`, the `list` of the prompt and as `printed`, the menu; `named`: the deletes of the line | a letter of the user each; `NextGroup`, `NextCluster` |
| `Concat` | the two temporary files, `output`, `chapters` | every external command and prompt, and every way out |
| `DeltaReport` | `futures`, `results`, `report` | `Take`, `Probe`, `ProbeFails`, `NotInstalled` of a thread; `Collect`, `CollectExit`, `LeavePool`, `PrintReport` of main |
| `TargetResolution` | the video, the profile tried, the target | `TryProfile`, one turn of the loop |

The directory tree of `TypeReorg` is walked while it changes: `ListDir` takes any
directory not listed yet, so a file moved into a directory that is still to be
listed is met again and moved again, as in the code. `DirTools` is the module of
a Windows program: a name that is taken refuses a move.

The pure parts are operators of these modules: `Grouped`, `Matches`, `Best`,
`TrackNumber`, `Cluster`, `Starts`, `Shape`, `Targets`.

## 3. What is checked

Run one with `tlc -config <cfg> <module>`.

| Run | Instance | Shows |
|---|---|---|
| `one_file` | 2 processes, every command except preview, 1 file, aborts, all outcomes of an encode; symmetric processes; 3.7 million states | `TypeOK`, `ReviewHasResult`, `HistoryExplainsStatus`, `RecycledHasOutput` |
| `survives` | encoder, clerk, and a process that forces statuses; 1 file, aborts, all outcomes of an encode; 60 000 states | `RecycledVideoSurvives` |
| `lifecycle` | 1 process, every command with preview except `jobs reset-job`, 2 files with one output path, aborts; 4.6 million states | `LifecycleSpec` (refinement of `JobLifecycle`) |
| `drains` | 2 `start-jobs` workers, of which one also queues files and creates the STOP file; 2 files, no aborts, fairness; 94 000 states | `WorkingHasOwner`, `QueueDrains`, `StopHalts` |
| `audio` | a file without a video stream | **violated**: `ProcessDirVisitsAll` |
| `index_runs` | 3 files that come and go, 2 workers, queue of 1, batches of 2, sqlite errors, interrupts and kills | `TypeOK`, `DeliveredIsKept`, `ReportHonest`, `IndexMatchesDisk` |
| `index_ends` | 3 files, 2 workers, queue and batches of 1, sqlite errors, fairness; 672 000 states | `LossBounded`, `RunEnds` |
| `review_beside` | 2 jobs, queue of 3, queries of 2; other processes write results, force both states, and add and remove files, at any moment; 3.4 million states | `TypeOK`, `OneObjectPerJob`, `DecisionIsCurrent`, `EndMarkerAlone` |
| `review_ends` | 3 jobs, queue and query of 1, nobody beside, database errors, fairness; 667 000 states | `SessionEnds` |
| `review_user` | 2 jobs; approvals, and files that go, beside | **violated**: `TerminatedByUser` |
| `tools` | the ten programs of `Tools`; 1.04 million states | a type invariant, 17 invariants and two liveness properties, below |
| `numbers` | a group of three files | **violated**: `DeletesTheNumbered` |

Deadlock is checked except in `review_ends` and `review_user`, where the system
stops when nothing is left to review, and in `tools` and `numbers`, whose
programs end.

`Tools` puts ten state machines into one: the variable `program` is chosen in
the initial state and never changes, `v1` to `v11` are the variables of its
module in their order, and each property is the one of the module, for states of
that program. Since the programs share nothing, this is the same as ten runs.

The properties:

- `ReviewHasResult`: a row in `REVIEW` has an output path, a size and validation
  results in its newest history entry, also after resets, cancellations, crashes
  and validations by other processes.
- `HistoryExplainsStatus`: the newest history entry is the status of the row, or
  the row is `PENDING` or `COMPLETE`, by one of the two updates without history.
- `RecycledHasOutput`: no input is recycled before something was written to its
  output path, and what was written stays - unless the user of a review
  removed it: `d`, then `q`, leaves a `REVIEW` row without an output, and
  `bulk-approve` recycles its input all the same.
- `RecycledVideoSurvives`: what an input was recycled for is still on the disk,
  unless the user of a review removed it: its whole encode, or the incomplete
  one the code took for its result (the exit code of ffmpeg is ignored) - never
  nothing, an unreadable file, another job's encode, or one being written over.
- `WorkingHasOwner`: without crashes a `WORKING` row has a process at work on it.
- `LifecycleSpec`: the status moves along `JobLifecycle`.
- `QueueDrains`: a running `start-jobs` empties the queue, whatever the encodes
  end in and whoever else takes jobs, unless it is stopped or files keep coming.
- `StopHalts`: the STOP file ends an encoder, however the queue is filled; with
  several encoders the first that sees it takes it away from the others.
- `OneObjectPerJob`: of one session, at most one object of a job is in the queue,
  about to be put, or before the user.
- `DecisionIsCurrent`: the user is shown the row as it is, and a decision
  overwrites a row that is in review, unless another process changed that row
  while it was in review and the session ran.
- `EndMarkerAlone`: unless another process changed a row in review during the
  session, the end marker is alone in the queue and no thread raises.
- `SessionEnds`: while nobody interferes the main thread does not wait for ever,
  also when there are more jobs than a query returns, and when it says that all
  are reviewed none is in review. It can end by the user's wish, a failed save or
  a prompt that refuses a job; it waits for ever when an sqlite error has killed
  the background thread, or when a job in review cannot be probed.
- `DeliveredIsKept`: a record a worker has put is in the queue, the batch or the
  database while the writer lives; the writer leaves only when nobody can put.
- `ReportHonest`: what the report counts as processed has a record, unless the
  writer died.
- `LossBounded`: a dead writer costs at most one batch and one full queue.
- `IndexMatchesDisk`: after a run the index is what the disk is, apart from
  files that failed or that came or went during the run.
- `RunEnds`: a run ends unless it is interrupted or its writer died.

Of `tools`:

- `AnswerHonest`: an exit code that a simple or an interruptable call reports is
  that of its child, which has ended, and a success is never reported of a child
  that was cut short or whose output was not read to its end. Of a checked call
  it says less, as the code does: its answer may also be true for a child that it
  has killed itself.
- `NoChildLeft`: a call that has returned leaves no running child it has not
  signalled.
- `CommandEnds`: a call returns unless its child clogs the pipe of an
  interruptable call, and even then when the user interrupts it.
- `QuestionAnswered`: listeners left over from earlier calls swallow at most one
  line each, so a prompt gets its answer after that many lines more.
- `OneCopyStays`: at every moment a copy of each content is on the disk, with
  paths listed twice, hashes and deletions that fail, and any answers - but for
  unreadable files, which `dupe_cleaner` takes for copies of each other.
- `NothingLost`: `reorg` and `strip_res` never put two files on one path or
  remove a directory with something in it.
- `Reorganised`: at the end of `reorg` a file is at home unless another has its
  name, and no empty directory is left.
- `FilesKept`: `file_type_reorg` neither overwrites nor removes a file of the
  user or an archive that lay outside `temp_extract`, though unpacked files have
  any names. (What lay in `temp_extract` it overwrites and removes.)
- `Unpacked`: of an archive put away as extracted every member with an extension
  is in its category, or in the list of errors, also when it is itself an archive,
  which the same pass may unpack in turn; of members with one path one is.
- `OriginalStays`: a video that `video_dupe_finder` deletes was matched, at some
  removes, with one that stays, whatever the user answers.
- `GroupsComplete`: every probed video is in a group near its first video; no
  group replaces another under a rounded key.
- `ChosenIsDefault`: when no call failed, the chosen stream has the default flag,
  and alone if at most one stream had it before.
- `OthersKept`: whatever fails, only the chosen stream gains a flag and at most
  one other of its type loses it. Both are false, and not claimed, of an MP4 file
  with a track number of ten or more (section 6).
- `LastCopyStays`: only a line with two deletes in it can take the last copy of a
  group.
- `PairsShown`: two files of nearly one duration are shown on one page unless the
  user quits.
- `NoLeftovers`: the temporary lists of `concan` are gone when it has ended,
  whatever ffmpeg, MP4Box and the checks said and whatever the user answered,
  unless a list could not be written or removed, ffmpeg could not be started, or
  the user ended the run with Ctrl-C or the end of the input.
- `ChaptersInside`: no chapter that `concan` writes starts behind the end of the
  output, which may be an earlier one or cut short, except where `format_time`
  pads 1 to 99 milliseconds into up to 990: such a start is at most 0.891 s late.
- `ReportComplete`: the report has each file worth encoding once and in order
  however the threads interleave, and advises only sizes that fit.
- `TargetFits`: an encode does not enlarge a video, takes no later profile than
  it must, and keeps the shape up to the rounding.

### Bounds, and why they are enough

The processes of `EncodeQueue` interfere through one row and one output path at a
time; two processes on one file already show every pair of overlapping commands,
and the proofs lift five of the invariants to any number, and to inputs that
share an output path; `SurvivesSound` lifts the sixth within its discipline.
`survives` adds the third process that it takes to reset a job under the eyes of
an encoder and an approver; as no two files share an output path there, one
file is enough. `lifecycle` leaves out `jobs reset-job`, whose steps after its
start are those of `review-jobs`; `one_file` runs it and `LifecycleSound` covers it. A row has eight statuses, three sizes (none, below, above the limit of
`bulk-approve`) and no counters, so the state space is finite without a
constraint. In `IndexPipeline` a queue of 1, batches of 2 and 2 workers make
three files enough to fill the queue, block a worker, write a full batch and
flush a partial one; `index_ends` has batches of 1, so that the loss can be of
the full bound with a file to spare.
In `ReviewSession` the code's limits are both five. In `review_ends` three jobs
with limits of one fill the queue, so that the background thread waits, and are
more than a query returns. In `review_beside` two jobs may come back in the next
query while they wait, and a queue of three has room for both and the end marker,
the case in which the `get` raises. Jobs of one size may be offered in any order,
so it covers every order. The states other processes write there are a new result
and both forced ones; that they may write any, and for any number of jobs and any
limits, is in the theorems.

In `tools` two calls and a pipe of 1 for an output of 2 make a child clog, a
listener outlive its call and swallow the line for the next one; three lines are
one more than the listeners. Two contents that fit one size and one that does
not, two directories of two files, and a path listed twice are every way two
copies can meet. `DirTools` has two files in every tree of three directories and
two homes, with names that collide before and after a move or a renaming; what
more files could do is proved. `TypeReorg` has an archive packed in another of its name, which holds two members
of one name, that of a file of the tree; an unpacked file of an earlier run and
a file of the user below `temp_extract`, one without an extension; `MaxCount`
stops the search for a free name after three tries.
`VideoDupes` has three videos, one listed twice, with durations within, at and
beyond the tolerance of each other. `DefaultStreams` has a file for each container tool
with streams of a type before, between and after others, and an MP4 file with the
tracks 10 and 16, under every set of old flags. `DuplicateSearch` has groups of three and of a file listed twice, and
durations that make overlapping clusters. The clips of `Concat` are alike, unlike,
unknown, one or none; one starts at 10.099 s, the worst case of the padding. `TargetResolution` has 7 heights and 8 widths at and around those of the
profiles, in three pixel shapes. Symmetry is used in runs without liveness only, over processes with equal
commands, and over files of equal standing.

### Fairness, and why the code justifies it

`EncodeQueue!FairSpec` is weak fairness of `Step(p)`, the steps of a command that
is running: the operating system schedules it, ffmpeg ends, and prompts are
answered. Starting a command and being killed are not fair. Strong fairness is
not needed. `IndexPipeline!FairSpec` is weak fairness of the main thread, of the
writer and of each worker: `queue.Queue` wakes a waiting `put` when there is
room, and as the number of files is finite none waits for ever while the writer
takes records. `ReviewSession!FairSpec` is weak fairness of both threads, and of
`Answer`: the user answers in the end, with any answer that closes the prompt.
`RunCommand!Fairness` is weak fairness of the calling thread, of each listener
and of each child: a child that can write or end does so, and a signal arrives.
Whether the user types is left open, so the liveness properties speak of what
follows when he has. The other programs need none: nothing is claimed of their
ends.

## 4. What is proved

`tlapm` proves, for every value of the constants:

| Theorem | Statement | Argument |
|---|---|---|
| `TypeCorrect` | `Spec => []TypeOK` of `EncodeQueue` | inductive by itself; one lemma per helper (`UpsertType`, `OutcomeType`, `FinishType`, ...) |
| `ReviewSound` | `[]ReviewHasResult` | strengthened by what the object of a process is (`HeldInv`): an object that is about to be saved as `REVIEW` has a path, a size and validation notes |
| `HistorySound` | `[]HistoryExplainsStatus` | from the effect of each database operation (`StoreEffect`) |
| `RecycledSound` | `[]RecycledHasOutput` | `OutputInv`: to the output path of a row in `REVIEW`, of an object about to become one, and of every job on a list of `bulk-approve` or before a user, something has been written; what was written is replaced, or removed by the user of a review, but never forgotten (`WrittenStays`) |
| `OwnerSound` | `[]WorkingHasOwner` | without `Abort`, an owner gives up its row only with its save |
| `SessionTypeCorrect` | `Spec => []TypeOK` of `ReviewSession` | with the finiteness of the queue; another process writes any job object, or forces any of the two states (`OtherEffect`) |
| `OneObjectSound` | `[]OneObjectPerJob` | `OneInv`: what is queued, put or shown is in `processed` |
| `DecisionSound` | `[]DecisionIsCurrent` | `FreshInv`: every object on its way, in the batch unless it was processed, is its row; a save changes one row, and by `OneInv` no other object is about it; whatever another process writes, if it changes a row in review the job is in `touched`, and no other row is on its way (`OthersKeepFresh`) |
| `EndMarkerSound` | `[]EndMarkerAlone` | `EndInv`: by `FreshInv` a query that finds nothing in review means that nothing is queued |
| `PipelineTypeCorrect` | `Spec => []TypeOK` of `IndexPipeline`, capacities included | `BatchHasRoom`: while the writer may take a record its batch is not full, and there is no writer before the ghosts are deleted |
| `DeliveredSound`, `ReportSound` | `[]DeliveredIsKept`, `[]ReportHonest` | `WriterInv`: the event is set when all workers are done; the writer leaves when it has seen the event and then an empty queue; its last batch is written before it ends |
| `IndexSound` | `[]IndexMatchesDisk` | `DiskInv`: records kept or on their way belong to files that were there when the run looked; files passed by the walk have a record, are on their way, or failed |
| `LossSound` | `[]LossBounded` | `LossInv`: at its death the writer loses its batch; afterwards each record reported without being stored takes a place in the queue |
| `LifecycleSound` | `LifecycleSpec`, the refinement of `JobLifecycle`, when the commands that work on rows are given one at a time | `LifeInv`: what the process holds fits the row it is about (`RowFits`), so that each save is a step the abstract specification allows (`LifeStep`), and leaves it fitting (`FitsStep`) |
| `SurvivesSound` | `[]RecycledVideoSurvives` under `Discipline` | `PostInv`: who can be where; `SurvivalInv`: a row that names an output file, and an object that does (`Faithful`), is about a video that is kept, and what the encoder may write over is new in the table too; outputs go only by ffmpeg's start and by the user of a review (`KeptStep`) |

Two theorems have a hypothesis in their statement, because without it they are
false (section 6). `OneAtATime(w)`: all processes but `w` may at most set and
remove the STOP file; nothing is asked of `w`, which may be killed at any time and
come again. The run `lifecycle` is an instance. `Discipline(e, c)`: `e` alone
runs `start-jobs`, `c` alone queues directories, cancels, reviews and bulk-approves,
nobody previews, works by hand, validates again or uses `jobs reset-job`, and no
two inputs share an output path. Nothing is asked of the encodes, which may end in
any way, and any number of other processes force approvals, reset jobs and set
the STOP file meanwhile. The run `survives` is an instance.

Of `tools`, in `ToolsProofs`, each about the invariant under its own name:

| Theorem | Program | Argument |
|---|---|---|
| `TypesSound` | all | one type invariant per program; those of `VideoDupes`, `DuplicateSearch` and `DeltaReport` come with their invariants below |
| `AnswerHonestSound`, `NoChildLeftSound` | `RunCommand` | `PlaceInCall`: where the thread stands tells what became of the child; `SuccessIsWhole`: a child that ends with code 0 has written all, and a checked call that answers true for another has killed it; afterwards nobody changes an ended child or writes its pipe (`ChildrenGoOn`) |
| `OneCopyStaysSound` | `DupeScripts` | a group still to come is whole and there (`GroupSound`), each content has a copy that is not marked for deletion (`Kept`) |
| `NothingLostSound` | `DirTools` | a move is to a free path in a directory that exists (`PathsDiffer`); a directory that is removed has neither file nor subdirectory |
| `ReorganisedSound` | `DirTools` | `ReorgInv`: a file is home, has lost its place to another of its name (`Settled`) or is still to be moved; as directories are looked at from the longest path to the shortest, one that was looked at and stays has something in it that stays |
| `FilesKeptSound` | `TypeReorg` | `MoveToKeeps`: a move is to a free path; unpacking overwrites and cleaning up removes only what is in `temp_extract`, where the user's own files and archives never are (`UnpackKeeps`) |
| `UnpackedSound` | `TypeReorg` | `ExtractInv`: while an archive is open, of each path in it a member is delivered, waits in `temp_extract` or has an error (`Delivered`); later moves, those of a nested archive included, keep what was delivered (`UnpackedStays`) |
| `NoLeftoversSound` | `Concat` | each temporary file exists only between two places of the program, or after a run that was cut (`cut`) |
| `ChaptersInsideSound` | `Concat` | the start of a chapter is the sum of the durations before it (`StartsBefore`), which by induction on its number stays below the total; the padding adds at most 891 ms, and nothing to a start it does not shift |
| `ChosenIsDefaultSound`, `OthersKeptSound` | `DefaultStreams` | `FlagInv`: only a chosen stream has gained a flag, and only the first that had one has lost it; `CallInv`: the calls to come are those of one type; `SettledInv`: a type that had its turn is as it should be, one that waits is as it was; for MP4 both need that every track has one digit (`Named`) |
| `LastCopyStaysSound` | `DuplicateSearch` | `GroupInv`: what is still listed is on the disk, and each delete of the line takes its file off the list (`EntryGone`) |
| `PairsShownSound` | `DuplicateSearch` | `ShownInv`: with the records longest first, all partners of a file lie in its cluster before or after it (`ClusterShown`, over positions in the list: `Ranks`) |
| `GroupsCompleteSound` | `VideoDupes` | `GroupInv`: every video read so far is in one group, near its first video and not near that of an earlier group; as videos with one key are near, no new group meets the key of an old one |
| `OriginalStaysSound` | `VideoDupes` | `PairInv`: a pair is of two videos of one group, and what one was paired with stays or was paired with one that does |
| `ReportCompleteSound` | `DeltaReport` | `results` are the futures taken so far that found something, in the order they are taken; the sorted report has each of them once (`Sortable`, `SortedFacts`); a size that is advised has the shape of the video (`ShapeAdvised`) |
| `TargetFitsSound` | `TargetResolution` | the bounds of each arm of the calculation (`ShapeKept`), with the products named so that the arithmetic is linear in them |

`RunCommandProofs`, `DupeScriptsProofs`, `DirToolsProofs` and `TypeReorgProofs`
have the invariants and their steps for a program alone, and theorems about it
alone (`CommandTypeCorrect`, `AnswerSound`, `NoChildSound`, `CopySound`,
`ToolsTypeCorrect`, `NothingLostSound`, `FilesKeptSound`); `ToolsProofs` cites them
where the program is one of ten.

*Assumptions.* These are the named `ASSUME`s, which TLC evaluates in the runs. For the
queue: sizes are numbers, commands are the modelled ones, output names are
functions of the input, file names differ from the markers of `Content`, and without a profile (`HasProfile`) commands may raise (`MayAbort`). For the review session: capacities are positive, and others write job objects and force `PENDING` or `COMPLETE`. For the
pipeline: a finite set of files and positive capacities. For the tools
`ToolsAssumption`, part by part:

| Part | Says |
|---|---|
| `Bounds` | the limits of `RunCommand` are numbers |
| `FirstDir \subseteq CopyPaths` | the first directory of `DupeScripts` is one of those that are searched |
| `TreeConstants`, `PathLengths` | home directories are made directly below the input directory, a stripped name is a name, and the path of a directory is longer than its parent's |
| `Packing`, `Naming`, `OwnMembers` | an archive holds members, archives among them, which every other archive does not share: a member stands for the file as it was unpacked; every file has a name, which tells archives from others, and two members with one path have one name |
| `VideoConstants` | finitely many videos, all of them listed, and durations that round to one key are within the tolerance (in the code: 0.01 s and 0.05 s) |
| `StreamConstants` | a file has a sequence of streams, the tracks of an MP4 file have different numbers below 100, and the mark for no file is not a file |
| `IndexConstants` | two groups of equal hashes share no path, and the records come longest first, as the query returns them |
| `ClipBounds` | durations are numbers of milliseconds, and the last clip is longer than the tolerance of the check of the output |
| `ReportConstants`, `SizeConstants` | sizes, durations, rates and profiles are natural numbers, and the sides of a pixel positive ones |

Nothing bounds files, processes, workers, calls or crashes.

*The invariants.* The properties speak of rows and files, and the danger sits in an
object some process has held for hours: without `HeldInv` a `PutJob` could write
anything, without `Faithful` a `BulkRecycle` could recycle an input whose output
is being written again. The strengthened invariants were checked by TLC on the
instances before they were proved. Two turned out not to be inductive, and were
strengthened: `TargetFits` needs that a source is not empty once its
calculation ended, `ChaptersInside` needs the clip assumption, without which an
output cut short within the tolerance ends before its last chapter starts.

*Induction over data.* Lemmas that need an induction (`Induction`, `Recursion` in
`ToolsProofs`) speak of a set of numbers and take its least element that fails,
by `WFMin` and `NatLessThanWellFounded`. `Kept` of `VideoDupes` filters by positions and
`Sorted` of `DeltaReport` chooses the sorted sequence, since the library's
`SelectSeq` and `SetToSortSeq` are defined by recursions the provers do not unfold.

*Model-checked only*: the six liveness properties `QueueDrains`, `StopHalts`,
`RunEnds`, `SessionEnds`, `CommandEnds` and `QuestionAnswered`, which rest on fairness
and `ENABLED`, out of the proof system's reach. Every invariant of every passing run
is proved, as is the one refinement.

## 5. What the models abstract from

- *The ffmpeg command.* At this commit `EncodingProfile` has no field
  `params_x265`, which `_generate_encode_command` reads (`ihb_ext/video/encode/ffmpeg.py:170`),
  so every encode raises: with `EncodeOutcomes = {}` the model has exactly that
  behaviour (`EncodeRaises`). The runs use the outcomes the code around it is
  written for: a whole, truncated or unreadable output, ffmpeg refusing to start,
  a user who declines. The proofs cover every subset of them.
- *New jobs.* At this commit no new job can be queued: `_generate_job_dto` calls
  `logger.level`, a number, and raises (`ihb_encode/core/job_manager.py:301`), and
  without a profile it raises at `adv_opts`, a name nobody defines (line 287).
  `NewJobs = FALSE` is exactly that: `QueueFile` and `ManualJob` are disabled, and
  `process-dir` gives up at its first file. With the rows of an older database
  (`Queued`) everything else runs as before. The runs set `NewJobs = TRUE`, the
  program without line 301, and the proofs cover both.
- *The column `profile`* is written by the upsert (`ihb_encode/scripts/insert.py:2`)
  but is not in the table of this commit (`ihb_encode/scripts/schema.py:12-23`): in a
  database made by it every upsert raises, which is `HasProfile = FALSE`, where
  `UpsertJob` is disabled and every writer ends by `Abort`. The runs have the
  column, as a database of an older version does; the proofs cover both.
- *`Advanced_Options_DTO`* (`ihb_encode/core/user_prompts.py:45, 60`) is an annotation
  nobody defines: before Python 3.14 `job_manager` cannot be imported because of it.
- *Killing a process* also leaves ffmpeg's output as far as it got (`"partial"`).
- *Listing a directory* and its first query are one step. A file that appears or
  vanishes in between is one that did so before or after.
- *Tables*: profile, durations and time stamps are left out, as is the history
  before the newest entry, which no code reads.
- *`validate-job`* takes a list of jobs; it is one job per command here.
- *`ReviewSession`*: a probe fails exactly when a file is missing; every row in
  review at the start has the path of its output (`ReviewHasResult`
  of `EncodeQueue`); the queue is a set from which the largest job is taken, any
  of them when sizes are equal.
- *`IndexPipeline`*: sets instead of sequences for the queue and the batch; one
  run at a time; a record is its path, so a file that changes under the same
  path is not told apart (a listed hazard).
- *Hashes*: equal hashes are taken for equal contents.
- *The tools* have their directories to themselves. Sizes, durations and
  bit rates are small numbers in the units of the comparisons that use them.
- *`DupeScripts`* takes a file for its path: one that is listed under two spellings
  of overlapping directories is outside the model.
- *`TypeReorg`*: a member that is unpacked again, from an archive met twice, stands
  for its newest copy.
- *`DeltaReport`*: of a size that is advised the code compares the height with that
  of the video, and so does `ReportComplete`; the width follows from the shape.
- *`DuplicateSearch`*: viewing a file, and letters that mean nothing, change
  nothing and are left out.
- *`TargetResolution`*: where a quotient lies exactly between two multiples of 16
  the floating point result is left open.

Not modelled, and why:

- `concan_recode.py` and `dupe_length_finder.py` of `ihb_video2`, and
  `scripts/zip_dir.py`, import names that do not exist in the repository
  (`Resolution` and `ENCODING_SCHEMES`, `get_all_video_metadata`,
  `update_default_subtitles`): they cannot start.
- Metrics, validators' thresholds, tables, colours and the texts of pages: pure
  formatting and arithmetic on records, no state.
- `ihb_components/db` and parts of `ihb_components/tui` are stubs nothing calls.
- `deluge_exec.py`, `galley_dl.py`, `zip7.py`, `cc_embedder.py`, `freeze_finder.py`,
  `max_size.py`, `gen_scr3.py`, `torrent_restore.py` and the other small scripts are
  one pass from their arguments to one command or one listing.
- The maintenance commands of the file index, and two indexing runs at once: see
  the plan.

## 6. What we learned about the code

- *Finding (`audio`).* `_process_file` logs that an audio file is skipped
  (`ihb_encode/core/job_manager.py:236`), and `_process_dir` then takes the
  missing job for the user's wish to quit (line 127) and abandons the tree.
- *Finding (`review_user`).* A job one of whose files is gone since it was probed,
  for example because `bulk-approve` recycled it, ends the whole session with "User terminated review." (`ihb_encode/core/job_manager.py:222`).
- *A review session with a missing file never ends*: its job stays in review, so
  the background thread never sends the end marker, and the main thread waits.
  It also waits for ever when an sqlite error kills the background thread
  (`ihb_encode/core/encoder.py:53` is outside its `try`). These are the last two
  disjuncts of `SessionEnds`. A job that comes back in review during a session, after
  option `r` and a second encode, is not offered again either (`processed`): it
  too keeps the session from ending until it is started anew.
- *`DecisionIsCurrent` and `EndMarkerAlone` need their exceptions.* Without them TLC
  shows in a few steps that what another process has done to a row in review -
  `db reset-job` and a claim by `start-jobs`, an approval, a cancellation, a second
  session - is overwritten by the decision, and that emptying the list of
  reviews elsewhere lets the end marker meet a job in the heap: the background
  thread dies of a `TypeError`, with two jobs before the marker the session ends.
- *A review can remove the output of a job and leave the job in review*: options
  `d`, `x` and `r` act on the files at once (`ihb_encode/core/user_prompts.py:191-229`),
  the row is written at the end of the line. After `d` and `q`, or a kill before the
  write, `bulk-approve` recycles the input of a job without an output.
- *The exit code of ffmpeg is ignored* (`ihb_ext/video/encode/ffmpeg.py:212`): an
  encode that stopped early is reviewed, and approved in bulk, like any other, as
  long as ffprobe can read it.
- *Inputs can lose their video* outside the discipline of `survives`. TLC shows
  these, each of several steps, when the instance is widened:
  - `validate-job` turns an output that a killed encoder left, or that one is still
    writing, into a `REVIEW` row, and `bulk-approve` recycles the input; at the
    prompt of `jobs reset-job` the user can recycle the input of such a job;
  - `cancel-job` writes back the row it read before an encode was saved, with the
    directory in the output column; reset and encoded again, the output is
    overwritten while a `bulk-approve` works from its older list;
  - two inputs with one output name, or two encoders on one job.
- *`WorkingHasOwner` fails with crashes*, as it must: that is why `start-jobs`
  begins with a reset, which in turn takes rows from live processes.
- *A dead writer blocks the index run for ever* once the queue is full: `RunEnds`
  is false without its second disjunct.
- *An interrupt leaves the index process behind*, polling an event nobody sets.

- *Finding (`numbers`).* The duplicate prompt of `ihb_video_tools` prints its
  numbers once and then deletes by the position in a list that has become shorter
  (`ihb_video_tools/core/user_prompts.py:15-44`).
- *An interruptable command can wait for ever*: its output is read only when it
  has ended, and a child that fills the pipe never ends (`Clogged` in
  `CommandEnds`). A terminated child that takes longer than two seconds is
  abandoned with the answer `None`.
- *A prompt after an interruptable command loses a line* for every such call
  before it, to a thread that still waits in `input()`.
- *`dupe_cleaner` takes unreadable files for copies of each other*: all have the
  hash `None`.
- *A checked command that was killed reports success*: `_run_checked_cli_command`
  answers 1 for a child it has killed and one that failed to be read
  (`ihb_common/utils/gen_utils.py:188, 205`), `True` for a success (line 197), and
  `1 == True`. Its callers read the answer as a truth value
  (`ihb_ext/video/encode/ffmpeg.py:113, 212`) or as an exit code, `return_code == 0`
  (`ihb_ext/galley_dl.py:53`), for which `True` is a failure.
- *MP4Box edits another track*: `mp4box.py:57-66` passes the hexadecimal id of
  ffprobe without its `0x` as if it were decimal, so of track 16 (`0x10`) it edits
  track 10, and `0xa` names none; without an id it passes a number, which
  `subprocess` refuses (`DefaultStreams!Edited`).
- *`format_time` pads milliseconds on the right* (`ihb_common/utils/gen_utils.py:72`):
  10.099 s is written `00:00:10.990`, so a chapter can start up to 0.891 s late, and
  behind the end of a short last clip (`Concat!Formatted`).
- *`concan` leaves its files behind* when one cannot be written to its end, when
  `ffmpeg` cannot be started, and when the user ends it at a question: no handler on
  the way removes them, and for the chapters the dispatcher hides even the error
  (`ihb_video/manager/video_manager.py:203`).
- *`file_type_reorg` removes what the user keeps in `temp_extract`*
  (`scripts/file_type_reorg.py:173-176`), and of two members of one path in an archive
  keeps the last.
- *The review prompt executes a line letter by letter*, and only the last letter
  decides whether it ends: `ra` completes a job whose output `r` has removed. Option
  `x` marks a job deleted though `recycle_file` failed
  (`ihb_encode/core/user_prompts.py:203-207`).
- *The profiles are built with their fields shifted*
  (`ihb_encode/data/types.py:33-38`): the width goes to `fixed_dim`, `480p` asks for
  854 lines, and no profile counts as source. `source` rounds a height of 1080 up
  to 1088, which does not fit, so an encode walks past the last profile:
  `IndexError` (`TargetResolution`, `pc = "raised"`). For a portrait video the sample
  aspect ratio is applied the wrong way round, the exception in `TargetFits`.
- *Chapters of mkv files are never set*: `mkvtools._set_chapters` calls
  `_build_chapter_file` with the wrong arguments and the dispatcher hides the error
  (`MkvChapters`).
- *`audio_default_setter`* looks for the disposition under a misspelled name, and
  raises when there is no old default.
- *`delta_calc_encode`* never reaches two of its answers for 720x480: 3:2 is
  neither 16:9 nor 4:3.
- *`check-dirs` with its default mode raises*; the option "[i]gnore duplicates
  permanently" does nothing.

## 7. Plan

Done: 1. `JobStore`, `EncodeQueue`, `JobLifecycle`; 2. `IndexPipeline`;
3. `ReviewSession`; 4. `RunCommand`; 5. the tools that change files and the
target resolution; the proofs of each. Still to come, in this order:

6. `IndexPipeline` with `ghosts` and `drop` between and beside runs, two runs at
   once, and contents that change under a path.
7. Pure functions against reference definitions: the validators, `format_time`,
   bit rates.

Proofs to come are those of these modules: `IndexMatchesDisk` with contents and with
`ghosts` beside a run, and what the pure functions return. The refinement could be extended from one
process at a time to several, with an abstract specification that has the
overwritten rows of section 6 as steps of their own.
