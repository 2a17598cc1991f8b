---------------------------- MODULE DeltaReport ----------------------------
(***************************************************************************)
(* scripts/delta_calc_encode.py: every video of a directory is probed by a *)
(* pool of threads; main takes the answers in the order of the list, sorts *)
(* the files worth encoding by the space it would save and prints them,    *)
(* each with the resolutions it advises.                                   *)
(*                                                                         *)
(* Sizes are in MB, durations in seconds, rates in frames per second; the  *)
(* saving is kept as a multiple of 1 / 8192 MB.                            *)
(***************************************************************************)
EXTENDS Integers, Sequences, SequencesExt, FiniteSets

CONSTANTS Listings,  \* lists of files the directory may hold
          Source,    \* of each file: [w, h, size, duration, fps]
          MaxWorkers

VARIABLES pc,
          installed, \* whether there is an ffprobe
          listing,   \* video_files
          futures,   \* what became of the probe of each entry of listing
          taken,     \* number of futures main has taken
          results,   \* all_results: indices of listing
          report     \* the rows printed, top to bottom

vars == <<pc, installed, listing, futures, taken, results, report>>

Advice == [advice : {"TOO LOW", "OK", "MANUAL CHECK"}]
            \cup [advice : {"RECOMMEND", "NON-SQUARE"}, w : Nat, h : Nat]

TypeOK ==
    /\ pc \in {"pool", "unwind", "print", "ended"}
    /\ installed \in BOOLEAN
    /\ listing \in Listings
    /\ futures \in [DOMAIN listing -> {"pending", "running", "none", "result", "exit"}]
    /\ taken \in 0 .. Len(listing)
    /\ results \in Seq(DOMAIN listing)
    /\ report \in Seq([entry : DOMAIN listing, save : Int, hd : Advice, sd : Advice])
    /\ Cardinality({i \in DOMAIN futures : futures[i] = "running"}) <= MaxWorkers

Init ==
    /\ pc = "pool"
    /\ installed \in BOOLEAN
    /\ listing \in Listings
    /\ futures = [i \in DOMAIN listing |-> "pending"]
    /\ taken = 0
    /\ results = <<>> /\ report = <<>>

-----------------------------------------------------------------------------
(* What the script computes of a file.                                     *)

Abs(n) == IF n < 0 THEN -n ELSE n

\* source_dar_type: |w / h - p / q| < 0.02
IsShape(s, p, q) == 50 * Abs(q * s.w - p * s.h) < q * s.h

Shape(s) == CASE IsShape(s, 16, 9) -> "16:9"
              [] IsShape(s, 4, 3)  -> "4:3"
              [] OTHER             -> "other"

Recommend(word, w, h) == [advice |-> word, w |-> w, h |-> h]

Only(word) == [advice |-> word]

Flag720(s) ==
    CASE s.h < 720                 -> Only("TOO LOW")
      [] s.w = 1280 /\ s.h = 720   -> Only("OK")
      [] s.h >= 720 /\ Shape(s) = "16:9" /\ ~ (s.w = 1280 /\ s.h = 720) ->
             Recommend("RECOMMEND", 1280, 720)
      [] s.h >= 720 /\ Shape(s) = "4:3"  -> Recommend("RECOMMEND", 960, 720)
      [] s.h >= 720 /\ Shape(s) = "other" -> Only("MANUAL CHECK")

\* 720x480 is neither 16:9 nor 4:3 within the tolerance: of its three answers
\* only the last is ever given.
Flag480(s) ==
    LET word == IF s.w = 720 /\ s.h = 480 THEN "NON-SQUARE" ELSE "RECOMMEND"
    IN  CASE s.h < 480 -> Only("TOO LOW")
          [] s.h >= 480 /\ Shape(s) = "16:9"  -> Recommend(word, 854, 480)
          [] s.h >= 480 /\ Shape(s) = "4:3"   -> Recommend(word, 640, 480)
          [] s.h >= 480 /\ Shape(s) = "other" -> Only("MANUAL CHECK")

\* 8192 * size_delta_mb, at 1500 kbps for 30 frames a second and 192 for audio.
Saving(s) == 8192 * s.size - s.duration * (50 * s.fps + 192)

WorthIt(s) == Saving(s) > -5 * 8192

SourceAt(i) == Source[listing[i]]

-----------------------------------------------------------------------------
(* The threads of the pool: process_file.                                  *)

\* Mutant: a thread for every file.
TakeAtOnce == \E i \in DOMAIN futures :
    /\ futures[i] = "pending"
    /\ futures' = [futures EXCEPT ![i] = "running"]
    /\ UNCHANGED <<pc, installed, listing, taken, results, report>>

\* The pool takes the entries in the order they were submitted.
Take == \E i \in DOMAIN futures :
    /\ futures[i] = "pending"
    /\ \A j \in 1 .. i - 1 : futures[j] # "pending"
    /\ Cardinality({j \in DOMAIN futures : futures[j] = "running"}) < MaxWorkers
    /\ futures' = [futures EXCEPT ![i] = "running"]
    /\ UNCHANGED <<pc, installed, listing, taken, results, report>>

Finish(i, answer) ==
    /\ futures[i] = "running"
    /\ futures' = [futures EXCEPT ![i] = answer]
    /\ UNCHANGED <<pc, installed, listing, taken, results, report>>

\* A file without the data needed counts as one that cannot be probed.
Complete(s) == 0 \notin {s.w, s.h, s.size, s.duration, s.fps}

Probe == \E i \in DOMAIN futures :
    /\ installed /\ Complete(SourceAt(i))
    /\ Finish(i, IF WorthIt(SourceAt(i)) THEN "result" ELSE "none")

\* An error of ffprobe, an answer that cannot be read, ten seconds without one.
ProbeFails == \E i \in DOMAIN futures : installed /\ Finish(i, "none")

\* sys.exit in the thread: the future keeps it for main.
NotInstalled == \E i \in DOMAIN futures : ~installed /\ Finish(i, "exit")

-----------------------------------------------------------------------------
(* main                                                                    *)

\* Mutant: main does not wait for a probe that is not done.
CollectDone ==
    /\ pc = "pool" /\ taken < Len(listing)
    /\ taken' = taken + 1
    /\ results' = IF futures[taken + 1] = "result" THEN Append(results, taken + 1) ELSE results
    /\ UNCHANGED <<pc, installed, listing, futures, report>>

Collect ==
    /\ pc = "pool" /\ taken < Len(listing)
    /\ futures[taken + 1] \in {"none", "result"}
    /\ taken' = taken + 1
    /\ results' = IF futures[taken + 1] = "result" THEN Append(results, taken + 1) ELSE results
    /\ UNCHANGED <<pc, installed, listing, futures, report>>

\* The SystemExit of the thread is raised in main, inside the pool's block.
CollectExit ==
    /\ pc = "pool" /\ taken < Len(listing)
    /\ futures[taken + 1] = "exit"
    /\ pc' = "unwind"
    /\ UNCHANGED <<installed, listing, futures, taken, results, report>>

\* Both ways the pool is left only when every probe is done.
LeavePool ==
    /\ pc = "unwind" \/ (pc = "pool" /\ taken = Len(listing))
    /\ \A i \in DOMAIN futures : futures[i] \in {"none", "result", "exit"}
    /\ pc' = IF pc = "pool" THEN "print" ELSE "ended"
    /\ UNCHANGED <<installed, listing, futures, taken, results, report>>

\* The sort is stable.
Above(i, j) ==
    LET a == Saving(SourceAt(i)) b == Saving(SourceAt(j)) IN a > b \/ (a = b /\ i < j)

Row(i) == [entry |-> i, save |-> Saving(SourceAt(i)),
           hd |-> Flag720(SourceAt(i)), sd |-> Flag480(SourceAt(i))]

Sorted(is) ==
    CHOOSE s \in [1 .. Cardinality(is) -> is] :
        \A k, l \in 1 .. Cardinality(is) : k < l => Above(s[k], s[l])

PrintReport ==
    /\ pc = "print"
    /\ LET sorted == Sorted(ToSet(results))
       IN  report' = [k \in DOMAIN sorted |-> Row(sorted[k])]
    /\ pc' = "ended"
    /\ UNCHANGED <<installed, listing, futures, taken, results>>

Next ==
    \/ Take \/ Probe \/ ProbeFails \/ NotInstalled
    \/ Collect \/ CollectExit \/ LeavePool \/ PrintReport

Spec == Init /\ [][Next]_vars

-----------------------------------------------------------------------------

\* In whatever order the threads answer, and whatever probes fail, the report
\* has each file worth encoding exactly once, the greatest saving first; the
\* script that finds no ffprobe prints none.  A size advised for a file is not
\* higher than the file and has its shape.
ReportComplete ==
    pc = "ended" =>
        /\ {report[k].entry : k \in DOMAIN report}
             = {i \in DOMAIN futures : installed /\ futures[i] = "result"}
        /\ \A k, l \in DOMAIN report :
               k < l => /\ report[k].entry # report[l].entry
                        /\ report[k].save >= report[l].save
        /\ \A k \in DOMAIN report : \A flag \in {report[k].hd, report[k].sd} :
               flag.advice \in {"RECOMMEND", "NON-SQUARE"} =>
                   /\ flag.h <= SourceAt(report[k].entry).h
                   /\ Shape(flag) = Shape(SourceAt(report[k].entry))
-----------------------------------------------------------------------------
(* For the proof of it.                                                    *)

ReportConstants ==
    /\ \A l \in Listings : l \in Seq(DOMAIN Source)
    /\ Source \in [DOMAIN Source -> [w : Nat, h : Nat, size : Nat, duration : Nat, fps : Nat]]
    /\ MaxWorkers \in Nat

Found == {i \in DOMAIN futures : futures[i] = "result"}

\* Without an ffprobe there is nothing to report; the report, once printed,
\* has the rows of what was found, in their order.
Inv ==
    /\ TypeOK
    /\ \A i \in DOMAIN futures : /\ futures[i] = "exit" => ~ installed
                                 /\ futures[i] = "result" => installed
                                 /\ i <= taken => futures[i] \in {"none", "result"}
    /\ ToSet(results) = {i \in Found : i <= taken}
    /\ pc = "unwind" => ~ installed
    /\ pc \in {"print", "ended"} =>
          \A i \in DOMAIN futures : futures[i] \in {"none", "result", "exit"}
    /\ pc = "print" => taken = Len(listing)
    /\ pc # "ended" => report = <<>>
    /\ pc = "ended" =>
          /\ {report[k].entry : k \in DOMAIN report} = Found
          /\ \A k \in DOMAIN report : report[k] = Row(report[k].entry)
          /\ \A k, l \in DOMAIN report : k < l => Above(report[k].entry, report[l].entry)
=============================================================================
