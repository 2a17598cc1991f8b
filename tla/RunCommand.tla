----------------------------- MODULE RunCommand -----------------------------
(***************************************************************************)
(* The three ways ihb_common/utils/gen_utils.py runs an external program,  *)
(* called one after the other by one thread, and a question to the user    *)
(* (input(), as in the prompts of the tools) after the last call.          *)
(*                                                                         *)
(* A call starts a child process.  The child writes its output into a pipe *)
(* of limited capacity and ends by itself, with code 0 or 1, or because it *)
(* got a signal; a deaf child outlives terminate().  Every interruptable   *)
(* call also starts a daemon thread that waits in input() for a line of    *)
(* the user.  Nothing ends that thread when its call returns: it and the   *)
(* question after it read the same standard input, and so may the child of *)
(* a simple or a checked call, which inherits it.                          *)
(*                                                                         *)
(* Bounds: NumCalls calls, output of at most MaxOutput units, MaxLines     *)
(* lines typed.                                                            *)
(***************************************************************************)
EXTENDS Integers, FiniteSets

CONSTANTS NumCalls,  \* calls made before the question
          MaxOutput, \* the most a child writes
          PipeSize,  \* what the pipe holds
          MaxLines   \* lines the user types

VARIABLES kind,     \* how each call is made
          call,     \* the call the thread is in; NumCalls + 1 is the question
          pc,       \* where in it the thread stands
          child,    \* the child process of each call
          listener, \* the _input_listener thread of each call
          interrupt,\* calls whose interrupt_queue holds the message
          answer,   \* what each call returned
          typed     \* lines: waiting to be read, and all that no child took

vars == <<kind, call, pc, child, listener, interrupt, answer, typed>>

Calls == 1 .. NumCalls

Kind == {"simple", "checked", "interruptable"}

Child == [st: {"none", "running", "exited"}, signal: {"none", "terminate", "kill"},
          left: 0 .. MaxOutput, pipe: 0 .. PipeSize, code: {0, 1}, deaf: BOOLEAN]

NoChild == [st |-> "none", signal |-> "none", left |-> 0, pipe |-> 0,
            code |-> 0, deaf |-> FALSE]

\* A checked call answers True or False, or the integer 1, which equals True
\* in Python and passes every test of truth: the two are one answer.
Answer == {"unset", "result0", "result1", "None", "true", "false", "raised"}

\* The types of the variables.
TypeOK ==
    /\ kind \in [Calls -> Kind]
    /\ call \in 1 .. NumCalls + 1
    /\ pc \in {"start", "read", "wait", "poll", "get", "terminated", "question", "answered"}
    /\ child \in [Calls -> Child]
    /\ listener \in [Calls -> {"none", "input", "ended"}]
    /\ interrupt \subseteq Calls
    /\ answer \in [Calls -> Answer]
    /\ typed \in [waiting: 0 .. MaxLines, all: 0 .. MaxLines]

Init ==
    /\ kind \in [Calls -> Kind]
    /\ call = 1
    /\ pc = "start"
    /\ child = [c \in Calls |-> NoChild]
    /\ listener = [c \in Calls |-> "none"]
    /\ interrupt = {}
    /\ answer = [c \in Calls |-> "unset"]
    /\ typed = [waiting |-> 0, all |-> 0]

Exited == child[call].st = "exited"

\* The program, if it comes up at all, has some output, some exit code, and
\* may or may not heed terminate().
Popen(c) == \E l \in 0 .. MaxOutput, code \in {0, 1}, d \in BOOLEAN :
    child' = [child EXCEPT ![c] = [st |-> "running", signal |-> "none", left |-> l,
                                   pipe |-> 0, code |-> code, deaf |-> d]]

Return(a) ==
    /\ answer' = [answer EXCEPT ![call] = a]
    /\ call' = call + 1
    /\ pc' = IF call = NumCalls THEN "question" ELSE "start"

Goto(l) == pc' = l /\ UNCHANGED <<call, answer>>

Signal(c, s) == child' = [child EXCEPT ![c].signal = s]

-----------------------------------------------------------------------------
(* Every call: Popen, which raises when there is no such program.  The     *)
(* handler of the checked call then uses a variable never assigned.        *)

Start ==
    /\ pc = "start"
    /\ Popen(call)
    /\ Goto(IF kind[call] = "interruptable" THEN "poll" ELSE "read")
    /\ listener' = IF kind[call] = "interruptable"
                   THEN [listener EXCEPT ![call] = "input"] ELSE listener
    /\ UNCHANGED <<kind, interrupt, typed>>

StartFails ==
    /\ pc = "start"
    /\ Return(IF kind[call] = "checked" THEN "raised" ELSE "None")
    /\ listener' = IF kind[call] = "interruptable"
                   THEN [listener EXCEPT ![call] = "input"] ELSE listener
    /\ UNCHANGED <<kind, child, interrupt, typed>>

-----------------------------------------------------------------------------
(* _run_simple_cli_command and _run_checked_cli_command read the output as *)
(* it comes.                                                               *)

Read ==
    /\ pc = "read"
    /\ child[call].pipe > 0
    /\ child' = [child EXCEPT ![call].pipe = @ - 1]
    /\ UNCHANGED <<kind, call, pc, listener, interrupt, answer, typed>>

EndOfOutput ==
    /\ pc = "read"
    /\ child[call].pipe = 0
    /\ Exited
    /\ Goto("wait")
    /\ UNCHANGED <<kind, child, listener, interrupt, typed>>

\* check=True turns every code but 0 into an exception, and that into None.
SimpleEnds ==
    /\ pc = "wait"
    /\ kind[call] = "simple"
    /\ Return(IF child[call].code = 0 THEN "result0" ELSE "None")
    /\ UNCHANGED <<kind, child, listener, interrupt, typed>>

CheckedEnds ==
    /\ pc = "wait"
    /\ kind[call] = "checked"
    /\ Return(IF child[call].code = 0 THEN "true" ELSE "false")
    /\ UNCHANGED <<kind, child, listener, interrupt, typed>>

\* Mutant: the child is left alone.
CheckKeeps ==
    /\ pc = "read"
    /\ kind[call] = "checked"
    /\ child[call].pipe > 0
    /\ Return("true")
    /\ UNCHANGED <<kind, child, listener, interrupt, typed>>

\* A line of output was read, and check_function refuses to go on; or the
\* line, or its treatment, raises.  Both kill the child and return 1, which
\* the callers cannot tell from the True of a success.
CheckKills ==
    /\ pc = "read"
    /\ kind[call] = "checked"
    /\ child[call].pipe > 0
    /\ Signal(call, "kill")
    /\ Return("true")
    /\ UNCHANGED <<kind, listener, interrupt, typed>>

-----------------------------------------------------------------------------
(* _run_interruptable_cli_command polls the child and the interrupt queue, *)
(* and reads the output only when the child has ended.                     *)

Poll ==
    /\ pc = "poll"
    /\ Goto(IF Exited THEN "wait" ELSE "get")
    /\ UNCHANGED <<kind, child, listener, interrupt, typed>>

\* get_nowait: without a message, sleep and poll again.
GetNowait ==
    /\ pc = "get"
    /\ IF call \in interrupt
       THEN /\ interrupt' = interrupt \ {call}
            /\ Signal(call, "terminate")
            /\ Goto("terminated")
       ELSE /\ Goto("poll")
            /\ UNCHANGED <<child, interrupt>>
    /\ UNCHANGED <<kind, listener, typed>>

WaitEnds ==
    /\ pc = "terminated"
    /\ Exited
    /\ Goto("wait")
    /\ UNCHANGED <<kind, child, listener, interrupt, typed>>

\* Mutant: wait() without a timeout.
WaitForEver == FALSE /\ UNCHANGED vars

\* wait(timeout=2) raises TimeoutExpired, a general error.
WaitTimesOut ==
    /\ pc = "terminated"
    /\ ~Exited
    /\ Return("None")
    /\ UNCHANGED <<kind, child, listener, interrupt, typed>>

\* Mutant: communicate is left out, what the pipe holds is not read.
NotCommunicate ==
    /\ pc = "wait"
    /\ kind[call] = "interruptable"
    /\ Return(IF child[call].code = 0 THEN "result0" ELSE "result1")
    /\ UNCHANGED <<kind, child, listener, interrupt, typed>>

\* communicate() reads what the child has left in the pipe.
Communicate ==
    /\ pc = "wait"
    /\ kind[call] = "interruptable"
    /\ child' = [child EXCEPT ![call].pipe = 0]
    /\ Return(IF child[call].code = 0 THEN "result0" ELSE "result1")
    /\ UNCHANGED <<kind, listener, interrupt, typed>>

-----------------------------------------------------------------------------
(* The standard input: a line goes to one of the threads that wait for it. *)

TypeLine ==
    /\ typed.all < MaxLines
    /\ typed' = [waiting |-> typed.waiting + 1, all |-> typed.all + 1]
    /\ UNCHANGED <<kind, call, pc, child, listener, interrupt, answer>>

ReadLine == typed.waiting > 0 /\ typed' = [typed EXCEPT !.waiting = @ - 1]

\* Mutant: the thread listens again after each line.
ListenOn(c) ==
    /\ listener[c] = "input"
    /\ ReadLine
    /\ interrupt' = interrupt \cup {c}
    /\ UNCHANGED <<kind, call, pc, child, listener, answer>>

Listen(c) ==
    /\ listener[c] = "input"
    /\ ReadLine
    /\ listener' = [listener EXCEPT ![c] = "ended"]
    /\ interrupt' = interrupt \cup {c}
    /\ UNCHANGED <<kind, call, pc, child, answer>>

ReadAnswer ==
    /\ pc = "question"
    /\ ReadLine
    /\ pc' = "answered"
    /\ UNCHANGED <<kind, call, child, listener, interrupt, answer>>

-----------------------------------------------------------------------------
(* The child processes.                                                    *)

\* It waits for room in the pipe.
ChildWrites(c) ==
    /\ child[c].st = "running"
    /\ child[c].left > 0
    /\ child[c].pipe < PipeSize
    /\ child' = [child EXCEPT ![c].left = @ - 1, ![c].pipe = @ + 1]
    /\ UNCHANGED <<kind, call, pc, listener, interrupt, answer, typed>>

ChildEnds(c) ==
    /\ child[c].st = "running"
    /\ child[c].left = 0
    /\ child' = [child EXCEPT ![c].st = "exited"]
    /\ UNCHANGED <<kind, call, pc, listener, interrupt, answer, typed>>

\* A signal ends it, and so does a pipe nobody has open any more.
ChildDies(c) ==
    /\ child[c].st = "running"
    /\ \/ child[c].signal = "kill"
       \/ child[c].signal = "terminate" /\ ~child[c].deaf
       \/ answer[c] # "unset" /\ child[c].left > 0
    /\ child' = [child EXCEPT ![c].st = "exited", ![c].code = 1]
    /\ UNCHANGED <<kind, call, pc, listener, interrupt, answer, typed>>

\* Popen is given stdin=DEVNULL by the interruptable call only.
ChildTakesLine(c) ==
    /\ child[c].st = "running"
    /\ kind[c] # "interruptable"
    /\ typed.waiting > 0
    /\ typed' = [waiting |-> typed.waiting - 1, all |-> typed.all - 1]
    /\ UNCHANGED <<kind, call, pc, child, listener, interrupt, answer>>

-----------------------------------------------------------------------------

ThreadStep ==
    \/ Start \/ StartFails
    \/ Read \/ EndOfOutput \/ SimpleEnds \/ CheckedEnds \/ CheckKills
    \/ Poll \/ GetNowait \/ WaitEnds \/ WaitTimesOut \/ Communicate
    \/ ReadAnswer

ChildStep(c) == ChildWrites(c) \/ ChildEnds(c) \/ ChildDies(c)

Next ==
    \/ ThreadStep \/ TypeLine
    \/ \E c \in Calls : Listen(c) \/ ChildStep(c) \/ ChildTakesLine(c)

Spec == Init /\ [][Next]_vars

\* Threads are scheduled, a child that can write or end does, and signals
\* are delivered.  Whether the user types is open.
Fairness ==
    /\ WF_vars(ThreadStep)
    /\ \A c \in Calls : WF_vars(Listen(c)) /\ WF_vars(ChildStep(c))

FairSpec == Spec /\ Fairness

-----------------------------------------------------------------------------
(* Properties.                                                             *)

\* A success is what it says: the child has ended, with code 0, has written
\* all it had, and all of it has been read.
Succeeded(ch) == ch.st = "exited" /\ ch.code = 0 /\ ch.left = 0 /\ ch.pipe = 0

\* A simple or an interruptable call that reports an exit code reports that
\* of a child that has ended, and never a success of one that was cut short.
\* A checked call is honest about a failure only: it reports success of a
\* child that succeeded, and of one it has killed itself (gen_utils.py:188
\* and 205), but of no other.
AnswerHonest == \A c \in Calls :
    /\ answer[c] = "result0" => Succeeded(child[c])
    /\ answer[c] = "true" => Succeeded(child[c]) \/ child[c].signal = "kill"
    /\ answer[c] \in {"result1", "false"} =>
          child[c].st = "exited" /\ child[c].code = 1 /\ child[c].pipe = 0

\* Once a call has returned its child has ended, or has been told to.
NoChildLeft == \A c \in Calls :
    answer[c] # "unset" /\ child[c].st = "running" => child[c].signal # "none"

\* A child that fills the pipe waits in vain for an interruptable call to
\* read it.
Clogged(c) ==
    /\ kind[c] = "interruptable"
    /\ child[c].st = "running" /\ child[c].signal = "none"
    /\ child[c].left > 0 /\ child[c].pipe = PipeSize

\* Every call returns, unless its child clogs the pipe - and a user who is
\* heard by the call's own listener ends it even then.
CommandEnds == \A c \in Calls :
    /\ call = c ~> answer[c] # "unset" \/ Clogged(c)
    /\ call = c /\ c \in interrupt ~> answer[c] # "unset"

\* The listeners left over from earlier calls swallow at most one line each:
\* once no child reads any more, a user who types one line more than there
\* were calls gets an answer in.
QuestionAnswered ==
    /\ pc = "question" /\ typed.all = NumCalls + 1
    /\ \A c \in Calls : child[c].st # "running"
    ~> pc = "answered"
=============================================================================
