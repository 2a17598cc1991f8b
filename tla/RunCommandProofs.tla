-------------------------- MODULE RunCommandProofs --------------------------
(***************************************************************************)
(* What a call of gen_utils reports of its child, and that it leaves none  *)
(* behind, for any number of calls, any output and any capacity of pipes.  *)
(***************************************************************************)
EXTENDS RunCommand, TLAPS

Bounds ==
    /\ NumCalls \in Nat \ {0}
    /\ MaxOutput \in Nat /\ PipeSize \in Nat /\ MaxLines \in Nat

\* A call is made after the other; one not made yet has no child.
CallsInOrder ==
    /\ pc \notin {"question", "answered"} => call \in Calls
    /\ \A c \in Calls : c >= call => answer[c] = "unset"
    /\ \A c \in Calls : c > call \/ (c = call /\ pc = "start") => child[c].st = "none"

\* Where the thread stands in a call tells what kind of call it is, and what
\* its child is up to.
PlaceInCall ==
    /\ pc = "read" => kind[call] # "interruptable"
    /\ pc \in {"poll", "get", "terminated"} => kind[call] = "interruptable"
    /\ pc = "wait" => /\ child[call].st = "exited"
                      /\ kind[call] # "interruptable" => child[call].pipe = 0
    /\ pc = "terminated" => child[call].signal # "none"

\* A child that ends with code 0 has written all it had.
SuccessIsWhole == \A c \in Calls :
    child[c].st = "exited" /\ child[c].code = 0 => child[c].left = 0

Inv ==
    /\ TypeOK
    /\ typed.waiting <= typed.all
    /\ CallsInOrder /\ PlaceInCall /\ SuccessIsWhole
    /\ AnswerHonest /\ NoChildLeft

-----------------------------------------------------------------------------
(* What a step may do to the children and to the answers, put in one form  *)
(* for all the actions.                                                    *)

\* The children change in no way that undoes what a call has reported.
ChildrenGoOn ==
    /\ child' \in [Calls -> Child]
    /\ \A c \in Calls :
          /\ child'[c].st = child[c].st
             \/ (child[c].st = "running" /\ child'[c].st = "exited")
          /\ child[c].signal # "none" => child'[c].signal # "none"
          /\ answer[c] # "unset" /\ child[c].signal = "kill" => child'[c].signal = "kill"
          /\ child[c].st = "exited" => /\ child'[c].code = child[c].code
                                       /\ child'[c].left = child[c].left
                                       /\ child[c].pipe = 0 => child'[c].pipe = 0
          /\ child'[c].st = "exited" /\ child'[c].code = 0 => child'[c].left = 0

\* A step of a call that does not return.
InCall ==
    /\ UNCHANGED <<kind, call, answer>>
    /\ ChildrenGoOn

LEMMA InCallInv ==
    ASSUME Bounds, Inv, InCall, PlaceInCall',
           pc' = "start" => pc = "start",
           pc' \notin {"question", "answered"} => pc \notin {"question", "answered"}
    PROVE  CallsInOrder' /\ SuccessIsWhole' /\ AnswerHonest' /\ NoChildLeft'
<1>1. CallsInOrder'
  BY DEF Inv, InCall, ChildrenGoOn, CallsInOrder, Calls
<1>2. SuccessIsWhole'
  BY DEF InCall, ChildrenGoOn, SuccessIsWhole
<1>3. AnswerHonest'
  BY DEF Inv, InCall, ChildrenGoOn, AnswerHonest, Succeeded
<1>4. NoChildLeft'
  BY DEF Inv, InCall, ChildrenGoOn, NoChildLeft
<1> QED
  BY <1>1, <1>2, <1>3, <1>4

\* What a call that returns must have made sure of.
Deserved(a) ==
    /\ a = "result0" => Succeeded(child'[call])
    /\ a = "true" => Succeeded(child'[call]) \/ child'[call].signal = "kill"
    /\ a \in {"result1", "false"} => /\ child'[call].st = "exited"
                                     /\ child'[call].code = 1 /\ child'[call].pipe = 0
    /\ child'[call].st = "running" => child'[call].signal # "none"

LEMMA ReturnInv ==
    ASSUME Bounds, Inv, NEW a \in Answer \ {"unset"}, Return(a), Deserved(a),
           UNCHANGED kind, ChildrenGoOn, pc \notin {"question", "answered"}
    PROVE  /\ answer' \in [Calls -> Answer] /\ call' \in 1 .. NumCalls + 1
           /\ pc' \in {"start", "question"}
           /\ CallsInOrder' /\ PlaceInCall' /\ SuccessIsWhole'
           /\ AnswerHonest' /\ NoChildLeft'
<1>1. call \in Calls /\ call \in Nat
  BY DEF Inv, CallsInOrder, Calls
<1>2. answer' = [answer EXCEPT ![call] = a] /\ call' = call + 1
      /\ pc' = IF call = NumCalls THEN "question" ELSE "start"
  BY DEF Return
<1>3. answer' \in [Calls -> Answer]
      /\ \A c \in Calls : answer'[c] = IF c = call THEN a ELSE answer[c]
  BY <1>1, <1>2 DEF Inv, TypeOK
<1>4. CallsInOrder'
  <2>1. pc' \notin {"question", "answered"} => call' \in Calls
    BY <1>1, <1>2 DEF Bounds, Calls
  <2>2. \A c \in Calls : c >= call' => answer'[c] = "unset"
    BY <1>1, <1>2, <1>3 DEF Inv, CallsInOrder, Calls
  <2>3. \A c \in Calls : c > call' \/ (c = call' /\ pc' = "start") => child'[c].st = "none"
    BY <1>1, <1>2 DEF Inv, CallsInOrder, Calls, ChildrenGoOn
  <2> QED
    BY <2>1, <2>2, <2>3 DEF CallsInOrder
<1>5. PlaceInCall'
  BY <1>2 DEF PlaceInCall
<1>6. SuccessIsWhole'
  BY DEF ChildrenGoOn, SuccessIsWhole
<1>7. AnswerHonest'
  <2>1. SUFFICES ASSUME NEW c \in Calls
        PROVE  /\ answer'[c] = "result0" => Succeeded(child'[c])
               /\ answer'[c] = "true" => Succeeded(child'[c]) \/ child'[c].signal = "kill"
               /\ answer'[c] \in {"result1", "false"} =>
                     child'[c].st = "exited" /\ child'[c].code = 1 /\ child'[c].pipe = 0
    BY DEF AnswerHonest
  <2>2. CASE c = call
    BY <1>3, <2>2 DEF Deserved
  <2>3. CASE c # call
    BY <1>3, <2>3 DEF Inv, AnswerHonest, ChildrenGoOn, Succeeded
  <2> QED
    BY <2>2, <2>3
<1>8. NoChildLeft'
  BY <1>3 DEF Inv, NoChildLeft, Deserved, ChildrenGoOn
<1>9. call' \in 1 .. NumCalls + 1 /\ pc' \in {"start", "question"}
  BY <1>1, <1>2 DEF Bounds, Calls
<1> QED
  BY <1>3, <1>4, <1>5, <1>6, <1>7, <1>8, <1>9

\* A step that leaves the children alone.
LEMMA SameChildren ==
    ASSUME Inv, UNCHANGED child
    PROVE  ChildrenGoOn
BY DEF Inv, TypeOK, ChildrenGoOn, SuccessIsWhole

-----------------------------------------------------------------------------

LEMMA InitInv == Bounds /\ Init => Inv
<1> SUFFICES ASSUME Bounds, Init PROVE Inv
  OBVIOUS
<1>1. NoChild \in Child /\ NoChild.st = "none"
  BY DEF Bounds, NoChild, Child
<1>2. TypeOK
  BY <1>1 DEF Init, TypeOK, Bounds, Answer, Calls
<1>3. typed.waiting <= typed.all
  BY DEF Init
<1>4. CallsInOrder
  BY <1>1 DEF Init, CallsInOrder, Bounds, Calls
<1>5. PlaceInCall
  BY DEF Init, PlaceInCall
<1>6. SuccessIsWhole /\ AnswerHonest /\ NoChildLeft
  BY <1>1 DEF Init, SuccessIsWhole, AnswerHonest, NoChildLeft
<1> QED
  BY <1>2, <1>3, <1>4, <1>5, <1>6 DEF Inv

\* A child is started only where there was none.
LEMMA StartInv == Bounds /\ Inv /\ Start => Inv'
<1> SUFFICES ASSUME Bounds, Inv, Start PROVE Inv'
  OBVIOUS
<1>1. PICK l \in 0 .. MaxOutput, code \in {0, 1}, d \in BOOLEAN :
        child' = [child EXCEPT ![call] = [st |-> "running", signal |-> "none", left |-> l,
                                          pipe |-> 0, code |-> code, deaf |-> d]]
  BY DEF Start, Popen
<1>2. /\ pc = "start" /\ call \in Calls
      /\ UNCHANGED <<kind, call, answer, interrupt, typed>>
      /\ pc' = IF kind[call] = "interruptable" THEN "poll" ELSE "read"
  BY DEF Inv, Start, Goto, CallsInOrder
<1> DEFINE new == [st |-> "running", signal |-> "none", left |-> l, pipe |-> 0,
                  code |-> code, deaf |-> d]
<1>3. new \in Child /\ new.st = "running"
  BY DEF Bounds, Child
<1>4. child' = [child EXCEPT ![call] = new]
  BY <1>1
<1> HIDE DEF new
<1>5. /\ child' \in [Calls -> Child]
      /\ \A c \in Calls : child'[c] = IF c = call THEN new ELSE child[c]
  BY <1>2, <1>3, <1>4 DEF Inv, TypeOK
<1>6. TypeOK'
  BY <1>2, <1>5 DEF Inv, TypeOK, Start
<1>7. CallsInOrder'
  BY <1>2, <1>5 DEF Inv, TypeOK, CallsInOrder, Calls
<1>8. PlaceInCall'
  BY <1>2, <1>5 DEF PlaceInCall
<1>9. answer[call] = "unset"
  BY <1>2 DEF Inv, TypeOK, CallsInOrder, Calls
<1>10. SuccessIsWhole' /\ AnswerHonest' /\ NoChildLeft'
  BY <1>2, <1>3, <1>5, <1>9 DEF Inv, SuccessIsWhole, AnswerHonest, NoChildLeft
<1> QED
  BY <1>2, <1>6, <1>7, <1>8, <1>10 DEF Inv

LEMMA StartFailsInv == Bounds /\ Inv /\ StartFails => Inv'
<1> SUFFICES ASSUME Bounds, Inv, StartFails PROVE Inv'
  OBVIOUS
<1> DEFINE a == IF kind[call] = "checked" THEN "raised" ELSE "None"
<1>1. a \in Answer \ {"unset"} /\ Return(a) /\ UNCHANGED <<kind, child, interrupt, typed>>
      /\ pc = "start" /\ a \in {"raised", "None"}
  BY DEF StartFails, Answer
<1>2. call \in Calls /\ child[call].st = "none"
  BY <1>1 DEF Inv, CallsInOrder
<1>3. Deserved(a)
  BY <1>1, <1>2 DEF Deserved
<1>4. ChildrenGoOn
  BY <1>1, SameChildren
<1> HIDE DEF a
<1>5. /\ answer' \in [Calls -> Answer] /\ call' \in 1 .. NumCalls + 1
      /\ pc' \in {"start", "question"}
      /\ CallsInOrder' /\ PlaceInCall' /\ SuccessIsWhole'
      /\ AnswerHonest' /\ NoChildLeft'
  BY <1>1, <1>3, <1>4, ReturnInv
<1>6. listener' \in [Calls -> {"none", "input", "ended"}]
  BY DEF StartFails, Inv, TypeOK
<1> QED
  BY <1>1, <1>5, <1>6 DEF Inv, TypeOK

\* The calls that return with what is left of an ended child.
LEMMA EndsInv == Bounds /\ Inv /\ (SimpleEnds \/ CheckedEnds) => Inv'
<1> SUFFICES ASSUME Bounds, Inv, SimpleEnds \/ CheckedEnds PROVE Inv'
  OBVIOUS
<1>1. PICK a \in {"result0", "None", "true", "false"} :
        /\ Return(a) /\ pc = "wait" /\ kind[call] # "interruptable"
        /\ a \in {"result0", "true"} <=> child[call].code = 0
        /\ UNCHANGED <<kind, child, listener, interrupt, typed>>
  BY DEF SimpleEnds, CheckedEnds
<1>2. call \in Calls /\ child[call].st = "exited" /\ child[call].pipe = 0
  BY <1>1 DEF Inv, CallsInOrder, PlaceInCall
<1>3. child[call].code \in {0, 1}
  BY <1>2 DEF Inv, TypeOK, Child
<1>4. Deserved(a)
  BY <1>1, <1>2, <1>3 DEF Deserved, Inv, SuccessIsWhole, Succeeded
<1>5. ChildrenGoOn
  BY <1>1, SameChildren
<1>6. a \in Answer \ {"unset"}
  BY DEF Answer
<1>7. /\ answer' \in [Calls -> Answer] /\ call' \in 1 .. NumCalls + 1
      /\ pc' \in {"start", "question"}
      /\ CallsInOrder' /\ PlaceInCall' /\ SuccessIsWhole'
      /\ AnswerHonest' /\ NoChildLeft'
  BY <1>1, <1>4, <1>5, <1>6, ReturnInv
<1> QED
  BY <1>1, <1>7 DEF Inv, TypeOK

LEMMA CheckKillsInv == Bounds /\ Inv /\ CheckKills => Inv'
<1> SUFFICES ASSUME Bounds, Inv, CheckKills PROVE Inv'
  OBVIOUS
<1>1. /\ Return("true") /\ pc = "read" /\ child' = [child EXCEPT ![call].signal = "kill"]
      /\ UNCHANGED <<kind, listener, interrupt, typed>>
  BY DEF CheckKills, Signal
<1>2. call \in Calls
  BY <1>1 DEF Inv, CallsInOrder
<1>3. ChildrenGoOn /\ child'[call].signal = "kill"
  BY <1>1, <1>2 DEF Inv, TypeOK, Child, ChildrenGoOn, SuccessIsWhole
<1>4. Deserved("true")
  BY <1>3 DEF Deserved
<1>5. /\ answer' \in [Calls -> Answer] /\ call' \in 1 .. NumCalls + 1
      /\ pc' \in {"start", "question"}
      /\ CallsInOrder' /\ PlaceInCall' /\ SuccessIsWhole'
      /\ AnswerHonest' /\ NoChildLeft'
  BY <1>1, <1>3, <1>4, ReturnInv DEF Answer
<1> QED
  BY <1>1, <1>3, <1>5 DEF Inv, TypeOK, ChildrenGoOn

LEMMA CommunicateInv == Bounds /\ Inv /\ Communicate => Inv'
<1> SUFFICES ASSUME Bounds, Inv, Communicate PROVE Inv'
  OBVIOUS
<1> DEFINE a == IF child[call].code = 0 THEN "result0" ELSE "result1"
<1>1. /\ Return(a) /\ pc = "wait" /\ child' = [child EXCEPT ![call].pipe = 0]
      /\ UNCHANGED <<kind, listener, interrupt, typed>>
  BY DEF Communicate
<1>2. call \in Calls /\ child[call].st = "exited"
  BY <1>1 DEF Inv, CallsInOrder, PlaceInCall
<1>3. /\ ChildrenGoOn
      /\ child'[call].st = "exited" /\ child'[call].pipe = 0
      /\ child'[call].code = child[call].code /\ child[call].code \in {0, 1}
      /\ child'[call].left = child[call].left
  BY <1>1, <1>2 DEF Inv, TypeOK, Child, ChildrenGoOn, SuccessIsWhole, Bounds
<1>4. Deserved(a)
  BY <1>2, <1>3 DEF Deserved, Inv, SuccessIsWhole, Succeeded
<1>5. a \in Answer \ {"unset"}
  BY DEF Answer
<1> HIDE DEF a
<1>6. /\ answer' \in [Calls -> Answer] /\ call' \in 1 .. NumCalls + 1
      /\ pc' \in {"start", "question"}
      /\ CallsInOrder' /\ PlaceInCall' /\ SuccessIsWhole'
      /\ AnswerHonest' /\ NoChildLeft'
  BY <1>1, <1>3, <1>4, <1>5, ReturnInv
<1> QED
  BY <1>1, <1>3, <1>6 DEF Inv, TypeOK, ChildrenGoOn

LEMMA WaitTimesOutInv == Bounds /\ Inv /\ WaitTimesOut => Inv'
<1> SUFFICES ASSUME Bounds, Inv, WaitTimesOut PROVE Inv'
  OBVIOUS
<1>1. Return("None") /\ pc = "terminated" /\ UNCHANGED <<kind, child, listener, interrupt, typed>>
  BY DEF WaitTimesOut
<1>2. Deserved("None")
  BY <1>1 DEF Deserved, Inv, PlaceInCall
<1>3. ChildrenGoOn
  BY <1>1, SameChildren
<1>4. /\ answer' \in [Calls -> Answer] /\ call' \in 1 .. NumCalls + 1
      /\ pc' \in {"start", "question"}
      /\ CallsInOrder' /\ PlaceInCall' /\ SuccessIsWhole'
      /\ AnswerHonest' /\ NoChildLeft'
  BY <1>1, <1>2, <1>3, ReturnInv DEF Answer
<1> QED
  BY <1>1, <1>4 DEF Inv, TypeOK

-----------------------------------------------------------------------------

\* The steps within a call: the thread's, the listeners' and the children's.
LEMMA ThreadInCallInv ==
    Bounds /\ Inv /\ (Read \/ EndOfOutput \/ Poll \/ GetNowait \/ WaitEnds \/ ReadAnswer) => Inv'
<1> SUFFICES ASSUME Bounds, Inv PROVE
        (Read \/ EndOfOutput \/ Poll \/ GetNowait \/ WaitEnds \/ ReadAnswer) => Inv'
  OBVIOUS
<1>1. CASE Read
  <2>1. pc = "read" /\ call \in Calls /\ child[call].pipe > 0
        /\ UNCHANGED <<kind, call, pc, listener, interrupt, answer, typed>>
        /\ child' = [child EXCEPT ![call].pipe = @ - 1]
    BY <1>1 DEF Read, Inv, CallsInOrder
  <2>2. ChildrenGoOn
    BY <2>1 DEF Inv, TypeOK, Child, ChildrenGoOn, SuccessIsWhole, Bounds
  <2>3. PlaceInCall'
    BY <2>1 DEF Inv, PlaceInCall
  <2>4. CallsInOrder' /\ SuccessIsWhole' /\ AnswerHonest' /\ NoChildLeft'
    BY <2>1, <2>2, <2>3, InCallInv DEF InCall
  <2> QED
    BY <2>1, <2>2, <2>3, <2>4 DEF Inv, TypeOK, ChildrenGoOn
<1>2. CASE EndOfOutput
  <2>1. pc = "read" /\ pc' = "wait" /\ Exited /\ child[call].pipe = 0
        /\ UNCHANGED <<kind, call, answer, child, listener, interrupt, typed>>
    BY <1>2 DEF EndOfOutput, Goto
  <2>2. PlaceInCall'
    BY <2>1 DEF PlaceInCall, Exited
  <2>3. CallsInOrder' /\ SuccessIsWhole' /\ AnswerHonest' /\ NoChildLeft'
    BY <2>1, <2>2, SameChildren, InCallInv DEF InCall
  <2> QED
    BY <2>1, <2>2, <2>3 DEF Inv, TypeOK
<1>3. CASE Poll
  <2>1. pc = "poll" /\ pc' = (IF Exited THEN "wait" ELSE "get")
        /\ UNCHANGED <<kind, call, answer, child, listener, interrupt, typed>>
    BY <1>3 DEF Poll, Goto
  <2>2. PlaceInCall'
    BY <2>1 DEF Inv, PlaceInCall, Exited
  <2>3. CallsInOrder' /\ SuccessIsWhole' /\ AnswerHonest' /\ NoChildLeft'
    BY <2>1, <2>2, SameChildren, InCallInv DEF InCall
  <2> QED
    BY <2>1, <2>2, <2>3 DEF Inv, TypeOK
<1>4. CASE GetNowait
  <2>1. pc = "get" /\ call \in Calls /\ kind[call] = "interruptable"
        /\ UNCHANGED <<kind, call, answer, listener, typed>> /\ interrupt' \subseteq interrupt
    BY <1>4 DEF GetNowait, Goto, Inv, CallsInOrder, PlaceInCall
  <2>2. \/ pc' = "poll" /\ child' = child
        \/ pc' = "terminated" /\ child' = [child EXCEPT ![call].signal = "terminate"]
    BY <1>4 DEF GetNowait, Goto, Signal
  <2>3. ChildrenGoOn /\ PlaceInCall'
    <3>1. CASE pc' = "poll" /\ child' = child
      BY <2>1, <3>1, SameChildren DEF PlaceInCall
    <3>2. CASE pc' = "terminated" /\ child' = [child EXCEPT ![call].signal = "terminate"]
      <4>1. ChildrenGoOn /\ child'[call].signal # "none"
        BY <2>1, <3>2 DEF Inv, TypeOK, Child, ChildrenGoOn, SuccessIsWhole, CallsInOrder, Calls
      <4> QED
        BY <2>1, <3>2, <4>1 DEF PlaceInCall
    <3> QED
      BY <2>2, <3>1, <3>2
  <2>4. CallsInOrder' /\ SuccessIsWhole' /\ AnswerHonest' /\ NoChildLeft'
    BY <2>1, <2>2, <2>3, InCallInv DEF InCall
  <2> QED
    BY <2>1, <2>2, <2>3, <2>4 DEF Inv, TypeOK, ChildrenGoOn
<1>5. CASE WaitEnds
  <2>1. pc = "terminated" /\ pc' = "wait" /\ Exited
        /\ UNCHANGED <<kind, call, answer, child, listener, interrupt, typed>>
    BY <1>5 DEF WaitEnds, Goto
  <2>2. PlaceInCall'
    BY <2>1 DEF Inv, PlaceInCall, Exited
  <2>3. CallsInOrder' /\ SuccessIsWhole' /\ AnswerHonest' /\ NoChildLeft'
    BY <2>1, <2>2, SameChildren, InCallInv DEF InCall
  <2> QED
    BY <2>1, <2>2, <2>3 DEF Inv, TypeOK
<1>6. CASE ReadAnswer
  <2>1. pc = "question" /\ pc' = "answered" /\ typed.waiting > 0
        /\ typed' = [typed EXCEPT !.waiting = @ - 1]
        /\ UNCHANGED <<kind, call, child, listener, interrupt, answer>>
    BY <1>6 DEF ReadAnswer, ReadLine
  <2>2. typed' \in [waiting: 0 .. MaxLines, all: 0 .. MaxLines]
        /\ typed'.waiting <= typed'.all
    BY <2>1 DEF Inv, TypeOK, Bounds
  <2>3. PlaceInCall'
    BY <2>1 DEF PlaceInCall
  <2>4. CallsInOrder' /\ SuccessIsWhole' /\ AnswerHonest' /\ NoChildLeft'
    BY <2>1 DEF Inv, CallsInOrder, SuccessIsWhole, AnswerHonest, NoChildLeft
  <2> QED
    BY <2>1, <2>2, <2>3, <2>4 DEF Inv, TypeOK
<1> QED
  BY <1>1, <1>2, <1>3, <1>4, <1>5, <1>6

LEMMA ChildStepInv ==
    ASSUME Bounds, Inv, NEW c \in Calls, ChildStep(c)
    PROVE  Inv'
<1>1. UNCHANGED <<kind, call, pc, listener, interrupt, answer, typed>>
  BY DEF ChildStep, ChildWrites, ChildEnds, ChildDies
<1>2. ChildrenGoOn
  <2>1. child[c].st = "running" /\ child[c] \in Child
    BY DEF ChildStep, ChildWrites, ChildEnds, ChildDies, Inv, TypeOK
  <2>2. CASE ChildWrites(c)
    BY <2>1, <2>2 DEF ChildWrites, Inv, TypeOK, Child, ChildrenGoOn, SuccessIsWhole, Bounds
  <2>3. CASE ChildEnds(c)
    BY <2>1, <2>3 DEF ChildEnds, Inv, TypeOK, Child, ChildrenGoOn, SuccessIsWhole, Bounds
  <2>4. CASE ChildDies(c)
    <3>1. child' = [child EXCEPT ![c].st = "exited", ![c].code = 1]
      BY <2>4 DEF ChildDies
    <3>2. child' \in [Calls -> Child]
      <4> DEFINE ended == [child EXCEPT ![c].st = "exited"]
      <4>1. ended \in [Calls -> Child]
        BY DEF Inv, TypeOK, Child
      <4>2. child' = [ended EXCEPT ![c].code = 1]
        BY <3>1, <4>1 DEF Inv, TypeOK
      <4> HIDE DEF ended
      <4> QED
        BY <4>1, <4>2 DEF Child
    <3>3. /\ child'[c].st = "exited" /\ child'[c].code = 1
          /\ child'[c].signal = child[c].signal
      BY <2>1, <3>1 DEF Inv, TypeOK, Child
    <3>4. \A x \in Calls \ {c} : child'[x] = child[x]
      BY <3>1 DEF Inv, TypeOK
    <3> QED
      BY <2>1, <3>2, <3>3, <3>4 DEF Inv, ChildrenGoOn, SuccessIsWhole
  <2> QED
    BY <2>2, <2>3, <2>4 DEF ChildStep
<1>3. PlaceInCall'
  BY <1>1, <1>2 DEF Inv, PlaceInCall, CallsInOrder, ChildrenGoOn
<1>4. CallsInOrder' /\ SuccessIsWhole' /\ AnswerHonest' /\ NoChildLeft'
  BY <1>1, <1>2, <1>3, InCallInv DEF InCall
<1> QED
  BY <1>1, <1>2, <1>3, <1>4 DEF Inv, TypeOK, ChildrenGoOn

\* The standard input changes neither calls nor children.
LEMMA InputInv ==
    ASSUME Bounds, Inv,
           TypeLine \/ \E c \in Calls : Listen(c) \/ ChildTakesLine(c)
    PROVE  Inv'
<1>1. UNCHANGED <<kind, call, pc, child, answer>>
  BY DEF TypeLine, Listen, ChildTakesLine
<1>2. /\ typed' \in [waiting: 0 .. MaxLines, all: 0 .. MaxLines]
      /\ typed'.waiting <= typed'.all
  <2>1. /\ typed.waiting \in 0 .. MaxLines /\ typed.all \in 0 .. MaxLines
        /\ typed.waiting <= typed.all /\ MaxLines \in Nat
        /\ typed = [waiting |-> typed.waiting, all |-> typed.all]
    BY DEF Inv, TypeOK, Bounds
  <2>2. CASE TypeLine
    BY <2>1, <2>2 DEF TypeLine
  <2>3. CASE \E c \in Calls : Listen(c)
    BY <2>1, <2>3 DEF Listen, ReadLine
  <2>4. CASE \E c \in Calls : ChildTakesLine(c)
    BY <2>1, <2>4 DEF ChildTakesLine
  <2> QED
    BY <2>2, <2>3, <2>4
<1>3. listener' \in [Calls -> {"none", "input", "ended"}] /\ interrupt' \subseteq Calls
  BY DEF TypeLine, Listen, ChildTakesLine, Inv, TypeOK
<1>4. PlaceInCall' /\ CallsInOrder' /\ SuccessIsWhole' /\ AnswerHonest' /\ NoChildLeft'
  BY <1>1 DEF Inv, PlaceInCall, CallsInOrder, SuccessIsWhole, AnswerHonest, NoChildLeft
<1> QED
  BY <1>1, <1>2, <1>3, <1>4 DEF Inv, TypeOK

LEMMA StepInv == Bounds /\ Inv /\ [Next]_vars => Inv'
<1> SUFFICES ASSUME Bounds, Inv, [Next]_vars PROVE Inv'
  OBVIOUS
<1>1. CASE ThreadStep
  BY <1>1, StartInv, StartFailsInv, EndsInv, CheckKillsInv, CommunicateInv, WaitTimesOutInv,
     ThreadInCallInv DEF ThreadStep
<1>2. CASE TypeLine \/ \E c \in Calls : Listen(c) \/ ChildTakesLine(c)
  BY <1>2, InputInv
<1>3. CASE \E c \in Calls : ChildStep(c)
  BY <1>3, ChildStepInv
<1>4. CASE UNCHANGED vars
  BY <1>4 DEF vars, Inv, TypeOK, PlaceInCall, CallsInOrder, SuccessIsWhole, AnswerHonest,
              NoChildLeft, Exited
<1> QED
  BY <1>1, <1>2, <1>3, <1>4 DEF Next

LEMMA InvHolds ==
    ASSUME Bounds
    PROVE  Spec => []Inv
BY InitInv, StepInv, PTL DEF Spec

-----------------------------------------------------------------------------

\* Calls, children and listeners are well typed.
THEOREM CommandTypeCorrect ==
    ASSUME Bounds
    PROVE  Spec => []TypeOK
<1>1. Inv => TypeOK
  BY DEF Inv
<1> QED
  BY <1>1, InvHolds, PTL

\* A call reports an exit code only of a child that has ended, and a success
\* only of one whose whole output has been read - or, the checked call, of a
\* child it has killed.
THEOREM AnswerSound ==
    ASSUME Bounds
    PROVE  Spec => []AnswerHonest
<1>1. Inv => AnswerHonest
  BY DEF Inv
<1> QED
  BY <1>1, InvHolds, PTL

\* A call that has returned leaves no child it has not signalled.
THEOREM NoChildSound ==
    ASSUME Bounds
    PROVE  Spec => []NoChildLeft
<1>1. Inv => NoChildLeft
  BY DEF Inv
<1> QED
  BY <1>1, InvHolds, PTL
=============================================================================
