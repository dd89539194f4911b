------------------------ MODULE IdempotentRunProofs ------------------------
(***************************************************************************)
(* What follows from the promise of IdempotentRun, for any calls, runs and *)
(* identities: why a caller can rely on it.                                *)
(***************************************************************************)
EXTENDS IdempotentRun, TLAPS

-----------------------------------------------------------------------------
(***************************************************************************)
(* The inductive invariant.                                                *)
(***************************************************************************)
Answer ==
  {Raised} \cup
  [identity : Identities, resultStatus : {"COMPLETED", "FAILED"}, attemptId : Nat,
   proposal : Calls \cup {None}]

Execution == [call : Calls, attemptId : Nat]

\* None is not one of the values it stands in for.
NoneApart == None \notin Request /\ None \notin Answer

TypeOK ==
  /\ request \in [Calls -> Request \cup {None}]
  /\ answer \in [Calls -> Answer \cup {None}]
  /\ pinned \in [Runs -> Identities \cup {None}]
  /\ attempts \in [Runs -> Nat]
  /\ running \in [Runs -> SUBSET Execution]
  /\ kept \in [Runs -> Answer \cup {None}]

Answered(c) == answer[c] # None

\* An answer that is no exception is of the call's own input, under a number
\* its run has used; a COMPLETED one is the run's.
AnswerOK(c) ==
  /\ request[c] # None
  /\ answer[c].resultStatus = "RAISED" => answer[c] = Raised
  /\ answer[c].resultStatus # "RAISED" =>
       /\ answer[c].identity = request[c].identity
       /\ answer[c].attemptId \in 1..attempts[RunOf(c)]
  /\ answer[c].resultStatus = "COMPLETED" => answer[c] = kept[RunOf(c)]

AnswersOK == \A c \in Calls : Answered(c) => AnswerOK(c)

\* An execution has the run to itself, and its number is nobody else's.
RunningOK ==
  \A r \in Runs : \A x \in running[r] :
    /\ running[r] = {x}
    /\ request[x.call] # None /\ RunOf(x.call) = r /\ ~ Answered(x.call)
    /\ pinned[r] = request[x.call].identity
    /\ x.attemptId \in 1..attempts[r]
    /\ \A c \in Calls : Answered(c) /\ RunOf(c) = r => answer[c].attemptId # x.attemptId

\* Once an answer is kept, nothing is executed.
KeptOK ==
  \A r \in Runs : kept[r] # None =>
    /\ running[r] = {}
    /\ kept[r].resultStatus # "RAISED"
    /\ kept[r].identity = pinned[r]
    /\ kept[r].attemptId \in 1..attempts[r]
    /\ \A c \in Calls :
         Answered(c) /\ RunOf(c) = r /\ answer[c].attemptId = kept[r].attemptId
         => answer[c] = kept[r]

\* An attempt number is on one answer of a run.
AttemptNamesOneAnswer ==
  \A c, d \in Calls :
    /\ Answered(c) /\ Answered(d) /\ RunOf(c) = RunOf(d)
    /\ answer[c].attemptId = answer[d].attemptId
    => answer[c] = answer[d]

IInv == TypeOK /\ AnswersOK /\ RunningOK /\ KeptOK /\ AttemptNamesOneAnswer

-----------------------------------------------------------------------------
(***************************************************************************)
(* The steps.                                                              *)
(***************************************************************************)
LEMMA Initial == Init => IInv
  BY DEF Init, IInv, TypeOK, AnswersOK, RunningOK, KeptOK, AttemptNamesOneAnswer, Answered

\* Everything but types is about one run: calls of other runs see no change.
LEMMA AskStep ==
  ASSUME NoneApart, IInv, NEW c \in Calls, Ask(c)
  PROVE  IInv'
<1>1. ~ Answered(c)
  BY DEF Ask, IInv, AnswersOK, AnswerOK
<1>2. \A d \in Calls : d # c => request'[d] = request[d]
  BY DEF Ask, IInv, TypeOK
<1>3. UNCHANGED <<answer, pinned, attempts, running, kept>> /\ request[c] = None
  BY DEF Ask
<1>4. TypeOK'
  BY DEF Ask, IInv, TypeOK
<1>5. AnswersOK' /\ AttemptNamesOneAnswer'
  BY <1>1, <1>2, <1>3 DEF IInv, AnswersOK, AnswerOK, AttemptNamesOneAnswer, Answered, RunOf
<1>6. RunningOK'
  <2> SUFFICES ASSUME NEW r \in Runs, NEW x \in running[r]
               PROVE  /\ running[r] = {x}
                      /\ request'[x.call] # None /\ request'[x.call].agentRunId = r
                      /\ answer[x.call] = None
                      /\ pinned[r] = request'[x.call].identity
                      /\ x.attemptId \in 1..attempts[r]
                      /\ \A d \in Calls :
                           answer[d] # None /\ request'[d].agentRunId = r
                           => answer[d].attemptId # x.attemptId
    BY <1>3 DEF RunningOK, Answered, RunOf
  <2>1. x.call \in Calls /\ x.call # c
    BY <1>3 DEF IInv, TypeOK, Execution, RunningOK
  <2> QED BY <1>1, <1>2, <2>1 DEF IInv, RunningOK, Answered, RunOf
<1>7. KeptOK'
  BY <1>1, <1>2, <1>3 DEF IInv, KeptOK, Answered, RunOf
<1> QED BY <1>4, <1>5, <1>6, <1>7 DEF IInv

LEMMA StartStep ==
  ASSUME NoneApart, IInv, NEW c \in Calls, Start(c)
  PROVE  IInv'
<1> DEFINE r == RunOf(c)
           n == Number(r)
           mine == [call |-> c, attemptId |-> n]
<1>1. /\ request[c] \in Request /\ ~ Answered(c) /\ r \in Runs /\ n \in Nat \ {0}
      /\ n = attempts[r] + 1 /\ attempts[r] \in Nat
  BY DEF Start, Idle, Open, Answered, IInv, TypeOK, RunOf, Request, Number
<1>2. running[r] = {} /\ kept[r] = None /\ UNCHANGED <<request, answer, kept>>
  BY DEF Start
<1>3. /\ attempts' = [attempts EXCEPT ![r] = n]
      /\ running' = [running EXCEPT ![r] = {mine}]
      /\ pinned' = [pinned EXCEPT ![r] = request[c].identity]
  BY DEF Start
<1>4. mine \in Execution /\ mine.call = c /\ mine.attemptId = n
  BY <1>1 DEF Execution
<1> HIDE DEF n, mine
<1>5. TypeOK'
  BY <1>1, <1>2, <1>3, <1>4 DEF IInv, TypeOK, Request
<1>6. \A s \in Runs : attempts'[s] \in Nat /\ attempts[s] \in Nat /\ attempts[s] <= attempts'[s]
  BY <1>1, <1>3 DEF IInv, TypeOK
<1>7. \A d \in Calls : Answered(d) => RunOf(d) \in Runs
  BY DEF IInv, TypeOK, AnswersOK, AnswerOK, RunOf, Request
<1>8. AnswersOK' /\ AttemptNamesOneAnswer'
  BY <1>2, <1>6, <1>7 DEF IInv, AnswersOK, AnswerOK, AttemptNamesOneAnswer, Answered, RunOf
<1>9. \A d \in Calls : Answered(d) /\ RunOf(d) = r => answer[d].attemptId # n
  BY <1>1 DEF IInv, AnswersOK, AnswerOK, Raised
<1>10. RunningOK'
  <2> SUFFICES ASSUME NEW s \in Runs, NEW x \in running'[s]
               PROVE  /\ running'[s] = {x}
                      /\ request[x.call] # None /\ RunOf(x.call) = s /\ ~ Answered(x.call)
                      /\ pinned'[s] = request[x.call].identity
                      /\ x.attemptId \in 1..attempts'[s]
                      /\ \A d \in Calls :
                           Answered(d) /\ RunOf(d) = s => answer[d].attemptId # x.attemptId
    BY <1>2 DEF RunningOK, Answered, RunOf
  <2>1. CASE s = r
    <3>1. running'[s] = {mine} /\ x = mine /\ pinned'[s] = request[c].identity
          /\ attempts'[s] = n
      BY <1>1, <1>3, <2>1 DEF IInv, TypeOK
    <3>2. request[c] # None
      BY <1>1 DEF NoneApart
    <3> QED BY <1>1, <1>4, <1>9, <2>1, <3>1, <3>2
  <2>2. CASE s # r
    <3>1. running'[s] = running[s] /\ pinned'[s] = pinned[s] /\ attempts'[s] = attempts[s]
      BY <1>3, <2>2 DEF IInv, TypeOK
    <3> QED BY <3>1 DEF IInv, RunningOK
  <2> QED BY <2>1, <2>2
<1>11. KeptOK'
  <2> SUFFICES ASSUME NEW s \in Runs, kept[s] # None
               PROVE  /\ running'[s] = running[s] /\ pinned'[s] = pinned[s]
                      /\ attempts'[s] = attempts[s]
    BY <1>2 DEF IInv, KeptOK, Answered, RunOf
  <2> QED BY <1>2, <1>3 DEF IInv, TypeOK
<1> QED BY <1>5, <1>8, <1>10, <1>11 DEF IInv

\* A call gets an answer that fits its run, whose execution, if it is still
\* going on, is somebody else's.
Answers(c, a) ==
  LET r == RunOf(c)
  IN /\ Open(c)
     /\ answer' = [answer EXCEPT ![c] = a]
     /\ UNCHANGED <<request, pinned>>
     /\ \A s \in Runs :
          /\ attempts'[s] >= attempts[s]
          /\ running'[s] = {} \/ (running'[s] = running[s] /\ \A x \in running[s] : x.call # c)
          /\ kept'[s] = kept[s] \/ (s = r /\ kept[s] = None /\ kept'[s] = a)
          /\ kept'[s] # None => running'[s] = {}
     /\ a.resultStatus = "RAISED" => a = Raised
     /\ a.resultStatus # "RAISED" =>
          a.identity = request[c].identity /\ a.attemptId \in 1..attempts'[r]
     /\ a.resultStatus = "COMPLETED" => a = kept'[r]
     /\ kept'[r] # kept[r] => a.resultStatus # "RAISED" /\ a.identity = pinned[r]
     /\ \A x \in running'[r] : a.attemptId # x.attemptId
     /\ kept'[r] # None /\ a.attemptId = kept'[r].attemptId => a = kept'[r]
     /\ \A d \in Calls :
          Answered(d) /\ RunOf(d) = r /\ answer[d].attemptId = a.attemptId => answer[d] = a

LEMMA AnswerStep ==
  ASSUME NoneApart, IInv, TypeOK', NEW c \in Calls, NEW a \in Answer, Answers(c, a)
  PROVE  IInv'
<1> USE DEF Answers
<1>1. /\ request[c] \in Request /\ RunOf(c) \in Runs /\ ~ Answered(c) /\ a # None
  BY DEF Open, Answered, IInv, TypeOK, RunOf, Request, NoneApart
<1>2. answer'[c] = a /\ \A d \in Calls : d # c => answer'[d] = answer[d]
  BY DEF IInv, TypeOK
<1>3. \A d \in Calls : Answered(d) => RunOf(d) \in Runs
  BY DEF IInv, TypeOK, AnswersOK, AnswerOK, RunOf, Request
<1>4. \A r \in Runs : attempts[r] \in Nat /\ attempts'[r] \in Nat
  BY DEF IInv, TypeOK
<1>5. \A d \in Calls : RunOf(d)' = RunOf(d)
  BY DEF RunOf
<1>6. \A d \in Calls : answer'[d] # None /\ d # c => Answered(d)
  BY <1>2 DEF Answered
<1>7. AnswersOK'
  <2> SUFFICES ASSUME NEW d \in Calls, Answered(d)' PROVE AnswerOK(d)'
    BY DEF AnswersOK
  <2>1. CASE d = c
    BY <1>1, <1>2, <1>5, <2>1 DEF AnswerOK, NoneApart, Raised
  <2>2. CASE d # c
    <3>1. Answered(d) /\ AnswerOK(d) /\ RunOf(d) \in Runs
      BY <1>2, <1>3, <2>2 DEF Answered, IInv, AnswersOK
    <3>2. answer[d].resultStatus = "COMPLETED" => kept'[RunOf(d)] = answer[d]
      <4> SUFFICES ASSUME answer[d].resultStatus = "COMPLETED" PROVE kept'[RunOf(d)] = answer[d]
        OBVIOUS
      <4>1. answer[d] = kept[RunOf(d)] /\ kept[RunOf(d)] # None
        BY <3>1 DEF AnswerOK, Answered
      <4> QED BY <3>1, <4>1
    <3>3. answer[d].attemptId \in 1..attempts[RunOf(d)]
             => answer[d].attemptId \in 1..attempts'[RunOf(d)]
      BY <1>4, <3>1
    <3> QED BY <1>2, <1>5, <2>2, <3>1, <3>2, <3>3 DEF AnswerOK, Raised
  <2> QED BY <2>1, <2>2
<1>8. RunningOK'
  <2> SUFFICES ASSUME NEW r \in Runs, NEW x \in running'[r]
               PROVE  /\ running'[r] = {x}
                      /\ request[x.call] # None /\ RunOf(x.call) = r /\ answer'[x.call] = None
                      /\ pinned[r] = request[x.call].identity
                      /\ x.attemptId \in 1..attempts'[r]
                      /\ \A d \in Calls : answer'[d] # None /\ RunOf(d) = r
                                          => answer'[d].attemptId # x.attemptId
    BY <1>5 DEF RunningOK, Answered, RunOf
  <2>1. running'[r] = running[r] /\ x \in running[r] /\ x.call # c /\ x.call \in Calls
    BY DEF IInv, TypeOK, Execution
  <2>2. /\ running[r] = {x}
        /\ request[x.call] # None /\ RunOf(x.call) = r /\ ~ Answered(x.call)
        /\ pinned[r] = request[x.call].identity
        /\ x.attemptId \in 1..attempts[r]
        /\ \A d \in Calls : Answered(d) /\ RunOf(d) = r => answer[d].attemptId # x.attemptId
    BY <2>1 DEF IInv, RunningOK
  <2>3. x.attemptId \in 1..attempts'[r]
    BY <1>4, <2>2
  <2>4. ASSUME NEW d \in Calls, answer'[d] # None, RunOf(d) = r
        PROVE  answer'[d].attemptId # x.attemptId
    BY <1>2, <1>6, <2>2, <2>4
  <2> QED BY <1>2, <2>1, <2>2, <2>3, <2>4 DEF Answered
<1>9. KeptOK'
  <2> SUFFICES ASSUME NEW r \in Runs, kept'[r] # None
               PROVE  /\ running'[r] = {}
                      /\ kept'[r].resultStatus # "RAISED"
                      /\ kept'[r].identity = pinned[r]
                      /\ kept'[r].attemptId \in 1..attempts'[r]
                      /\ \A d \in Calls :
                           answer'[d] # None /\ RunOf(d) = r
                           /\ answer'[d].attemptId = kept'[r].attemptId
                           => answer'[d] = kept'[r]
    BY <1>5 DEF KeptOK, Answered, RunOf
  <2>1. CASE kept'[r] = kept[r]
    <3>1. /\ kept[r].resultStatus # "RAISED"
          /\ kept[r].identity = pinned[r]
          /\ kept[r].attemptId \in 1..attempts[r]
          /\ \A d \in Calls :
               Answered(d) /\ RunOf(d) = r /\ answer[d].attemptId = kept[r].attemptId
               => answer[d] = kept[r]
      BY <2>1 DEF IInv, KeptOK
    <3>2. kept[r].attemptId \in 1..attempts'[r]
      BY <1>4, <3>1
    <3>3. ASSUME NEW d \in Calls, answer'[d] # None, RunOf(d) = r,
                 answer'[d].attemptId = kept'[r].attemptId
          PROVE  answer'[d] = kept'[r]
      <4>1. CASE d = c
        BY <1>2, <3>3, <4>1
      <4>2. CASE d # c
        BY <1>2, <1>6, <2>1, <3>1, <3>3, <4>2
      <4> QED BY <4>1, <4>2
    <3> QED BY <2>1, <3>1, <3>2, <3>3
  <2>2. CASE kept'[r] # kept[r]
    <3>1. r = RunOf(c) /\ kept'[r] = a
      BY <2>2
    <3>2. ASSUME NEW d \in Calls, answer'[d] # None, RunOf(d) = r, answer'[d].attemptId = a.attemptId
          PROVE  answer'[d] = a
      BY <1>2, <1>6, <3>1, <3>2
    <3> QED BY <2>2, <3>1, <3>2
  <2> QED BY <2>1, <2>2
<1>10. AttemptNamesOneAnswer'
  <2> SUFFICES ASSUME NEW d \in Calls, NEW e \in Calls, answer'[d] # None, answer'[e] # None,
                      RunOf(d) = RunOf(e), answer'[d].attemptId = answer'[e].attemptId
               PROVE  answer'[d] = answer'[e]
    BY <1>5 DEF AttemptNamesOneAnswer, Answered
  <2>1. CASE d = c
    BY <1>2, <1>6, <2>1
  <2>2. CASE e = c
    BY <1>2, <1>6, <2>2
  <2>3. CASE d # c /\ e # c
    BY <1>2, <1>6, <2>3 DEF IInv, AttemptNamesOneAnswer
  <2> QED BY <2>1, <2>2, <2>3
<1> QED BY <1>7, <1>8, <1>9, <1>10 DEF IInv

LEMMA FinishStep ==
  ASSUME NoneApart, IInv, NEW c \in Calls, Finish(c)
  PROVE  IInv'
<1> DEFINE r == RunOf(c)
           i == request[c].identity
<1>1. /\ Open(c) /\ r \in Runs /\ i \in Identities /\ request[c] # None
      /\ running' = [running EXCEPT ![r] = {}]
      /\ UNCHANGED <<request, pinned, attempts>>
  BY DEF Finish, Open, IInv, TypeOK, RunOf, Request
<1>2. PICK x \in running[r] :
        /\ x.call = c
        /\ \/ /\ answer' = [answer EXCEPT ![c] = Completed(i, x.attemptId, c)]
              /\ kept' = [kept EXCEPT ![r] = answer'[c]]
           \/ /\ answer' = [answer EXCEPT ![c] = Failed(i, x.attemptId)]
              /\ kept' \in {kept, [kept EXCEPT ![r] = answer'[c]]}
  BY DEF Finish
<1>3. /\ kept[r] = None /\ pinned[r] = i /\ x.attemptId \in 1..attempts[r]
      /\ attempts[r] \in Nat
      /\ \A d \in Calls : Answered(d) /\ RunOf(d) = r => answer[d].attemptId # x.attemptId
  BY <1>1, <1>2 DEF IInv, TypeOK, RunningOK, KeptOK
<1>4. PICK a \in Answer :
        /\ answer' = [answer EXCEPT ![c] = a]
        /\ a.identity = i /\ a.attemptId = x.attemptId
        /\ \/ a.resultStatus = "COMPLETED" /\ kept' = [kept EXCEPT ![r] = a]
           \/ a.resultStatus = "FAILED" /\ kept' \in {kept, [kept EXCEPT ![r] = a]}
  <2> DEFINE completed == Completed(i, x.attemptId, c)
             failed == Failed(i, x.attemptId)
  <2>1. completed \in Answer /\ failed \in Answer
    BY <1>1, <1>3 DEF Answer, Completed, Failed
  <2>2. /\ completed.identity = i /\ completed.attemptId = x.attemptId
        /\ failed.identity = i /\ failed.attemptId = x.attemptId
        /\ completed.resultStatus = "COMPLETED" /\ failed.resultStatus = "FAILED"
    BY DEF Completed, Failed
  <2>3. answer \in [Calls -> Answer \cup {None}]
    BY DEF IInv, TypeOK
  <2> HIDE DEF completed, failed
  <2>4. CASE answer' = [answer EXCEPT ![c] = completed] /\ kept' = [kept EXCEPT ![r] = answer'[c]]
    BY <2>1, <2>2, <2>3, <2>4
  <2>5. CASE answer' = [answer EXCEPT ![c] = failed]
               /\ kept' \in {kept, [kept EXCEPT ![r] = answer'[c]]}
    BY <2>1, <2>2, <2>3, <2>5
  <2> QED BY <1>2, <2>4, <2>5 DEF completed, failed
<1> HIDE DEF r, i
<1>5. /\ running'[r] = {} /\ \A s \in Runs : s # r => running'[s] = running[s]
      /\ kept'[r] \in {kept[r], a} /\ \A s \in Runs : s # r => kept'[s] = kept[s]
      /\ a.resultStatus = "COMPLETED" => kept'[r] = a
  BY <1>1, <1>4 DEF IInv, TypeOK
<1>6. TypeOK'
  BY <1>1, <1>4 DEF IInv, TypeOK
<1>7. \A s \in Runs : s # r => \A y \in running[s] : y.call # c
  BY DEF IInv, RunningOK, r
<1>8. \A s \in Runs : kept[s] # None => running[s] = {}
  BY DEF IInv, KeptOK
<1>9. a # None
  BY DEF NoneApart
<1>10. \A s \in Runs : attempts'[s] >= attempts[s]
  BY <1>1 DEF IInv, TypeOK
<1>11. \A s \in Runs : running'[s] = {} \/ (running'[s] = running[s] /\ \A y \in running[s] : y.call # c)
  BY <1>5, <1>7
<1>12. \A s \in Runs : kept'[s] = kept[s] \/ (s = RunOf(c) /\ kept[s] = None /\ kept'[s] = a)
  BY <1>3, <1>5 DEF r
<1>13. \A s \in Runs : kept'[s] # None => running'[s] = {}
  BY <1>5, <1>8
<1>14. a.attemptId \in 1..attempts'[RunOf(c)]
  BY <1>1, <1>3, <1>4 DEF r
<1>15. kept'[RunOf(c)] # None /\ a.attemptId = kept'[RunOf(c)].attemptId => a = kept'[RunOf(c)]
  BY <1>3, <1>5 DEF r
<1>16. \A d \in Calls : Answered(d) /\ RunOf(d) = RunOf(c) => answer[d].attemptId # a.attemptId
  BY <1>3, <1>4 DEF r
<1>17. Answers(c, a)
  BY <1>1, <1>3, <1>4, <1>5, <1>10, <1>11, <1>12, <1>13, <1>14, <1>15, <1>16 DEF Answers, r, i
<1> QED BY <1>6, <1>17, AnswerStep

\* An exception has no attempt, so it is no answer that could meet another.
LEMMA RaisedFits ==
  ASSUME NoneApart, IInv, NEW c \in Calls, Open(c), UNCHANGED <<request, pinned, attempts, kept>>,
         answer' = [answer EXCEPT ![c] = Raised],
         running' = [running EXCEPT ![RunOf(c)] = {}]
         \/ (running' = running /\ \A x \in running[RunOf(c)] : x.call # c)
  PROVE  IInv'
<1> DEFINE r == RunOf(c)
<1>1. r \in Runs /\ request[c] # None
  BY DEF Open, IInv, TypeOK, RunOf, Request
<1>2. /\ Raised \in Answer /\ Raised.attemptId = 0 /\ Raised.resultStatus = "RAISED"
  BY DEF Raised, Answer
<1>3. TypeOK'
  BY <1>1, <1>2 DEF IInv, TypeOK
<1>4. \A s \in Runs : running'[s] = {} \/ (running'[s] = running[s] /\ \A x \in running[s] : x.call # c)
  <2>1. \A s \in Runs : s # r => \A x \in running[s] : x.call # c
    BY DEF IInv, RunningOK
  <2> QED BY <1>1, <2>1 DEF IInv, TypeOK
<1>5. \A s \in Runs : kept'[s] = kept[s] /\ attempts'[s] >= attempts[s]
                      /\ (kept'[s] # None => running'[s] = {})
  BY <1>4 DEF IInv, TypeOK, KeptOK
<1>6. \A x \in running'[r] : x.attemptId # 0
  BY <1>1, <1>4 DEF IInv, RunningOK
<1>7. kept'[r] # None => kept'[r].attemptId # 0
  BY <1>1 DEF IInv, KeptOK
<1>8. \A d \in Calls : Answered(d) /\ answer[d].attemptId = 0 => answer[d] = Raised
  BY DEF IInv, AnswersOK, AnswerOK
<1>9. Answers(c, Raised)
  BY <1>1, <1>2, <1>4, <1>5, <1>6, <1>7, <1>8 DEF Answers
<1> QED BY <1>2, <1>3, <1>9, AnswerStep

LEMMA GiveUpStep ==
  ASSUME NoneApart, IInv, NEW c \in Calls, GiveUp(c)
  PROVE  IInv'
  BY RaisedFits DEF GiveUp

LEMMA FailStep ==
  ASSUME NoneApart, IInv, NEW c \in Calls, Fail(c)
  PROVE  IInv'
  BY RaisedFits DEF Fail, Idle

LEMMA RepeatStep ==
  ASSUME NoneApart, IInv, NEW c \in Calls, Repeat(c)
  PROVE  IInv'
<1> DEFINE r == RunOf(c)
           a == kept[r]
<1>1. /\ Open(c) /\ r \in Runs /\ request[c] # None /\ a # None
      /\ pinned[r] = request[c].identity
      /\ answer' = [answer EXCEPT ![c] = a]
      /\ UNCHANGED <<request, pinned, attempts, running, kept>>
  BY DEF Repeat, Idle, Open, IInv, TypeOK, RunOf, Request
<1>2. /\ a \in Answer /\ running[r] = {} /\ a.resultStatus # "RAISED" /\ a.identity = pinned[r]
      /\ a.attemptId \in 1..attempts[r]
      /\ \A d \in Calls : Answered(d) /\ RunOf(d) = r /\ answer[d].attemptId = a.attemptId
                          => answer[d] = a
  BY <1>1 DEF IInv, TypeOK, KeptOK
<1>3. TypeOK'
  BY <1>1, <1>2 DEF IInv, TypeOK
<1>4. \A s \in Runs : running'[s] = running[s] /\ \A x \in running[s] : x.call # c
  BY <1>1, <1>2 DEF IInv, RunningOK
<1>5. \A s \in Runs : kept'[s] = kept[s] /\ attempts'[s] >= attempts[s]
                      /\ (kept'[s] # None => running'[s] = {})
  BY <1>1 DEF IInv, TypeOK, KeptOK
<1>6. kept'[r] = a /\ running'[r] = {} /\ attempts'[r] = attempts[r]
  BY <1>1, <1>2
<1> HIDE DEF a
<1>7. Answers(c, a)
  BY <1>1, <1>2, <1>4, <1>5, <1>6 DEF Answers
<1> QED BY <1>2, <1>3, <1>7, AnswerStep

LEMMA RefuseStep ==
  ASSUME NoneApart, IInv, NEW c \in Calls, Refuse(c)
  PROVE  IInv'
<1> DEFINE r == RunOf(c)
           n == Number(r)
           failed == Failed(request[c].identity, n)
<1>1. /\ Open(c) /\ \A x \in running[r] : x.call # c
      /\ attempts' = [attempts EXCEPT ![r] = n]
      /\ \E a \in {Raised, failed} : answer' = [answer EXCEPT ![c] = a]
      /\ UNCHANGED <<request, pinned, running, kept>>
  BY DEF Refuse, Idle
<1>2. PICK a \in {Raised, failed} : answer' = [answer EXCEPT ![c] = a]
  BY <1>1
<1>3. r \in Runs /\ request[c] # None /\ request[c].identity \in Identities
  BY <1>1 DEF Open, IInv, TypeOK, RunOf, Request
<1>4. attempts[r] \in Nat /\ n = attempts[r] + 1 /\ n \in Nat
  BY <1>3 DEF IInv, TypeOK, Number
<1>5. /\ failed \in Answer /\ failed.identity = request[c].identity /\ failed.attemptId = n
      /\ failed.resultStatus = "FAILED"
      /\ Raised \in Answer /\ Raised.attemptId = 0 /\ Raised.resultStatus = "RAISED"
  BY <1>3, <1>4 DEF Failed, Raised, Answer
<1> HIDE DEF failed, n
<1>6. /\ a \in Answer /\ a.resultStatus # "COMPLETED" /\ a.attemptId \in {0, n}
      /\ a.resultStatus = "RAISED" => a = Raised
      /\ a.resultStatus # "RAISED" => a.identity = request[c].identity /\ a.attemptId = n
      /\ a.attemptId = 0 => a = Raised
  BY <1>2, <1>4, <1>5
<1>7. TypeOK'
  BY <1>1, <1>2, <1>4, <1>6 DEF IInv, TypeOK
<1>8. /\ attempts'[r] = n
      /\ \A s \in Runs : attempts'[s] >= attempts[s]
  BY <1>1, <1>3, <1>4 DEF IInv, TypeOK
<1>9. \A s \in Runs : running'[s] = running[s] /\ \A x \in running[s] : x.call # c
  BY <1>1 DEF IInv, RunningOK
<1>10. \A s \in Runs : kept'[s] = kept[s] /\ (kept'[s] # None => running'[s] = {})
  BY <1>1 DEF IInv, KeptOK
<1>11. \A x \in running'[r] : a.attemptId # x.attemptId
  BY <1>1, <1>3, <1>4, <1>6 DEF IInv, RunningOK
<1>12. kept'[r] # None => a.attemptId # kept'[r].attemptId
  BY <1>1, <1>3, <1>4, <1>6 DEF IInv, KeptOK
<1>13. \A d \in Calls : Answered(d) /\ RunOf(d) = r /\ answer[d].attemptId = a.attemptId
                        => answer[d] = a
  <2> SUFFICES ASSUME NEW d \in Calls, Answered(d), RunOf(d) = r, answer[d].attemptId = a.attemptId
               PROVE  answer[d] = a
    OBVIOUS
  <2>1. answer[d] = Raised \/ answer[d].attemptId \in 1..attempts[r]
    <3>1. AnswerOK(d) /\ answer[d] \in Answer
      BY DEF IInv, TypeOK, AnswersOK, Answered
    <3> QED BY <3>1 DEF AnswerOK
  <2> QED BY <1>4, <1>5, <1>6, <2>1
<1>14. a.resultStatus # "RAISED" => a.attemptId \in 1..attempts'[r]
  BY <1>4, <1>6, <1>8
<1>15. kept'[r] = kept[r]
  BY <1>3, <1>10
<1> HIDE DEF r
<1>16. Answers(c, a)
  BY <1>1, <1>2, <1>6, <1>8, <1>9, <1>10, <1>11, <1>12, <1>13, <1>14, <1>15 DEF Answers, r
<1> QED BY <1>6, <1>7, <1>16, AnswerStep

LEMMA Invariance == NoneApart /\ Spec => []IInv
<1> SUFFICES ASSUME NoneApart PROVE Spec => []IInv
  OBVIOUS
<1>1. IInv /\ [Next]_vars => IInv'
  <2> SUFFICES ASSUME IInv, [Next]_vars PROVE IInv'
    OBVIOUS
  <2>1. CASE Next
    BY <2>1, AskStep, StartStep, FinishStep, GiveUpStep, RepeatStep, RefuseStep, FailStep DEF Next
  <2>2. CASE UNCHANGED vars
    BY <2>2 DEF vars, IInv, TypeOK, AnswersOK, AnswerOK, RunningOK, KeptOK, AttemptNamesOneAnswer,
                Answered, RunOf, Raised
  <2> QED BY <2>1, <2>2
<1> QED BY <1>1, Initial, PTL DEF Spec

-----------------------------------------------------------------------------
(***************************************************************************)
(* The theorems.                                                           *)
(***************************************************************************)

\* Whoever is told that a run is COMPLETED is told the same: same attempt, same
\* Proposal.
OneCompletedAnswer ==
  \A c, d \in Calls :
    /\ Answered(c) /\ answer[c].resultStatus = "COMPLETED"
    /\ Answered(d) /\ answer[d].resultStatus = "COMPLETED"
    /\ RunOf(c) = RunOf(d)
    => answer[c] = answer[d]

THEOREM PromisedOneCompletedAnswer == NoneApart /\ Spec => []OneCompletedAnswer
<1>1. IInv => OneCompletedAnswer
  BY DEF IInv, AnswersOK, AnswerOK, OneCompletedAnswer
<1> QED BY <1>1, Invariance, PTL

\* The caller who quotes a run and an attempt number quotes one answer.
THEOREM PromisedAttemptNamesOneAnswer == NoneApart /\ Spec => []AttemptNamesOneAnswer
<1>1. IInv => AttemptNamesOneAnswer
  BY DEF IInv
<1> QED BY <1>1, Invariance, PTL

\* A kept answer is never replaced: nothing is executed that could.
KeptIsFinal == [][\A r \in Runs : kept[r] # None => kept'[r] = kept[r]]_vars

THEOREM PromisedKeptIsFinal == NoneApart /\ Spec => KeptIsFinal
<1>1. IInv /\ [Next]_vars => [\A r \in Runs : kept[r] # None => kept'[r] = kept[r]]_vars
  <2> SUFFICES ASSUME IInv, NEW c \in Calls, Finish(c), NEW r \in Runs, kept[r] # None
               PROVE  kept'[r] = kept[r]
    BY DEF Next, vars, Ask, Start, GiveUp, Repeat, Refuse, Fail
  <2>1. running[r] = {}
    BY DEF IInv, KeptOK
  <2>2. running[RunOf(c)] # {}
    BY DEF Finish
  <2> QED BY <2>1, <2>2 DEF Finish, IInv, TypeOK
<1> QED BY <1>1, Invariance, PTL DEF Spec, KeptIsFinal

=============================================================================
