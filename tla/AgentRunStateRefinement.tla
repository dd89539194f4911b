---------------------- MODULE AgentRunStateRefinement ----------------------
(***************************************************************************)
(* Proof that the Agent Run state repository keeps the promise of          *)
(* IdempotentRun, for any number of deliveries, runs and identities.       *)
(***************************************************************************)
EXTENDS AgentRunStateProofs

(***************************************************************************)
(* A Result about to be kept carries the Proposal of its own execution if  *)
(* it is COMPLETED, and none if it is FAILED.                              *)
(***************************************************************************)
OwnProposal ==
  \A c \in Calls :
    pc[c] = "complete" =>
      result[c].proposal = IF result[c].resultStatus = "COMPLETED" THEN c ELSE None

LEMMA OwnProposalStep == TypeOK /\ OwnProposal /\ [Next]_vars => OwnProposal'
<1> SUFFICES ASSUME TypeOK, OwnProposal, [Next]_vars, NEW c \in Calls, pc'[c] = "complete"
             PROVE  result'[c].proposal =
                      IF result'[c].resultStatus = "COMPLETED" THEN c ELSE None
  BY DEF OwnProposal
<1>1. CASE pc[c] = "complete" /\ result'[c] = result[c]
  BY <1>1 DEF OwnProposal
<1>2. ASSUME ~ (pc[c] = "complete" /\ result'[c] = result[c])
      PROVE  \/ ExecuteCompleted(c)
             \/ \E reason \in PipelineReasons : ExecuteFailed(c, reason)
  <2> USE <1>2 DEF TypeOK
  <2>1. ASSUME NEW d \in Calls, Receive(d) PROVE FALSE
    BY <2>1 DEF Receive
  <2>2. ASSUME NEW d \in Calls, Step(d), d # c PROVE FALSE
    BY <2>2 DEF Step, Begin, Identify, RejectEarly, RaiseEarly, BeginFirst, BeginConflict,
         BeginWait, BeginCached, BeginRetry, WaitPass, WaitSleep, ExecuteCompleted,
         ExecuteFailed, ExecuteRaises, Complete, Abort, Settle
  <2>3. CASE Step(c)
    BY <2>3 DEF Step, Begin, Identify, RejectEarly, RaiseEarly, BeginFirst, BeginConflict,
         BeginWait, BeginCached, BeginRetry, WaitPass, WaitSleep, ExecuteRaises,
         Complete, Abort, Settle, ReturnOrRaise
  <2>4. CASE UNCHANGED vars
    BY <2>4 DEF vars
  <2> QED BY <2>1, <2>2, <2>3, <2>4 DEF Next, Terminating
<1>3. CASE ExecuteCompleted(c)
  BY <1>3 DEF ExecuteCompleted, CompletedResult, TypeOK
<1>4. ASSUME NEW reason \in PipelineReasons, ExecuteFailed(c, reason)
      PROVE  result'[c].proposal =
               IF result'[c].resultStatus = "COMPLETED" THEN c ELSE None
  BY <1>4 DEF ExecuteFailed, FailedResult, TypeOK
<1> QED BY <1>1, <1>2, <1>3, <1>4

(***************************************************************************)
(* How a step moves what is seen of the answers and of the executions.     *)
(***************************************************************************)

\* Only call c may end in the step.
OnlyEnds(c) ==
  \A d \in Calls \ {c} :
    pc[d] \in Terminal \/ pc'[d] \in Terminal => pc'[d] = pc[d] /\ result'[d] = result[d]

\* Only call c may start or end an execution in the step.
OnlyExecutes(c) ==
  \A d \in Calls \ {c} :
    pc[d] \in Executing \/ pc'[d] \in Executing =>
      /\ pc[d] \in Executing /\ pc'[d] \in Executing
      /\ attempt_id'[d] = attempt_id[d]
      /\ request'[d] = request[d]

\* The answers of the other calls stay as they are.
LEMMA AnswerStep ==
  ASSUME NEW c \in Calls, OnlyEnds(c)
  PROVE  answerSeen' = [answerSeen EXCEPT ![c] = (answerSeen')[c]]
<1>1. \A d \in Calls \ {c} : (answerSeen')[d] = answerSeen[d]
  BY DEF answerSeen, OnlyEnds, Terminal, Seen
<1>2. /\ answerSeen' = [d \in Calls |-> (answerSeen')[d]]
      /\ answerSeen = [d \in Calls |-> answerSeen[d]]
  BY DEF answerSeen
<1> HIDE DEF answerSeen
<1> QED BY <1>1, <1>2

\* A call that stays open leaves all answers as they are.
LEMMA AnswerStutter ==
  ASSUME NEW c \in Calls, OnlyEnds(c), pc[c] \notin Terminal, pc'[c] \notin Terminal
  PROVE  answerSeen' = answerSeen
BY DEF answerSeen, OnlyEnds, Terminal, Seen

\* The executions of the other runs stay as they are.
LEMMA ExecutionStep ==
  ASSUME NEW c \in Calls, OnlyExecutes(c), request'[c] = request[c]
  PROVE  executionsSeen' = [executionsSeen EXCEPT ![request[c].agentRunId] =
                              (executionsSeen')[request[c].agentRunId]]
<1>1. \A r \in Runs \ {request[c].agentRunId} : (executionsSeen')[r] = executionsSeen[r]
  BY DEF executionsSeen, OnlyExecutes
<1>2. /\ executionsSeen' = [r \in Runs |-> (executionsSeen')[r]]
      /\ executionsSeen = [r \in Runs |-> executionsSeen[r]]
  BY DEF executionsSeen
<1> HIDE DEF executionsSeen
<1> QED BY <1>1, <1>2

\* A call that goes on executing, or not executing, leaves all executions.
LEMMA ExecutionStutter ==
  ASSUME NEW c \in Calls, OnlyExecutes(c),
         pc[c] \in Executing <=> pc'[c] \in Executing,
         pc[c] \in Executing => /\ attempt_id'[c] = attempt_id[c]
                                /\ request'[c] = request[c]
  PROVE  executionsSeen' = executionsSeen
<1>1. \A r \in Runs : (executionsSeen')[r] = executionsSeen[r]
  BY DEF executionsSeen, OnlyExecutes
<1>2. /\ executionsSeen' = [r \in Runs |-> (executionsSeen')[r]]
      /\ executionsSeen = [r \in Runs |-> executionsSeen[r]]
  BY DEF executionsSeen
<1> HIDE DEF executionsSeen
<1> QED BY <1>1, <1>2

\* While call c executes it is the only execution of its run.
LEMMA ExecutionOf ==
  ASSUME IInv, NEW c \in Calls, pc[c] \in Executing
  PROVE  executionsSeen[request[c].agentRunId] =
           {[call |-> c, attemptId |-> attempt_id[c]]}
<1>1. request[c].agentRunId \in Runs
  BY DEF IInv, TypeOK, Request, Executing
<1>2. \A d \in Calls : pc[d] \in Executing /\ request[d].agentRunId = request[c].agentRunId
                       <=> d = c
  BY DEF IInv, Coherent, SingleFlight, SameRun
<1> QED BY <1>1, <1>2 DEF executionsSeen

\* An open call that does not execute is not among the executions.
LEMMA NotExecuting ==
  ASSUME IInv, NEW c \in Calls, pc[c] \notin Executing, request[c] # None
  PROVE  \A x \in executionsSeen[request[c].agentRunId] : x.call # c
<1>1. request[c].agentRunId \in Runs
  BY DEF IInv, TypeOK, Request
<1> QED BY <1>1 DEF executionsSeen

\* Writing an entry moves what is seen of its run and of no other.
LEMMA EntrySeen ==
  ASSUME TypeOK, NEW r \in Runs, NEW e \in RunEntry, entries' = [entries EXCEPT ![r] = e]
  PROVE  /\ identitySeen' = [identitySeen EXCEPT ![r] = e.identity]
         /\ answerKept' = [answerKept EXCEPT ![r] =
                             IF HasAnswer(e) THEN Seen(e.result) ELSE None]
<1>1. entries'[r] = e /\ e # None /\ \A q \in Runs \ {r} : entries'[q] = entries[q]
  BY NoneIsNoRecord DEF TypeOK
<1>2. identitySeen' = [identitySeen EXCEPT ![r] = e.identity]
  <2>1. /\ (identitySeen')[r] = e.identity
        /\ \A q \in Runs \ {r} : (identitySeen')[q] = identitySeen[q]
    BY <1>1 DEF identitySeen
  <2>2. /\ identitySeen' = [q \in Runs |-> (identitySeen')[q]]
        /\ identitySeen = [q \in Runs |-> identitySeen[q]]
    BY DEF identitySeen
  <2> HIDE DEF identitySeen
  <2> QED BY <2>1, <2>2
<1>3. answerKept' = [answerKept EXCEPT ![r] = IF HasAnswer(e) THEN Seen(e.result) ELSE None]
  <2>1. /\ (answerKept')[r] = IF HasAnswer(e) THEN Seen(e.result) ELSE None
        /\ \A q \in Runs \ {r} : (answerKept')[q] = answerKept[q]
    BY <1>1 DEF answerKept
  <2>2. /\ answerKept' = [q \in Runs |-> (answerKept')[q]]
        /\ answerKept = [q \in Runs |-> answerKept[q]]
    BY DEF answerKept
  <2> HIDE DEF answerKept
  <2> QED BY <2>1, <2>2
<1> QED BY <1>2, <1>3

-----------------------------------------------------------------------------
(***************************************************************************)
(* Each kind of step, seen from outside.                                   *)
(***************************************************************************)

\* A step of one open call that neither ends it, nor starts or ends an
\* execution, nor writes an entry or gives out a number, is not seen.
LEMMA SilentStep ==
  ASSUME NEW c \in Calls,
         UNCHANGED <<attempts, entries, request>>,
         OnlyEnds(c), pc[c] \notin Terminal, pc'[c] \notin Terminal,
         OnlyExecutes(c), pc[c] \in Executing <=> pc'[c] \in Executing,
         pc[c] \in Executing => attempt_id'[c] = attempt_id[c]
  PROVE  UNCHANGED Promise!vars
<1>1. answerSeen' = answerSeen
  BY AnswerStutter
<1>2. executionsSeen' = executionsSeen
  BY ExecutionStutter
<1>3. identitySeen' = identitySeen /\ answerKept' = answerKept
  BY DEF identitySeen, answerKept
<1> QED BY <1>1, <1>2, <1>3 DEF Promise!vars

\* A refusal under the next number of the run is Refuse.
LEMMA RefuseSeen ==
  ASSUME IInv, NEW c \in Calls, NEW reason \in Reasons,
         pc[c] \in {"received", "begin"},
         AllocateAttempt(c),
         UNCHANGED <<entries, request>>,
         attempt_id' = [attempt_id EXCEPT ![c] = NextAttempt(c)],
         result' = [result EXCEPT ![c] = FailedResult(c, NextAttempt(c), reason)],
         pc' = [pc EXCEPT ![c] = ReturnOrRaise(FailedResult(c, NextAttempt(c), reason))]
  PROVE  Promise!Refuse(c)
<1> DEFINE res == FailedResult(c, NextAttempt(c), reason)
<1>1. /\ pc'[c] \in Terminal
      /\ result'[c] = res
      /\ OnlyEnds(c) /\ OnlyExecutes(c)
      /\ pc[c] \notin Executing /\ pc'[c] \notin Executing
      /\ request[c] # None
  BY DEF IInv, TypeOK, ReturnOrRaise, OnlyEnds, OnlyExecutes, Terminal, Executing
<1>2. Seen(res) = Promise!Failed(request[c].identity, NextAttempt(c))
  BY DEF Seen, FailedResult, Promise!Failed
<1>3. (answerSeen')[c] \in {RaisedSeen, Seen(res)}
  BY <1>1 DEF answerSeen, Terminal
<1>4. answerSeen' = [answerSeen EXCEPT ![c] = (answerSeen')[c]]
  BY <1>1, AnswerStep
<1>5. executionsSeen' = executionsSeen
  BY <1>1, ExecutionStutter
<1>6. identitySeen' = identitySeen /\ answerKept' = answerKept
  BY DEF identitySeen, answerKept
<1>7. Promise!Idle(c)
  <2>1. answerSeen[c] = None
    BY DEF answerSeen
  <2> QED BY <1>1, <2>1, NotExecuting DEF Promise!Idle, Promise!Open, Promise!RunOf
<1>8. RaisedSeen = Promise!Raised
  BY DEF RaisedSeen, Promise!Raised
<1>9. attempts' = [attempts EXCEPT ![Promise!RunOf(c)] = Promise!Number(Promise!RunOf(c))]
  BY DEF AllocateAttempt, NextAttempt, Promise!RunOf, Promise!Number
<1>10. NextAttempt(c) = Promise!Number(Promise!RunOf(c))
  BY DEF NextAttempt, Promise!RunOf, Promise!Number
<1> QED BY <1>2, <1>3, <1>4, <1>5, <1>6, <1>7, <1>8, <1>9, <1>10 DEF Promise!Refuse

\* Beginning an execution, the first or a retry, is Start.
LEMMA StartSeen ==
  ASSUME IInv, NEW c \in Calls,
         pc[c] = "begin",
         Entry(c) = None \/ (Matches(c) /\ MayRetry(Entry(c))),
         AllocateAttempt(c),
         UNCHANGED <<request, result>>,
         attempt_id' = [attempt_id EXCEPT ![c] = NextAttempt(c)],
         pc' = [pc EXCEPT ![c] = "execute"],
         NEW e, e \in RunEntry,
         entries' = [entries EXCEPT ![request[c].agentRunId] = e],
         e.identity = request[c].identity, e.result = None
  PROVE  Promise!Start(c)
<1> DEFINE r == request[c].agentRunId
<1>1. /\ r \in Runs /\ e # None
      /\ pc'[c] = "execute" /\ attempt_id'[c] = NextAttempt(c)
      /\ OnlyEnds(c) /\ OnlyExecutes(c)
      /\ pc[c] \notin Terminal /\ pc'[c] \notin Terminal
      /\ pc[c] \notin Executing
      /\ request[c] # None
  BY NoneIsNoRecord DEF IInv, TypeOK, Request, OnlyEnds, OnlyExecutes, Terminal, Executing
<1>2. answerSeen[c] = None /\ answerSeen' = answerSeen
  BY <1>1, AnswerStutter DEF answerSeen, Terminal
<1>3. \A d \in Calls : pc[d] \in Executing => request[d].agentRunId # r
  BY DEF IInv, Coherent, OwnersOK, Owns, Matches, Entry, MayRetry
<1>4. executionsSeen[r] = {}
  BY <1>1, <1>3 DEF executionsSeen
<1>5. (executionsSeen')[r] = {[call |-> c, attemptId |-> NextAttempt(c)]}
  <2>1. \A d \in Calls : pc'[d] \in Executing /\ request'[d].agentRunId = r <=> d = c
    BY <1>1, <1>3 DEF OnlyExecutes, Executing
  <2> QED BY <1>1, <2>1 DEF executionsSeen
<1>6. executionsSeen' =
        [executionsSeen EXCEPT ![r] = {[call |-> c, attemptId |-> NextAttempt(c)]}]
  BY <1>1, <1>5, ExecutionStep
<1>7. /\ identitySeen' = [identitySeen EXCEPT ![r] = request[c].identity]
      /\ answerKept' = [answerKept EXCEPT ![r] = None]
  <2>1. ~ HasAnswer(e) /\ TypeOK
    BY DEF HasAnswer, IInv
  <2> QED BY <1>1, <2>1, EntrySeen
<1>8. answerKept[r] = None /\ identitySeen[r] \in {None, request[c].identity}
  BY <1>1 DEF answerKept, identitySeen, Entry, MayRetry, Matches
<1>9. answerKept' = answerKept
  <2>1. answerKept = [q \in Runs |-> answerKept[q]]
    BY DEF answerKept
  <2> HIDE DEF answerKept
  <2> QED BY <1>7, <1>8, <2>1
<1> QED BY <1>1, <1>2, <1>4, <1>6, <1>7, <1>8, <1>9
    DEF Promise!Start, Promise!Idle, Promise!Open, Promise!RunOf, Promise!Number,
        NextAttempt, AllocateAttempt

\* The end of an execution: what complete() and abort() have in common.
LEMMA SettleSeen ==
  ASSUME IInv, NEW c \in Calls, Complete(c) \/ Abort(c)
  PROVE  LET r == request[c].agentRunId
         IN /\ r \in Runs
            /\ answerSeen' = [answerSeen EXCEPT ![c] = (answerSeen')[c]]
            /\ executionsSeen' = [executionsSeen EXCEPT ![r] = {}]
            /\ identitySeen' = identitySeen
            /\ UNCHANGED <<request, attempts>>
            /\ Promise!Open(c)
            /\ executionsSeen[r] = {[call |-> c, attemptId |-> attempt_id[c]]}
<1> DEFINE r == request[c].agentRunId
<1>1. /\ pc[c] \in Executing /\ pc'[c] \in Terminal
      /\ pc[c] \notin Terminal /\ pc'[c] \notin Executing
      /\ Owns(c)
  BY SettlerOwns DEF Executing, Terminal
<1>2. /\ r \in Runs /\ request[c] # None
      /\ UNCHANGED <<request, attempts, attempt_id, result>>
  BY <1>1 DEF IInv, TypeOK, Request, Executing, Complete, Abort
<1>3. OnlyEnds(c) /\ OnlyExecutes(c)
  BY <1>2 DEF Complete, Abort, Settle, OnlyEnds, OnlyExecutes, Terminal, Executing
<1>4. answerSeen' = [answerSeen EXCEPT ![c] = (answerSeen')[c]]
  BY <1>3, AnswerStep
<1>5. executionsSeen[r] = {[call |-> c, attemptId |-> attempt_id[c]]}
  BY <1>1, ExecutionOf
<1>6. (executionsSeen')[r] = {}
  <2>1. \A d \in Calls : pc[d] \in Executing /\ request[d].agentRunId = r => d = c
    BY <1>1 DEF IInv, Coherent, SingleFlight, SameRun
  <2>2. \A d \in Calls : ~ (pc'[d] \in Executing /\ request'[d].agentRunId = r)
    BY <1>1, <1>2, <1>3, <2>1 DEF OnlyExecutes
  <2> QED BY <1>2, <2>2 DEF executionsSeen
<1>7. executionsSeen' = [executionsSeen EXCEPT ![r] = {}]
  BY <1>2, <1>3, <1>6, ExecutionStep
<1>8. identitySeen' = identitySeen
  <2>1. PICK e \in RunEntry :
          entries' = [entries EXCEPT ![r] = e] /\ e.identity = request[c].identity
    BY SettlerSettles
  <2>2. identitySeen' = [identitySeen EXCEPT ![r] = request[c].identity]
    <3>1. TypeOK
      BY DEF IInv
    <3>2. identitySeen' = [identitySeen EXCEPT ![r] = e.identity]
      BY <1>2, <2>1, <3>1, EntrySeen
    <3> QED BY <2>1, <3>2
  <2>3. identitySeen[r] = request[c].identity
    BY <1>1, <1>2 DEF identitySeen, Owns, Matches, Entry
  <2>4. identitySeen = [q \in Runs |-> identitySeen[q]]
    BY DEF identitySeen
  <2> HIDE DEF identitySeen
  <2> QED BY <2>2, <2>3, <2>4
<1>9. Promise!Open(c)
  BY <1>1, <1>2 DEF answerSeen, Executing, Promise!Open
<1> QED BY <1>2, <1>4, <1>5, <1>7, <1>8, <1>9

\* complete() is Finish.
LEMMA CompleteSeen ==
  ASSUME IInv, OwnProposal, NEW c \in Calls, Complete(c)
  PROVE  Promise!Finish(c)
<1> DEFINE r == request[c].agentRunId
           x == [call |-> c, attemptId |-> attempt_id[c]]
           a == Seen(result[c])
<1>1. /\ r \in Runs
      /\ answerSeen' = [answerSeen EXCEPT ![c] = (answerSeen')[c]]
      /\ executionsSeen' = [executionsSeen EXCEPT ![r] = {}]
      /\ identitySeen' = identitySeen
      /\ UNCHANGED <<request, attempts>>
      /\ Promise!Open(c)
      /\ executionsSeen[r] = {x}
  BY SettleSeen
<1>2. ToComplete(c) /\ result[c] \in Result
  BY DEF Complete, IInv, Coherent, CompletersOK, TypeOK
<1>3. (answerSeen')[c] = a
  BY <1>2 DEF Complete, Settle, ReturnOrRaise, ToComplete, answerSeen
<1>4. PICK e \in RunEntry :
        entries' = [entries EXCEPT ![r] = e] /\ e.result = result[c]
  BY SettlerSettles
<1>5. answerKept' = [answerKept EXCEPT ![r] = IF HasAnswer(e) THEN a ELSE None]
  <2>1. TypeOK
    BY DEF IInv
  <2>2. answerKept' = [answerKept EXCEPT ![r] = IF HasAnswer(e) THEN Seen(e.result) ELSE None]
    BY <1>1, <1>4, <2>1, EntrySeen
  <2> QED BY <1>4, <2>2
<1>6. answerKept[r] = None /\ answerKept = [q \in Runs |-> answerKept[q]]
  BY <1>1, SettlerOwns DEF answerKept, HasAnswer, Entry
<1>7. HasAnswer(e) => answerKept' = [answerKept EXCEPT ![r] = a]
  BY <1>5
<1>8. ~ HasAnswer(e) => answerKept' = answerKept /\ result[c].resultStatus # "COMPLETED"
  <2>1. ASSUME ~ HasAnswer(e) PROVE answerKept' = answerKept
    <3>1. answerKept' = [answerKept EXCEPT ![r] = None]
      BY <1>5, <2>1
    <3> HIDE DEF answerKept
    <3> QED BY <1>6, <3>1
  <2>2. ASSUME ~ HasAnswer(e) PROVE result[c].resultStatus # "COMPLETED"
    BY <1>2, <1>4, <2>2 DEF ToComplete, HasAnswer, IsCacheable
  <2> QED BY <2>1, <2>2
<1>9. a = IF result[c].resultStatus = "COMPLETED"
          THEN Promise!Completed(request[c].identity, attempt_id[c], c)
          ELSE Promise!Failed(request[c].identity, attempt_id[c])
  BY <1>2 DEF OwnProposal, Complete, ToComplete, Seen, Result, Promise!Completed, Promise!Failed
<1> HIDE DEF a
<1>10. CASE result[c].resultStatus = "COMPLETED"
  BY <1>1, <1>3, <1>7, <1>8, <1>9, <1>10 DEF Promise!Finish, Promise!RunOf
<1>11. CASE result[c].resultStatus # "COMPLETED"
  BY <1>1, <1>3, <1>7, <1>8, <1>9, <1>11 DEF Promise!Finish, Promise!RunOf
<1> QED BY <1>10, <1>11

\* abort() is GiveUp.
LEMMA AbortSeen ==
  ASSUME IInv, NEW c \in Calls, Abort(c)
  PROVE  Promise!GiveUp(c)
<1> DEFINE r == request[c].agentRunId
           x == [call |-> c, attemptId |-> attempt_id[c]]
<1>1. /\ r \in Runs
      /\ answerSeen' = [answerSeen EXCEPT ![c] = (answerSeen')[c]]
      /\ executionsSeen' = [executionsSeen EXCEPT ![r] = {}]
      /\ identitySeen' = identitySeen
      /\ UNCHANGED <<request, attempts>>
      /\ Promise!Open(c)
      /\ executionsSeen[r] = {x}
  BY SettleSeen
<1>2. (answerSeen')[c] = Promise!Raised
  BY DEF Abort, Settle, answerSeen, RaisedSeen, Promise!Raised
<1>3. PICK e \in RunEntry : entries' = [entries EXCEPT ![r] = e] /\ e.result = None
  BY SettlerSettles
<1>4. answerKept' = [answerKept EXCEPT ![r] = None]
  <2>1. ~ HasAnswer(e) /\ TypeOK
    BY <1>3 DEF HasAnswer, IInv
  <2> QED BY <1>1, <1>3, <2>1, EntrySeen
<1>5. answerKept' = answerKept
  <2>1. answerKept[r] = None
    BY <1>1, SettlerOwns DEF answerKept, HasAnswer, Entry
  <2>2. answerKept = [q \in Runs |-> answerKept[q]]
    BY DEF answerKept
  <2> HIDE DEF answerKept
  <2> QED BY <1>4, <2>1, <2>2
<1> QED BY <1>1, <1>2, <1>5 DEF Promise!GiveUp, Promise!RunOf

\* A call that ends without ever having executed, or whose execution ends
\* without a word to the repository, is Fail or GiveUp.
LEMMA RaiseSeen ==
  ASSUME IInv, NEW c \in Calls,
         pc[c] \in {"received", "execute"}, pc'[c] = "raised",
         UNCHANGED <<attempts, entries, request>>,
         OnlyEnds(c), OnlyExecutes(c)
  PROVE  Promise!Fail(c) \/ Promise!GiveUp(c)
<1> DEFINE r == request[c].agentRunId
<1>1. /\ r \in Runs /\ request[c] # None
      /\ pc'[c] \notin Executing
      /\ pc[c] \notin Terminal
  BY DEF IInv, TypeOK, Request, Executing, Terminal
<1>2. /\ identitySeen' = identitySeen
      /\ answerKept' = answerKept
      /\ answerSeen' = [answerSeen EXCEPT ![c] = Promise!Raised]
  <2>1. (answerSeen')[c] = Promise!Raised
    BY DEF answerSeen, RaisedSeen, Promise!Raised
  <2>2. answerSeen' = [answerSeen EXCEPT ![c] = (answerSeen')[c]]
    BY AnswerStep
  <2>3. identitySeen' = identitySeen /\ answerKept' = answerKept
    BY DEF identitySeen, answerKept
  <2> QED BY <2>1, <2>2, <2>3
<1>3. Promise!Open(c)
  BY <1>1 DEF answerSeen, Terminal, Promise!Open
<1>4. CASE pc[c] = "received"
  <2>1. pc[c] \notin Executing
    BY <1>4 DEF Executing
  <2>2. executionsSeen' = executionsSeen
    BY <1>1, <2>1, ExecutionStutter
  <2>3. Promise!Idle(c)
    BY <1>1, <1>3, <2>1, NotExecuting DEF Promise!Idle, Promise!RunOf
  <2> QED BY <1>2, <2>2, <2>3 DEF Promise!Fail
<1>5. CASE pc[c] = "execute"
  <2>1. pc[c] \in Executing
    BY <1>5 DEF Executing
  <2>2. executionsSeen[r] = {[call |-> c, attemptId |-> attempt_id[c]]}
    BY <2>1, ExecutionOf
  <2>3. (executionsSeen')[r] = {}
    <3>1. \A d \in Calls : pc[d] \in Executing /\ request[d].agentRunId = r => d = c
      BY <2>1 DEF IInv, Coherent, SingleFlight, SameRun
    <3>2. \A d \in Calls : ~ (pc'[d] \in Executing /\ request'[d].agentRunId = r)
      BY <1>1, <3>1 DEF OnlyExecutes
    <3> QED BY <1>1, <3>2 DEF executionsSeen
  <2>4. executionsSeen' = [executionsSeen EXCEPT ![r] = {}]
    BY <1>1, <2>3, ExecutionStep
  <2> QED BY <1>2, <1>3, <2>2, <2>4 DEF Promise!GiveUp, Promise!RunOf
<1> QED BY <1>4, <1>5

\* Handing out the kept Result is Repeat.
LEMMA CachedSeen ==
  ASSUME IInv, NEW c \in Calls, BeginCached(c)
  PROVE  Promise!Repeat(c)
<1> DEFINE r == request[c].agentRunId
<1>1. /\ r \in Runs /\ request[c] # None
      /\ entries[r] # None /\ HasAnswer(entries[r])
      /\ entries[r].identity = request[c].identity
      /\ pc[c] = "begin"
  BY DEF BeginCached, Matches, Entry, IInv, TypeOK, Request
<1>2. entries[r].result.contractValid
  BY <1>1 DEF IInv, Coherent, EntriesOK, EntryOK, HasAnswer
<1>3. /\ pc'[c] = "returned" /\ result'[c] = entries[r].result
      /\ UNCHANGED <<attempts, entries, request>>
      /\ OnlyEnds(c) /\ OnlyExecutes(c)
      /\ pc[c] \notin Executing /\ pc'[c] \notin Executing /\ pc[c] \notin Terminal
  BY <1>1, <1>2 DEF BeginCached, repository, Entry, IInv, TypeOK, OnlyEnds, OnlyExecutes,
       Executing, Terminal
<1>4. answerKept[r] = Seen(entries[r].result) /\ identitySeen[r] = request[c].identity
  BY <1>1 DEF answerKept, identitySeen
<1>5. answerKept[r] # None
  <2>1. entries[r].result \in Result
    BY <1>1 DEF IInv, TypeOK, RunEntry, HasAnswer
  <2>2. Seen(entries[r].result) \in Answer
    BY <2>1 DEF Seen, Result, Answer
  <2> QED BY <1>4, <2>2, NoneIsNoRecord
<1>6. answerSeen' = [answerSeen EXCEPT ![c] = answerKept[r]]
  <2>1. (answerSeen')[c] = answerKept[r]
    BY <1>3, <1>4 DEF answerSeen
  <2>2. answerSeen' = [answerSeen EXCEPT ![c] = (answerSeen')[c]]
    BY <1>3, AnswerStep
  <2> QED BY <2>1, <2>2
<1>7. executionsSeen' = executionsSeen
  BY <1>3, ExecutionStutter
<1>8. identitySeen' = identitySeen /\ answerKept' = answerKept
  BY <1>3 DEF identitySeen, answerKept
<1>9. Promise!Idle(c)
  <2>1. answerSeen[c] = None
    BY <1>1 DEF answerSeen
  <2> QED BY <1>1, <1>3, <2>1, NotExecuting DEF Promise!Idle, Promise!Open, Promise!RunOf
<1> QED BY <1>3, <1>4, <1>5, <1>6, <1>7, <1>8, <1>9 DEF Promise!Repeat, Promise!RunOf

-----------------------------------------------------------------------------
(***************************************************************************)
(* The refinement.                                                         *)
(***************************************************************************)

\* Every step of the repository and its threads is a step of the promise or is
\* not seen.
LEMMA StepRefines ==
  ASSUME IInv, OwnProposal, [Next]_vars
  PROVE  [Promise!Next]_(Promise!vars)
<1> USE DEF Promise!Next
<1>1. ASSUME NEW c \in Calls, Receive(c) PROVE Promise!Ask(c)
  <2>1. OnlyEnds(c) /\ OnlyExecutes(c) /\ pc[c] = "idle" /\ pc'[c] = "received"
    BY <1>1 DEF Receive, IInv, TypeOK, OnlyEnds, OnlyExecutes, Terminal, Executing, repository
  <2>2. answerSeen' = answerSeen
    BY <2>1, AnswerStutter DEF Terminal
  <2>3. executionsSeen' = executionsSeen
    BY <2>1, ExecutionStutter DEF Executing
  <2>4. identitySeen' = identitySeen /\ answerKept' = answerKept
    BY <1>1 DEF Receive, repository, identitySeen, answerKept
  <2>5. request[c] = None
    BY <1>1 DEF Receive, IInv, TypeOK
  <2> QED BY <1>1, <2>2, <2>3, <2>4, <2>5
       DEF Receive, repository, Promise!Ask, Promise!Request, Request
<1>2. ASSUME NEW c \in Calls, Step(c) PROVE [Promise!Next]_(Promise!vars)
  <2>1. CASE \/ Identify(c) \/ BeginWait(c) \/ WaitPass(c) \/ WaitSleep(c)
             \/ ExecuteCompleted(c) \/ ExecuteRaises(c)
    <3>1. /\ UNCHANGED <<attempts, entries, request, attempt_id>>
          /\ OnlyEnds(c) /\ OnlyExecutes(c)
          /\ pc[c] \notin Terminal /\ pc'[c] \notin Terminal
          /\ pc[c] \in Executing <=> pc'[c] \in Executing
      BY <2>1 DEF Identify, BeginWait, WaitPass, WaitSleep, ExecuteCompleted, CompleteOrAbort,
           ExecuteRaises, repository, IInv, TypeOK, OnlyEnds, OnlyExecutes, Terminal, Executing
    <3> QED BY <3>1, SilentStep
  <2>2. ASSUME NEW reason \in EarlyReasons, RejectEarly(c, reason)
        PROVE  Promise!Refuse(c)
    <3>1. reason \in Reasons
      BY DEF Reasons
    <3> QED BY <2>2, <3>1, RefuseSeen DEF RejectEarly
  <2>3. CASE BeginConflict(c)
    <3>1. ConflictReason \in Reasons
      BY DEF Reasons
    <3> QED BY <2>3, <3>1, RefuseSeen DEF BeginConflict
  <2>4. CASE RaiseEarly(c)
    <3>1. /\ UNCHANGED <<attempts, entries, request>>
          /\ OnlyEnds(c) /\ OnlyExecutes(c)
          /\ pc[c] = "received" /\ pc'[c] = "raised"
      BY <2>4 DEF RaiseEarly, repository, IInv, TypeOK, OnlyEnds, OnlyExecutes
    <3> QED BY <3>1, RaiseSeen
  <2>5. CASE BeginFirst(c)
    <3> DEFINE e == [identity |-> request[c].identity, status |-> "IN_PROGRESS",
                     attempt_id |-> NextAttempt(c), result |-> None, done |-> FALSE]
    <3>1. e \in RunEntry
      BY <2>5 DEF BeginFirst, IInv, TypeOK, Request, RunEntry, RunStatus, NextAttempt
    <3>2. /\ e.identity = request[c].identity
          /\ e.result = None
          /\ entries' = [entries EXCEPT ![request[c].agentRunId] = e]
      BY <2>5 DEF BeginFirst
    <3> HIDE DEF e
    <3> QED BY <2>5, <3>1, <3>2, StartSeen DEF BeginFirst
  <2>6. CASE BeginRetry(c)
    <3> DEFINE e == [Entry(c) EXCEPT !.attempt_id = NextAttempt(c),
                       !.status = "IN_PROGRESS", !.result = None, !.done = FALSE]
    <3>1. Entry(c) \in RunEntry /\ NextAttempt(c) \in Nat
      BY <2>6 DEF BeginRetry, Matches, Entry, IInv, TypeOK, Request, NextAttempt
    <3>2. e \in RunEntry
      BY <3>1 DEF RunEntry, RunStatus
    <3>3. e.identity = request[c].identity /\ e.result = None
      BY <2>6, <3>1 DEF BeginRetry, Matches, RunEntry
    <3>4. entries' = [entries EXCEPT ![request[c].agentRunId] = e]
      BY <2>6 DEF BeginRetry, Entry
    <3> HIDE DEF e
    <3> QED BY <2>6, <3>2, <3>3, <3>4, StartSeen DEF BeginRetry
  <2>7. CASE BeginCached(c)
    BY <2>7, CachedSeen
  <2>8. ASSUME NEW reason \in PipelineReasons, ExecuteFailed(c, reason)
        PROVE  [Promise!Next]_(Promise!vars)
    <3>1. /\ UNCHANGED <<attempts, entries, request, attempt_id>>
          /\ OnlyEnds(c) /\ OnlyExecutes(c)
          /\ pc[c] = "execute" /\ pc'[c] \in {"complete", "raised"}
      BY <2>8 DEF ExecuteFailed, repository, IInv, TypeOK, OnlyEnds, OnlyExecutes
    <3>2. CASE pc'[c] = "complete"
      BY <3>1, <3>2, SilentStep DEF Executing, Terminal
    <3>3. CASE pc'[c] = "raised"
      BY <3>1, <3>3, RaiseSeen
    <3> QED BY <3>1, <3>2, <3>3
  <2>9. CASE Complete(c)
    BY <2>9, CompleteSeen
  <2>10. CASE Abort(c)
    BY <2>10, AbortSeen
  <2> QED BY <1>2, <2>1, <2>2, <2>3, <2>4, <2>5, <2>6, <2>7, <2>8, <2>9, <2>10
       DEF Step, Begin
<1>3. CASE UNCHANGED vars
  BY <1>3 DEF vars, Promise!vars, answerSeen, executionsSeen, identitySeen, answerKept
<1> QED BY <1>1, <1>2, <1>3 DEF Next, Terminating

\* What callers see of the repository, its threads and its wake-ups is what
\* IdempotentRun promises.
THEOREM Refinement == Spec => KeepsPromise
<1>1. Init => Promise!Init /\ OwnProposal
  <2> SUFFICES ASSUME Init PROVE Promise!Init /\ OwnProposal
    OBVIOUS
  <2>1. /\ answerSeen = [c \in Calls |-> None]
        /\ identitySeen = [r \in Runs |-> None]
        /\ answerKept = [r \in Runs |-> None]
    BY DEF Init, answerSeen, identitySeen, answerKept
  <2>2. executionsSeen = [r \in Runs |-> {}]
    BY DEF Init, executionsSeen, Executing
  <2>3. OwnProposal
    BY DEF Init, OwnProposal
  <2> QED BY <2>1, <2>2, <2>3 DEF Init, Promise!Init
<1>2. IInv /\ OwnProposal /\ [Next]_vars => [Promise!Next]_(Promise!vars)
  BY StepRefines
<1>3. IInv /\ OwnProposal /\ [Next]_vars => OwnProposal'
  BY OwnProposalStep DEF IInv
<1> QED BY <1>1, <1>2, <1>3, Invariance, PTL DEF Spec, KeepsPromise, Promise!Spec

-----------------------------------------------------------------------------
(***************************************************************************)
(* What follows from the promise therefore holds of the repository.        *)
(***************************************************************************)
PromiseFacts ==
  INSTANCE IdempotentRunProofs WITH
    answer <- answerSeen, pinned <- identitySeen,
    running <- executionsSeen, kept <- answerKept

LEMMA PromiseMet == PromiseFacts!NoneApart
<1>1. PromiseFacts!Request = Request /\ PromiseFacts!Answer = {RaisedSeen} \cup Answer
  BY DEF PromiseFacts!Request, Request, PromiseFacts!Answer, PromiseFacts!Raised, RaisedSeen, Answer
<1> QED BY <1>1, NoneIsNoRecord DEF PromiseFacts!NoneApart

\* Promise and PromiseFacts are one instance under two names.
LEMMA SamePromise ==
  /\ Promise!Init => PromiseFacts!Init
  /\ [Promise!Next]_(Promise!vars) => [PromiseFacts!Next]_(PromiseFacts!vars)
<1>1. Promise!Init => PromiseFacts!Init
  BY DEF Promise!Init, PromiseFacts!Init
<1>2. /\ UNCHANGED Promise!vars => UNCHANGED PromiseFacts!vars
      /\ Promise!Raised = PromiseFacts!Raised
  BY DEF Promise!vars, PromiseFacts!vars, Promise!Raised, PromiseFacts!Raised
<1>3. \A c \in Calls :
        /\ Promise!RunOf(c) = PromiseFacts!RunOf(c)
        /\ Promise!Open(c) <=> PromiseFacts!Open(c)
        /\ Promise!Idle(c) <=> PromiseFacts!Idle(c)
  BY DEF Promise!RunOf, PromiseFacts!RunOf, Promise!Open, PromiseFacts!Open, Promise!Idle, PromiseFacts!Idle
<1>4. /\ \A r : Promise!Number(r) = PromiseFacts!Number(r)
      /\ \A i, n : Promise!Failed(i, n) = PromiseFacts!Failed(i, n)
      /\ \A i, n, c : Promise!Completed(i, n, c) = PromiseFacts!Completed(i, n, c)
  BY DEF Promise!Number, PromiseFacts!Number, Promise!Failed, PromiseFacts!Failed, Promise!Completed,
         PromiseFacts!Completed
<1>5. ASSUME NEW c \in Calls
      PROVE  /\ Promise!Ask(c) => PromiseFacts!Ask(c)
             /\ Promise!Start(c) => PromiseFacts!Start(c)
             /\ Promise!Finish(c) => PromiseFacts!Finish(c)
             /\ Promise!GiveUp(c) => PromiseFacts!GiveUp(c)
             /\ Promise!Repeat(c) => PromiseFacts!Repeat(c)
             /\ Promise!Refuse(c) => PromiseFacts!Refuse(c)
             /\ Promise!Fail(c) => PromiseFacts!Fail(c)
  <2>1. Promise!Ask(c) => PromiseFacts!Ask(c)
    BY DEF Promise!Ask, PromiseFacts!Ask, Promise!Request, PromiseFacts!Request
  <2>2. Promise!Start(c) => PromiseFacts!Start(c)
    BY <1>3, <1>4 DEF Promise!Start, PromiseFacts!Start
  <2>3. Promise!Finish(c) => PromiseFacts!Finish(c)
    BY <1>3, <1>4 DEF Promise!Finish, PromiseFacts!Finish
  <2>4. Promise!GiveUp(c) => PromiseFacts!GiveUp(c)
    BY <1>2, <1>3 DEF Promise!GiveUp, PromiseFacts!GiveUp
  <2>5. Promise!Repeat(c) => PromiseFacts!Repeat(c)
    BY <1>3 DEF Promise!Repeat, PromiseFacts!Repeat
  <2>6. Promise!Refuse(c) => PromiseFacts!Refuse(c)
    BY <1>2, <1>3, <1>4 DEF Promise!Refuse, PromiseFacts!Refuse
  <2>7. Promise!Fail(c) => PromiseFacts!Fail(c)
    BY <1>2, <1>3 DEF Promise!Fail, PromiseFacts!Fail
  <2> QED BY <2>1, <2>2, <2>3, <2>4, <2>5, <2>6, <2>7
<1>6. Promise!Next => PromiseFacts!Next
  BY <1>5 DEF Promise!Next, PromiseFacts!Next
<1> QED BY <1>1, <1>2, <1>6

\* In the repository, too, an attempt number is on one answer, whoever gets it and
\* however it came about, and the answer that is kept is final.
THEOREM RepositoryKeepsItsAnswers ==
  Spec => []PromiseFacts!AttemptNamesOneAnswer /\ []PromiseFacts!OneCompletedAnswer /\ PromiseFacts!KeptIsFinal
<1>1. Spec => PromiseFacts!Spec
  BY Refinement, SamePromise, PTL DEF KeepsPromise, Promise!Spec, PromiseFacts!Spec
<1> QED BY <1>1, PromiseMet, PromiseFacts!PromisedAttemptNamesOneAnswer,
           PromiseFacts!PromisedOneCompletedAnswer, PromiseFacts!PromisedKeptIsFinal

=============================================================================
