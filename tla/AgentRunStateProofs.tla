------------------------ MODULE AgentRunStateProofs ------------------------
(***************************************************************************)
(* Proofs about AgentRunState, for any number of deliveries, runs, input   *)
(* identities and failure codes.                                           *)
(***************************************************************************)
EXTENDS AgentRunState, TLAPS

(***************************************************************************)
(* The inductive invariant.  Its parts say, of every reachable state:      *)
(***************************************************************************)

\* what an entry is when its lock is free: settled exactly when not in
\* progress, and a kept Result is the valid Result of the entry's attempt;
EntryOK(r) ==
  LET e == entries[r]
  IN /\ e.attempt_id \in 1..attempts[r]
     /\ e.done <=> e.status # "IN_PROGRESS"
     /\ e.status = "IN_PROGRESS" => e.result = None
     /\ e.result # None =>
          /\ e.result.contractValid
          /\ e.result.agentRunId = r
          /\ e.result.identity = e.identity
          /\ e.result.attemptId = e.attempt_id
          /\ e.result.resultStatus = e.status

EntriesOK == \A r \in Runs : entries[r] # None => EntryOK(r)

\* a thread that executes owns the entry: it is in progress under the
\* thread's identity and attempt number;
Owns(c) ==
  /\ Matches(c)
  /\ Entry(c).status = "IN_PROGRESS"
  /\ Entry(c).attempt_id = attempt_id[c]

OwnersOK == \A c \in Calls : pc[c] \in Executing => Owns(c)

\* a thread about to complete() holds a valid Result of its own attempt;
ToComplete(c) ==
  /\ result[c] # None
  /\ result[c].contractValid
  /\ result[c].agentRunId = request[c].agentRunId
  /\ result[c].identity = request[c].identity
  /\ result[c].attemptId = attempt_id[c]

CompletersOK == \A c \in Calls : pc[c] = "complete" => ToComplete(c)

\* a waiting thread waits for an entry of its own identity, a sleeping one
\* for an entry whose flag is down;
WaitersOK ==
  /\ \A c \in Calls : pc[c] \in {"wait", "asleep"} => Matches(c)
  /\ \A c \in Calls : pc[c] = "asleep" => ~ Entry(c).done

\* a returned Result is a valid one of the call's request, its attempt number
\* is in use, and if it is the number of the entry or if it is COMPLETED then
\* it is the Result the entry keeps.
Returned(c) ==
  /\ result[c] # None
  /\ result[c].contractValid
  /\ result[c].agentRunId = request[c].agentRunId
  /\ result[c].identity = request[c].identity
  /\ result[c].attemptId \in 1..attempts[request[c].agentRunId]
  /\ result[c].resultStatus = "COMPLETED" =>
       Entry(c) # None /\ Entry(c).result = result[c]
  /\ Entry(c) # None /\ Entry(c).attempt_id = result[c].attemptId =>
       Entry(c).result = result[c]

ReturnedOK == \A c \in Calls : pc[c] = "returned" => Returned(c)

Coherent ==
  /\ SingleFlight
  /\ EntriesOK
  /\ OwnersOK
  /\ CompletersOK
  /\ WaitersOK
  /\ ReturnedOK
  /\ AttemptNamesOneResult

IInv == TypeOK /\ Coherent

-----------------------------------------------------------------------------
(***************************************************************************)
(* Types.                                                                  *)
(***************************************************************************)

\* What a failed result is built from gives a Result.
LEMMA FailedResultType ==
  ASSUME TypeOK, NEW c \in Calls, request[c] # None,
         NEW n \in Nat, NEW reason \in Reasons
  PROVE  FailedResult(c, n, reason) \in Result
BY DEF TypeOK, FailedResult, Result, Request

\* The same for a completed result.
LEMMA CompletedResultType ==
  ASSUME TypeOK, NEW c \in Calls, request[c] # None,
         NEW n \in Nat, NEW valid \in BOOLEAN
  PROVE  CompletedResult(c, n, valid) \in Result
BY DEF TypeOK, CompletedResult, Result, Request

\* Settling an entry that is there keeps its type.
LEMMA SettledType ==
  ASSUME NEW e \in RunEntry, NEW status \in RunStatus, NEW res \in Result \cup {None}
  PROVE  Settled(e, status, res) \in RunEntry
BY DEF Settled, RunEntry

\* complete() and abort() keep the types of what they write.
LEMMA SettleType ==
  ASSUME TypeOK, NEW c \in Calls, request[c] # None,
         NEW status \in RunStatus, NEW res \in Result \cup {None},
         NEW next \in Terminal,
         Settle(c, status, res, next)
  PROVE  /\ entries' \in [Runs -> RunEntry \cup {None}]
         /\ pc' \in [Calls -> {"idle", "received", "begin", "wait", "asleep"}
                                \cup Executing \cup Terminal]
         /\ \A d \in Calls : d # c => (pc'[d] = "idle" <=> pc[d] = "idle")
         /\ \A d \in Calls : d # c /\ pc'[d] = "complete" => pc[d] = "complete"
<1> DEFINE r == request[c].agentRunId
<1>1. r \in Runs
  BY DEF TypeOK, Request
<1>2. entries' \in [Runs -> RunEntry \cup {None}]
  <2>1. CASE Matches(c)
    <3>1. entries[r] \in RunEntry
      BY <2>1, <1>1 DEF Matches, Entry, TypeOK
    <3>2. entries' = [entries EXCEPT ![r] = Settled(entries[r], status, res)]
      BY <2>1 DEF Settle
    <3> QED BY <3>1, <3>2, SettledType DEF TypeOK
  <2>2. CASE ~ Matches(c)
    BY <2>2 DEF Settle, TypeOK
  <2> QED BY <2>1, <2>2
<1>3. pc' \in [Calls -> {"idle", "received", "begin", "wait", "asleep"}
                          \cup Executing \cup Terminal]
  BY DEF Settle, TypeOK
<1>4. /\ \A d \in Calls : d # c => (pc'[d] = "idle" <=> pc[d] = "idle")
      /\ \A d \in Calls : d # c /\ pc'[d] = "complete" => pc[d] = "complete"
  BY DEF Settle
<1> QED BY <1>2, <1>3, <1>4

\* Every step keeps the types.
LEMMA TypeStep == TypeOK /\ [Next]_vars => TypeOK'
<1> SUFFICES ASSUME TypeOK, [Next]_vars PROVE TypeOK'
  OBVIOUS
<1> USE NoneIsNoRecord
<1>1. ASSUME NEW c \in Calls, Receive(c) PROVE TypeOK'
  BY <1>1 DEF Receive, TypeOK, repository
<1>2. ASSUME NEW c \in Calls, Step(c) PROVE TypeOK'
  <2> SUFFICES ASSUME pc[c] # "idle", request[c] \in Request,
                      request[c].agentRunId \in Runs, request[c].identity \in Identities,
                      NextAttempt(c) \in Nat
               PROVE  TypeOK'
    BY <1>2 DEF Step, TypeOK, Request, NextAttempt, Identify, RejectEarly, RaiseEarly,
         Begin, BeginFirst, BeginConflict, BeginWait, BeginCached, BeginRetry, WaitPass,
         WaitSleep, ExecuteCompleted, ExecuteFailed, ExecuteRaises, Complete, Abort
  <2>1. CASE Identify(c)
    BY <2>1 DEF Identify, TypeOK, repository
  <2>2. ASSUME NEW reason \in EarlyReasons, RejectEarly(c, reason) PROVE TypeOK'
    <3>1. FailedResult(c, NextAttempt(c), reason) \in Result
      BY FailedResultType DEF Reasons
    <3> QED BY <2>2, <3>1 DEF RejectEarly, AllocateAttempt, TypeOK, ReturnOrRaise, Terminal
  <2>3. CASE RaiseEarly(c)
    BY <2>3 DEF RaiseEarly, TypeOK, repository, Terminal
  <2>4. CASE BeginFirst(c)
    BY <2>4 DEF BeginFirst, AllocateAttempt, TypeOK, RunEntry, RunStatus, Executing
  <2>5. CASE BeginConflict(c)
    <3>1. FailedResult(c, NextAttempt(c), ConflictReason) \in Result
      BY FailedResultType DEF Reasons
    <3> QED BY <2>5, <3>1 DEF BeginConflict, AllocateAttempt, TypeOK, ReturnOrRaise, Terminal
  <2>6. CASE BeginWait(c)
    BY <2>6 DEF BeginWait, TypeOK, repository
  <2>7. CASE BeginCached(c)
    <3>1. Entry(c) \in RunEntry /\ Entry(c).result \in Result
      BY <2>7 DEF BeginCached, Matches, HasAnswer, Entry, TypeOK, RunEntry
    <3>2. Entry(c).attempt_id \in Nat
      BY <3>1 DEF RunEntry
    <3> QED BY <2>7, <3>1, <3>2 DEF BeginCached, TypeOK, repository, Executing, Terminal
  <2>8. CASE BeginRetry(c)
    <3>1. Entry(c) \in RunEntry
      BY <2>8 DEF BeginRetry, Matches, Entry, TypeOK
    <3>2. [Entry(c) EXCEPT !.attempt_id = NextAttempt(c), !.status = "IN_PROGRESS",
                           !.result = None, !.done = FALSE] \in RunEntry
      BY <3>1 DEF RunEntry, RunStatus
    <3> QED BY <2>8, <3>2 DEF BeginRetry, AllocateAttempt, Entry, TypeOK, Executing
  <2>9. CASE WaitPass(c) \/ WaitSleep(c)
    BY <2>9 DEF WaitPass, WaitSleep, TypeOK, repository
  <2>10. CASE ExecuteCompleted(c)
    <3>1. PICK valid \in BOOLEAN :
            /\ result' = [result EXCEPT ![c] = CompletedResult(c, attempt_id[c], valid)]
            /\ pc' = [pc EXCEPT ![c] = CompleteOrAbort(valid)]
      BY <2>10 DEF ExecuteCompleted
    <3>2. CompletedResult(c, attempt_id[c], valid) \in Result
      BY CompletedResultType DEF TypeOK
    <3> QED BY <2>10, <3>1, <3>2
         DEF ExecuteCompleted, CompleteOrAbort, TypeOK, repository, Executing
  <2>11. ASSUME NEW reason \in PipelineReasons, ExecuteFailed(c, reason) PROVE TypeOK'
    <3>1. FailedResult(c, attempt_id[c], reason) \in Result
      BY FailedResultType DEF Reasons, TypeOK
    <3> QED BY <2>11, <3>1 DEF ExecuteFailed, TypeOK, repository, Executing, Terminal
  <2>12. CASE ExecuteRaises(c)
    BY <2>12 DEF ExecuteRaises, TypeOK, repository, Executing
  <2>13. CASE Complete(c)
    <3>1. result[c] \in Result /\ result[c].resultStatus \in RunStatus
      BY <2>13 DEF Complete, TypeOK, Result, RunStatus
    <3>2. pc'[c] \in Terminal
      BY <2>13 DEF Complete, Settle, ReturnOrRaise, Terminal, TypeOK
    <3>3. ReturnOrRaise(result[c]) \in Terminal
      BY DEF ReturnOrRaise, Terminal
    <3>4. /\ entries' \in [Runs -> RunEntry \cup {None}]
          /\ pc' \in [Calls -> {"idle", "received", "begin", "wait", "asleep"}
                                \cup Executing \cup Terminal]
          /\ \A d \in Calls : d # c => (pc'[d] = "idle" <=> pc[d] = "idle")
          /\ \A d \in Calls : d # c /\ pc'[d] = "complete" => pc[d] = "complete"
      BY <2>13, <3>1, <3>3, SettleType DEF Complete
    <3>5. /\ \A d \in Calls : pc'[d] = "idle" <=> request[d] = None
          /\ \A d \in Calls : pc'[d] = "complete" => result[d] # None
      BY <3>2, <3>4 DEF Terminal, TypeOK
    <3>6. UNCHANGED <<attempts, identities, request, attempt_id, result>>
      BY <2>13 DEF Complete
    <3> QED BY <3>2, <3>4, <3>5, <3>6 DEF TypeOK
  <2>14. CASE Abort(c)
    <3>1. "FAILED" \in RunStatus /\ "raised" \in Terminal
      BY DEF RunStatus, Terminal
    <3>2. pc'[c] \in Terminal
      BY <2>14, <3>1 DEF Abort, Settle, TypeOK
    <3>3. /\ entries' \in [Runs -> RunEntry \cup {None}]
          /\ pc' \in [Calls -> {"idle", "received", "begin", "wait", "asleep"}
                                \cup Executing \cup Terminal]
          /\ \A d \in Calls : d # c => (pc'[d] = "idle" <=> pc[d] = "idle")
          /\ \A d \in Calls : d # c /\ pc'[d] = "complete" => pc[d] = "complete"
      BY <2>14, <3>1, SettleType DEF Abort
    <3>4. /\ \A d \in Calls : pc'[d] = "idle" <=> request[d] = None
          /\ \A d \in Calls : pc'[d] = "complete" => result[d] # None
      BY <3>2, <3>3 DEF Terminal, TypeOK
    <3>5. UNCHANGED <<attempts, identities, request, attempt_id, result>>
      BY <2>14 DEF Abort
    <3> QED BY <3>2, <3>3, <3>4, <3>5 DEF TypeOK
  <2> QED BY <1>2, <2>1, <2>2, <2>3, <2>4, <2>5, <2>6, <2>7, <2>8, <2>9, <2>10,
             <2>11, <2>12, <2>13, <2>14 DEF Step, Begin
<1>3. CASE UNCHANGED vars
  BY <1>3 DEF vars, TypeOK
<1> QED BY <1>1, <1>2, <1>3 DEF Next, Terminating

\* Type correctness: no interleaving of run(), begin(), complete() and abort()
\* brings a counter, an entry or a local of run() out of its range.
THEOREM TypeCorrect == Spec => []TypeOK
<1>1. Init => TypeOK
  BY NoneIsNoRecord DEF Init, TypeOK
<1> QED BY <1>1, TypeStep, PTL DEF Spec

-----------------------------------------------------------------------------
(***************************************************************************)
(* The invariant is kept.  Steps fall into four kinds; a lemma for each.   *)
(***************************************************************************)

\* A step of one thread that does not touch the repository.
LEMMA ThreadStep ==
  ASSUME IInv, TypeOK', NEW c \in Calls,
         UNCHANGED <<attempts, entries, request>>,
         \A d \in Calls \ {c} : /\ pc'[d] = pc[d]
                                /\ attempt_id'[d] = attempt_id[d]
                                /\ result'[d] = result[d],
         pc'[c] \in Executing => pc[c] \in Executing /\ attempt_id'[c] = attempt_id[c],
         pc'[c] = "complete" => ToComplete(c)',
         pc'[c] \in {"wait", "asleep"} => Matches(c),
         pc'[c] = "asleep" => ~ Entry(c).done,
         pc'[c] = "returned" =>
           /\ Returned(c)'
           /\ \A d \in Calls : /\ d # c /\ pc[d] = "returned" /\ SameRun(c, d)
                               /\ result'[c].attemptId = result[d].attemptId
                               => result'[c] = result[d]
  PROVE  Coherent'
<1> USE DEF IInv, Coherent
<1>1. SingleFlight'
  BY DEF SingleFlight, SameRun
<1>2. EntriesOK'
  BY DEF EntriesOK, EntryOK
<1>3. OwnersOK'
  BY DEF OwnersOK, Owns, Matches, Entry
<1>4. CompletersOK'
  BY DEF CompletersOK, ToComplete
<1>5. WaitersOK'
  BY DEF WaitersOK, Matches, Entry
<1>6. ReturnedOK'
  BY DEF ReturnedOK, Returned, Entry
<1>7. AttemptNamesOneResult'
  BY DEF AttemptNamesOneResult, SameRun
<1> QED BY <1>1, <1>2, <1>3, <1>4, <1>5, <1>6, <1>7

\* A call that is refused under an attempt number of its own.
LEMMA RefuseStep ==
  ASSUME IInv, TypeOK', NEW c \in Calls, NEW reason \in Reasons,
         pc[c] \in {"received", "begin"},
         AllocateAttempt(c),
         UNCHANGED <<entries, request>>,
         attempt_id' = [attempt_id EXCEPT ![c] = NextAttempt(c)],
         result' = [result EXCEPT ![c] = FailedResult(c, NextAttempt(c), reason)],
         pc' = [pc EXCEPT ![c] = ReturnOrRaise(FailedResult(c, NextAttempt(c), reason))]
  PROVE  Coherent'
<1> DEFINE r == request[c].agentRunId
           n == NextAttempt(c)
           res == FailedResult(c, n, reason)
<1> USE DEF IInv, Coherent
<1>1. /\ r \in Runs
      /\ attempts[r] \in Nat
      /\ n = attempts[r] + 1
      /\ attempts' = [attempts EXCEPT ![r] = n]
      /\ attempts \in [Runs -> Nat]
      /\ request[c] # None
  BY DEF TypeOK, Request, NextAttempt, AllocateAttempt
<1>2. /\ pc'[c] \in Terminal
      /\ \A d \in Calls \ {c} : /\ pc'[d] = pc[d]
                                /\ attempt_id'[d] = attempt_id[d]
                                /\ result'[d] = result[d]
      /\ result'[c] = res
      /\ pc'[c] = "returned" => res.contractValid
  BY DEF TypeOK, Terminal, ReturnOrRaise
<1>3. /\ res # None
      /\ res.agentRunId = r
      /\ res.identity = request[c].identity
      /\ res.attemptId = n
      /\ res.resultStatus = "FAILED"
  <2>1. res \in Result
    BY <1>1, FailedResultType
  <2> QED BY <2>1, NoneIsNoRecord DEF FailedResult
<1>4. \A q \in Runs : 1..attempts[q] \subseteq 1..attempts'[q]
  BY <1>1
<1>5. n \notin 1..attempts[r] /\ n \in 1..attempts'[r]
  BY <1>1
<1> HIDE DEF n, res
<1>6. SingleFlight'
  BY <1>2 DEF SingleFlight, SameRun, Terminal, Executing
<1>7. EntriesOK'
  BY <1>4 DEF EntriesOK, EntryOK
<1>8. OwnersOK'
  BY <1>2 DEF OwnersOK, Owns, Matches, Entry, Terminal, Executing
<1>9. CompletersOK'
  BY <1>2 DEF CompletersOK, ToComplete, Terminal
<1>10. WaitersOK'
  BY <1>2 DEF WaitersOK, Matches, Entry, Terminal
<1>11. ReturnedOK'
  <2>1. ASSUME NEW d \in Calls \ {c}, pc'[d] = "returned" PROVE Returned(d)'
    <3>1. Returned(d) /\ request[d].agentRunId \in Runs
      BY <1>2, <2>1 DEF ReturnedOK, TypeOK, Request
    <3> QED BY <1>2, <1>4, <3>1 DEF Returned, Entry
  <2>2. ASSUME pc'[c] = "returned" PROVE Returned(c)'
    <3>1. Entry(c) # None => Entry(c).attempt_id \in 1..attempts[r]
      BY <1>1 DEF EntriesOK, EntryOK, Entry
    <3> QED BY <1>2, <1>3, <1>5, <2>2, <3>1 DEF Returned, Entry
  <2> QED BY <2>1, <2>2 DEF ReturnedOK
<1>12. AttemptNamesOneResult'
  <2>1. ASSUME NEW d \in Calls \ {c}, pc[d] = "returned", SameRun(c, d)
        PROVE  result[d].attemptId # n
    BY <1>5, <2>1 DEF ReturnedOK, Returned, SameRun
  <2> QED BY <1>2, <1>3, <2>1 DEF AttemptNamesOneResult, SameRun
<1> QED BY <1>6, <1>7, <1>8, <1>9, <1>10, <1>11, <1>12

\* A call that begins an execution, where there is no entry or where the
\* entry may be retried.
LEMMA StartStep ==
  ASSUME IInv, TypeOK', NEW c \in Calls,
         pc[c] = "begin",
         Entry(c) = None \/ (Matches(c) /\ MayRetry(Entry(c))),
         AllocateAttempt(c),
         UNCHANGED <<request, result>>,
         attempt_id' = [attempt_id EXCEPT ![c] = NextAttempt(c)],
         pc' = [pc EXCEPT ![c] = "execute"],
         NEW e, e \in RunEntry,
         entries' = [entries EXCEPT ![request[c].agentRunId] = e],
         e.identity = request[c].identity, e.status = "IN_PROGRESS",
         e.attempt_id = NextAttempt(c), e.result = None, ~ e.done
  PROVE  Coherent'
<1> DEFINE r == request[c].agentRunId
           n == NextAttempt(c)
<1> USE DEF IInv, Coherent
<1>1. /\ r \in Runs
      /\ attempts[r] \in Nat
      /\ n = attempts[r] + 1
      /\ attempts' = [attempts EXCEPT ![r] = n]
      /\ attempts \in [Runs -> Nat]
      /\ entries'[r] = e /\ e # None /\ e.attempt_id = n
      /\ \A q \in Runs \ {r} : entries'[q] = entries[q]
  BY NoneIsNoRecord DEF TypeOK, Request, NextAttempt, AllocateAttempt
<1>2. /\ pc'[c] = "execute"
      /\ attempt_id'[c] = n
      /\ \A d \in Calls \ {c} : pc'[d] = pc[d] /\ attempt_id'[d] = attempt_id[d]
  BY DEF TypeOK
<1>3. \A q \in Runs : 1..attempts[q] \subseteq 1..attempts'[q]
  BY <1>1
<1>4. n \notin 1..attempts[r] /\ n \in 1..attempts'[r]
  BY <1>1
<1>5. \A d \in Calls : pc[d] \notin {"idle"} => request[d].agentRunId \in Runs
  BY DEF TypeOK, Request
<1>6. \A d \in Calls : pc[d] \in Executing => ~ SameRun(c, d)
  BY DEF OwnersOK, Owns, SameRun, Matches, Entry, MayRetry
<1> HIDE DEF n
<1>7. SingleFlight'
  BY <1>2, <1>6 DEF SingleFlight, SameRun
<1>8. EntriesOK'
  <2>1. EntryOK(r)'
    BY <1>1, <1>4 DEF EntryOK
  <2>2. ASSUME NEW q \in Runs \ {r}, entries'[q] # None PROVE EntryOK(q)'
    BY <1>1, <1>3, <2>2 DEF EntriesOK, EntryOK
  <2> QED BY <2>1, <2>2 DEF EntriesOK
<1>9. OwnersOK'
  <2>1. Owns(c)'
    BY <1>1, <1>2 DEF Owns, Matches, Entry
  <2>2. ASSUME NEW d \in Calls \ {c}, pc'[d] \in Executing PROVE Owns(d)'
    <3>1. Owns(d) /\ request[d].agentRunId \in Runs \ {r}
      BY <1>2, <1>5, <1>6, <2>2 DEF OwnersOK, SameRun, Executing
    <3> QED BY <1>1, <1>2, <3>1 DEF Owns, Matches, Entry
  <2> QED BY <2>1, <2>2 DEF OwnersOK
<1>10. CompletersOK'
  BY <1>2 DEF CompletersOK, ToComplete
<1>11. WaitersOK'
  BY <1>1, <1>2, <1>5 DEF WaitersOK, Matches, Entry
<1>12. ReturnedOK'
  <2> SUFFICES ASSUME NEW d \in Calls \ {c}, pc[d] = "returned" PROVE Returned(d)'
    BY <1>2 DEF ReturnedOK
  <2>1. Returned(d) /\ request[d].agentRunId \in Runs
    BY <1>5 DEF ReturnedOK
  <2>2. CASE request[d].agentRunId # r
    BY <1>1, <1>3, <2>1, <2>2 DEF Returned, Entry
  <2>3. CASE request[d].agentRunId = r
    <3>1. result[d].resultStatus # "COMPLETED"
      BY <2>1, <2>3 DEF Returned, Entry, MayRetry, HasAnswer, IsCacheable
    <3>2. result[d].attemptId # n
      BY <1>4, <2>1, <2>3 DEF Returned
    <3> QED BY <1>1, <1>3, <2>1, <2>3, <3>1, <3>2 DEF Returned, Entry
  <2> QED BY <2>2, <2>3
<1>13. AttemptNamesOneResult'
  BY <1>2 DEF AttemptNamesOneResult, SameRun
<1> QED BY <1>7, <1>8, <1>9, <1>10, <1>11, <1>12, <1>13

\* complete() or abort() by the thread that owns the entry.
LEMMA SettleStep ==
  ASSUME IInv, TypeOK', NEW c \in Calls, pc[c] \in Executing,
         NEW status \in {"COMPLETED", "FAILED"}, NEW res, NEW next \in Terminal,
         Settle(c, status, res, next),
         UNCHANGED <<attempts, request, attempt_id, result>>,
         \/ res = None /\ next = "raised"
         \/ res = result[c] /\ ToComplete(c) /\ status = res.resultStatus
  PROVE  Coherent'
<1> DEFINE r == request[c].agentRunId
           e == Settled(entries[r], status, res)
<1> USE DEF IInv, Coherent
<1>1. Owns(c) /\ r \in Runs /\ entries[r] \in RunEntry
  BY DEF OwnersOK, Owns, Matches, Entry, TypeOK, Request, Executing
<1>2. /\ entries'[r] = e
      /\ \A q \in Runs \ {r} : entries'[q] = entries[q]
  BY <1>1 DEF Settle, Owns, TypeOK
<1>3. /\ e.identity = entries[r].identity
      /\ e.attempt_id = entries[r].attempt_id
      /\ e.status = status
      /\ e.result = res
      /\ e.done
  BY <1>1 DEF Settled, RunEntry
<1>4. e # None
  <2>1. status \in RunStatus /\ res \in Result \cup {None}
    BY DEF RunStatus, TypeOK
  <2>2. e \in RunEntry
    BY <1>1, <2>1, SettledType
  <2> QED BY <2>2, NoneIsNoRecord
<1>5. /\ pc'[c] = next
      /\ \A d \in Calls \ {c} :
           \/ pc'[d] = pc[d] /\ (pc[d] = "asleep" => ~ entries'[request[d].agentRunId].done)
           \/ pc[d] = "asleep" /\ pc'[d] = "begin"
  BY DEF Settle
<1>6. \A d \in Calls : pc[d] # "idle" => request[d].agentRunId \in Runs
  BY DEF TypeOK, Request
<1>7. entries[r].result = None
  BY <1>1 DEF EntriesOK, EntryOK, Owns, Matches, Entry
<1>8. \A d \in Calls \ {c} : pc[d] \in Executing => request[d].agentRunId # r
  BY DEF SingleFlight, SameRun
<1> HIDE DEF e
<1>9. SingleFlight'
  BY <1>5 DEF SingleFlight, SameRun, Executing, Terminal
<1>10. EntriesOK'
  <2>1. EntryOK(r)'
    BY <1>1, <1>2, <1>3 DEF EntriesOK, EntryOK, Owns, Matches, Entry, ToComplete
  <2>2. ASSUME NEW q \in Runs \ {r}, entries'[q] # None PROVE EntryOK(q)'
    BY <1>2, <2>2 DEF EntriesOK, EntryOK
  <2> QED BY <2>1, <2>2 DEF EntriesOK
<1>11. OwnersOK'
  <2> SUFFICES ASSUME NEW d \in Calls \ {c}, pc[d] \in Executing PROVE Owns(d)'
    BY <1>5 DEF OwnersOK, Executing, Terminal
  <2>1. Owns(d) /\ request[d].agentRunId \in Runs \ {r}
    BY <1>6, <1>8 DEF OwnersOK, Executing
  <2> QED BY <1>2, <2>1 DEF Owns, Matches, Entry
<1>12. CompletersOK'
  BY <1>5 DEF CompletersOK, ToComplete, Terminal
<1>13. WaitersOK'
  BY <1>2, <1>3, <1>4, <1>5, <1>6 DEF WaitersOK, Matches, Entry, Terminal
<1>14. ReturnedOK'
  <2>1. ASSUME pc'[c] = "returned" PROVE Returned(c)'
    BY <1>1, <1>2, <1>3, <1>4, <1>5, <2>1
       DEF Returned, ToComplete, Entry, EntriesOK, EntryOK, Owns, Matches
  <2>2. ASSUME NEW d \in Calls \ {c}, pc'[d] = "returned" PROVE Returned(d)'
    <3>1. Returned(d) /\ request[d].agentRunId \in Runs
      BY <1>5, <1>6, <2>2 DEF ReturnedOK
    <3>2. CASE request[d].agentRunId # r
      BY <1>2, <3>1, <3>2 DEF Returned, Entry
    <3>3. CASE request[d].agentRunId = r
      BY <1>1, <1>2, <1>3, <1>7, <3>1, <3>3 DEF Returned, Entry, Owns, Matches
    <3> QED BY <3>2, <3>3
  <2> QED BY <2>1, <2>2 DEF ReturnedOK
<1>15. AttemptNamesOneResult'
  <2>1. ASSUME NEW d \in Calls \ {c}, pc'[d] = "returned", SameRun(c, d),
               pc'[c] = "returned"
        PROVE  result[d].attemptId # result[c].attemptId
    BY <1>1, <1>5, <1>7, <2>1
       DEF ReturnedOK, Returned, ToComplete, Owns, Matches, Entry, SameRun
  <2> QED BY <1>5, <2>1 DEF AttemptNamesOneResult, SameRun
<1> QED BY <1>9, <1>10, <1>11, <1>12, <1>13, <1>14, <1>15

-----------------------------------------------------------------------------
\* Every step of every thread keeps the invariant.
LEMMA CoherentStep ==
  ASSUME IInv, TypeOK', [Next]_vars
  PROVE  Coherent'
<1> USE DEF IInv, repository
<1>1. ASSUME NEW c \in Calls, Receive(c) PROVE Coherent'
  <2> SUFFICES \A d \in Calls : pc[d] # "idle" => request'[d] = request[d]
    BY <1>1 DEF Receive, TypeOK, Coherent, SingleFlight, SameRun, EntriesOK, EntryOK,
         OwnersOK, Owns, Matches, Entry, CompletersOK, ToComplete, WaitersOK, ReturnedOK,
         Returned, AttemptNamesOneResult, Executing
  <2> QED BY <1>1 DEF Receive, TypeOK
<1>2. ASSUME NEW c \in Calls, Step(c) PROVE Coherent'
  <2>1. CASE Identify(c) \/ RaiseEarly(c) \/ WaitPass(c) \/ ExecuteRaises(c)
    BY <2>1, ThreadStep DEF Identify, RaiseEarly, WaitPass, ExecuteRaises, TypeOK, Executing
  <2>2. ASSUME NEW reason \in EarlyReasons, RejectEarly(c, reason) PROVE Coherent'
    <3>1. reason \in Reasons
      BY DEF Reasons
    <3> QED BY <2>2, <3>1, RefuseStep DEF RejectEarly
  <2>3. CASE BeginFirst(c)
    <3> DEFINE e == [identity |-> request[c].identity, status |-> "IN_PROGRESS",
                     attempt_id |-> NextAttempt(c), result |-> None, done |-> FALSE]
    <3>1. e \in RunEntry
      BY <2>3 DEF BeginFirst, TypeOK, Request, RunEntry, RunStatus, NextAttempt
    <3>2. /\ e.identity = request[c].identity
          /\ e.status = "IN_PROGRESS"
          /\ e.attempt_id = NextAttempt(c)
          /\ e.result = None
          /\ ~ e.done
          /\ entries' = [entries EXCEPT ![request[c].agentRunId] = e]
      BY <2>3 DEF BeginFirst
    <3> HIDE DEF e
    <3> QED BY <2>3, <3>1, <3>2, StartStep DEF BeginFirst
  <2>4. CASE BeginConflict(c)
    <3>1. ConflictReason \in Reasons
      BY DEF Reasons
    <3> QED BY <2>4, <3>1, RefuseStep DEF BeginConflict
  <2>5. CASE BeginWait(c)
    BY <2>5, ThreadStep DEF BeginWait, TypeOK, Executing
  <2>6. CASE WaitSleep(c)
    BY <2>6, ThreadStep DEF WaitSleep, WaitersOK, Coherent, TypeOK, Executing
  <2>7. CASE BeginCached(c)
    <3> DEFINE r == request[c].agentRunId
    <3>1. /\ r \in Runs /\ entries[r] # None /\ EntryOK(r)
          /\ entries[r].result # None /\ entries[r].identity = request[c].identity
      BY <2>7 DEF BeginCached, Matches, HasAnswer, Entry, TypeOK, Request, Coherent, EntriesOK
    <3>2. /\ entries[r].result.contractValid
          /\ entries[r].result.agentRunId = r
          /\ entries[r].result.identity = request[c].identity
          /\ entries[r].result.attemptId = entries[r].attempt_id
          /\ entries[r].attempt_id \in 1..attempts[r]
      BY <3>1 DEF EntryOK
    <3>3. /\ pc'[c] = "returned"
          /\ result'[c] = entries[r].result
          /\ UNCHANGED <<attempts, entries, request>>
          /\ \A d \in Calls \ {c} : /\ pc'[d] = pc[d]
                                    /\ attempt_id'[d] = attempt_id[d]
                                    /\ result'[d] = result[d]
      BY <2>7, <3>2 DEF BeginCached, Entry, TypeOK
    <3>4. Returned(c)'
      BY <3>1, <3>2, <3>3 DEF Returned, Entry
    <3>5. \A d \in Calls : /\ d # c /\ pc[d] = "returned" /\ SameRun(c, d)
                           /\ result'[c].attemptId = result[d].attemptId
                           => result'[c] = result[d]
      BY <3>1, <3>2, <3>3 DEF Coherent, ReturnedOK, Returned, Entry, SameRun
    <3> QED BY <3>3, <3>4, <3>5, ThreadStep DEF Executing
  <2>8. CASE BeginRetry(c)
    <3> DEFINE e == [Entry(c) EXCEPT !.attempt_id = NextAttempt(c),
                       !.status = "IN_PROGRESS", !.result = None, !.done = FALSE]
    <3>1. Entry(c) \in RunEntry /\ NextAttempt(c) \in Nat
      BY <2>8 DEF BeginRetry, Matches, Entry, TypeOK, Request, NextAttempt
    <3>2. e \in RunEntry
      BY <3>1 DEF RunEntry, RunStatus
    <3>3. /\ e.identity = request[c].identity
          /\ e.status = "IN_PROGRESS"
          /\ e.attempt_id = NextAttempt(c)
          /\ e.result = None
          /\ ~ e.done
      BY <2>8, <3>1 DEF BeginRetry, Matches, RunEntry
    <3>4. entries' = [entries EXCEPT ![request[c].agentRunId] = e]
      BY <2>8 DEF BeginRetry, Entry
    <3> HIDE DEF e
    <3> QED BY <2>8, <3>2, <3>3, <3>4, StartStep DEF BeginRetry
  <2>9. CASE ExecuteCompleted(c)
    <3>1. PICK valid \in BOOLEAN :
            /\ result' = [result EXCEPT ![c] = CompletedResult(c, attempt_id[c], valid)]
            /\ pc' = [pc EXCEPT ![c] = CompleteOrAbort(valid)]
      BY <2>9 DEF ExecuteCompleted
    <3>2. CompletedResult(c, attempt_id[c], valid) \in Result
      BY <2>9, CompletedResultType DEF ExecuteCompleted, TypeOK
    <3>3. /\ pc'[c] \in {"complete", "abort"}
          /\ pc'[c] = "complete" => valid
          /\ result'[c] = CompletedResult(c, attempt_id[c], valid)
          /\ UNCHANGED <<attempts, entries, request, attempt_id>>
          /\ pc[c] = "execute"
          /\ \A d \in Calls \ {c} : pc'[d] = pc[d] /\ result'[d] = result[d]
      BY <2>9, <3>1 DEF ExecuteCompleted, CompleteOrAbort, TypeOK
    <3>4. pc'[c] = "complete" => ToComplete(c)'
      <4> DEFINE res == CompletedResult(c, attempt_id[c], valid)
      <4>1. /\ res.contractValid = valid
            /\ res.agentRunId = request[c].agentRunId
            /\ res.identity = request[c].identity
            /\ res.attemptId = attempt_id[c]
        BY DEF CompletedResult
      <4> QED BY <3>2, <3>3, <4>1, NoneIsNoRecord DEF ToComplete
    <3> QED BY <3>3, <3>4, ThreadStep DEF Executing
  <2>10. ASSUME NEW reason \in PipelineReasons, ExecuteFailed(c, reason) PROVE Coherent'
    <3> DEFINE res == FailedResult(c, attempt_id[c], reason)
    <3>1. res \in Result
      BY <2>10, FailedResultType DEF ExecuteFailed, TypeOK, Reasons
    <3>2. /\ pc'[c] \in {"complete", "raised"}
          /\ pc'[c] = "complete" => res.contractValid
          /\ result'[c] = res
          /\ UNCHANGED <<attempts, entries, request, attempt_id>>
          /\ pc[c] = "execute"
          /\ \A d \in Calls \ {c} : pc'[d] = pc[d] /\ result'[d] = result[d]
      BY <2>10 DEF ExecuteFailed, TypeOK
    <3>3. pc'[c] = "complete" => ToComplete(c)'
      BY <3>1, <3>2, NoneIsNoRecord DEF ToComplete, FailedResult
    <3> HIDE DEF res
    <3> QED BY <3>2, <3>3, ThreadStep DEF Executing
  <2>11. CASE Complete(c)
    <3>1. ToComplete(c) /\ result[c] \in Result
      BY <2>11 DEF Complete, Coherent, CompletersOK, TypeOK
    <3>2. /\ result[c].resultStatus \in {"COMPLETED", "FAILED"}
          /\ ReturnOrRaise(result[c]) \in Terminal
      BY <3>1 DEF Result, ReturnOrRaise, Terminal
    <3>3. pc[c] \in Executing
      BY <2>11 DEF Complete, Executing
    <3> QED BY <2>11, <3>1, <3>2, <3>3, SettleStep DEF Complete
  <2>12. CASE Abort(c)
    <3>1. "FAILED" \in {"COMPLETED", "FAILED"} /\ "raised" \in Terminal
      BY DEF Terminal
    <3>2. pc[c] \in Executing
      BY <2>12 DEF Abort, Executing
    <3> QED BY <2>12, <3>1, <3>2, SettleStep DEF Abort
  <2> QED BY <1>2, <2>1, <2>2, <2>3, <2>4, <2>5, <2>6, <2>7, <2>8, <2>9, <2>10, <2>11,
             <2>12 DEF Step, Begin
<1>3. CASE UNCHANGED vars
  BY <1>3 DEF vars, TypeOK, Coherent, SingleFlight, SameRun, EntriesOK, EntryOK,
       OwnersOK, Owns, Matches, Entry, CompletersOK, ToComplete, WaitersOK, ReturnedOK,
       Returned, AttemptNamesOneResult
<1> QED BY <1>1, <1>2, <1>3 DEF Next, Terminating

\* The invariant holds of every reachable state.
LEMMA Invariance == Spec => []IInv
<1>1. Init => IInv
  <2>1. Init => TypeOK
    BY NoneIsNoRecord DEF Init, TypeOK
  <2>2. Init => Coherent
    BY DEF Init, Coherent, SingleFlight, EntriesOK, OwnersOK, CompletersOK, WaitersOK,
       ReturnedOK, AttemptNamesOneResult, Executing
  <2> QED BY <2>1, <2>2 DEF IInv
<1>2. IInv /\ [Next]_vars => IInv'
  BY TypeStep, CoherentStep DEF IInv
<1> QED BY <1>1, <1>2, PTL DEF Spec

(***************************************************************************)
(* What follows from it.                                                   *)
(***************************************************************************)

\* However begin(), the wake-ups, the retries and the conflicts of any number
\* of deliveries interleave, a run is executed by at most one thread.
THEOREM SingleFlightHolds == Spec => []SingleFlight
<1>1. IInv => SingleFlight
  BY DEF IInv, Coherent
<1> QED BY <1>1, Invariance, PTL

\* No run ever has two completed Results, so no run ever has two Proposals.
THEOREM OneCompletedResultHolds == Spec => []OneCompletedResult
<1>1. IInv => OneCompletedResult
  BY DEF IInv, Coherent, ReturnedOK, Returned, OneCompletedResult, SameRun, Entry
<1> QED BY <1>1, Invariance, PTL

\* An attempt number of a run is never answered with two different Results.
THEOREM AttemptNamesOneResultHolds == Spec => []AttemptNamesOneResult
<1>1. IInv => AttemptNamesOneResult
  BY DEF IInv, Coherent
<1> QED BY <1>1, Invariance, PTL

\* A delivery is only ever answered with a Result of its own run and input.
THEOREM AnswerEchoesRequestHolds == Spec => []AnswerEchoesRequest
<1>1. IInv => AnswerEchoesRequest
  BY DEF IInv, Coherent, ReturnedOK, Returned, AnswerEchoesRequest
<1> QED BY <1>1, Invariance, PTL

\* The repository keeps contract-valid Results only.
THEOREM OnlyValidResultsKeptHolds == Spec => []OnlyValidResultsKept
<1>1. IInv => OnlyValidResultsKept
  BY DEF IInv, Coherent, EntriesOK, EntryOK, OnlyValidResultsKept
<1> QED BY <1>1, Invariance, PTL

-----------------------------------------------------------------------------
(***************************************************************************)
(* What a step may do to an entry.                                         *)
(***************************************************************************)

\* An entry is written by begin() when it starts an execution and by the
\* thread that owns it when it ends one, nowhere else.
LEMMA EntryWrites ==
  ASSUME IInv, [Next]_vars, NEW r \in Runs, entries'[r] # entries[r]
  PROVE  \E c \in Calls :
           /\ request[c].agentRunId = r
           /\ BeginFirst(c) \/ BeginRetry(c) \/ Complete(c) \/ Abort(c)
<1> USE DEF IInv, repository
<1>1. PICK c \in Calls : Receive(c) \/ Step(c)
  BY DEF Next, Terminating, vars
<1>2. BeginFirst(c) \/ BeginRetry(c) \/ Complete(c) \/ Abort(c)
  BY <1>1 DEF Receive, Step, Begin, Identify, RejectEarly, RaiseEarly, BeginConflict,
       BeginWait, BeginCached, WaitPass, WaitSleep, ExecuteCompleted, ExecuteFailed,
       ExecuteRaises
<1>3. request[c].agentRunId = r
  <2>1. request[c].agentRunId \in Runs
    BY <1>2 DEF TypeOK, Request, BeginFirst, BeginRetry, Complete, Abort
  <2> QED BY <1>2, <2>1 DEF BeginFirst, BeginRetry, Complete, Abort, Settle, TypeOK
<1> QED BY <1>2, <1>3

\* complete() and abort() find their own attempt in progress.
LEMMA SettlerOwns ==
  ASSUME IInv, NEW c \in Calls, Complete(c) \/ Abort(c)
  PROVE  /\ Owns(c)
         /\ request[c].agentRunId \in Runs
         /\ Entry(c) \in RunEntry
         /\ Entry(c).result = None
         /\ ~ Entry(c).done
         /\ pc[c] \in Executing /\ pc'[c] \in Terminal
<1>1. pc[c] \in Executing /\ pc'[c] \in Terminal
  BY DEF Complete, Abort, Settle, ReturnOrRaise, Executing, Terminal
<1>2. Owns(c)
  BY <1>1 DEF IInv, Coherent, OwnersOK
<1>3. request[c].agentRunId \in Runs
  BY DEF IInv, TypeOK, Request, Complete, Abort
<1>4. Entry(c) \in RunEntry
  BY <1>2, <1>3 DEF IInv, TypeOK, Owns, Matches, Entry
<1>5. Entry(c).result = None /\ ~ Entry(c).done
  BY <1>2, <1>3 DEF IInv, Coherent, EntriesOK, EntryOK, Owns, Matches, Entry
<1> QED BY <1>1, <1>2, <1>3, <1>4, <1>5

\* They settle it: with the Result of the thread, or with none.
LEMMA SettlerSettles ==
  ASSUME IInv, NEW c \in Calls, Complete(c) \/ Abort(c)
  PROVE  \E e \in RunEntry :
           /\ entries' = [entries EXCEPT ![request[c].agentRunId] = e]
           /\ e.identity = request[c].identity
           /\ Complete(c) => e.result = result[c]
           /\ Abort(c) => e.result = None
           /\ e.status # "IN_PROGRESS"
           /\ e.done
<1> DEFINE res  == IF Complete(c) THEN result[c] ELSE None
           stat == IF Complete(c) THEN result[c].resultStatus ELSE "FAILED"
<1>1. Owns(c) /\ Entry(c) \in RunEntry
  BY SettlerOwns
<1>2. res \in Result \cup {None} /\ stat \in {"COMPLETED", "FAILED"}
  <2>1. Complete(c) => result[c] \in Result
    BY DEF IInv, TypeOK, Complete
  <2> QED BY <2>1 DEF Result
<1>3. Settled(Entry(c), stat, res) \in RunEntry
  BY <1>1, <1>2, SettledType DEF RunStatus
<1>4. entries' = [entries EXCEPT ![request[c].agentRunId] = Settled(Entry(c), stat, res)]
  BY <1>1 DEF Complete, Abort, Settle, Owns, Entry
<1> HIDE DEF res, stat
<1>5. /\ Settled(Entry(c), stat, res).identity = request[c].identity
      /\ Settled(Entry(c), stat, res).result = res
      /\ Settled(Entry(c), stat, res).status # "IN_PROGRESS"
      /\ Settled(Entry(c), stat, res).done
  BY <1>1, <1>2 DEF Settled, RunEntry, Owns, Matches
<1>6. /\ Complete(c) => res = result[c]
      /\ Abort(c) => res = None
  BY DEF res, Complete, Abort
<1> QED BY <1>3, <1>4, <1>5, <1>6

\* A cacheable Result, once kept, is kept unchanged for ever.
THEOREM AnswerIsFinalHolds == Spec => AnswerIsFinal
<1> DEFINE Final == \A r \in Runs :
             entries[r] # None /\ HasAnswer(entries[r]) => entries'[r] = entries[r]
<1>1. IInv /\ [Next]_vars => Final
  <2> SUFFICES ASSUME IInv, [Next]_vars, NEW r \in Runs, entries[r] # None,
                      HasAnswer(entries[r]), entries'[r] # entries[r]
               PROVE  FALSE
    OBVIOUS
  <2>1. PICK c \in Calls :
          /\ request[c].agentRunId = r
          /\ BeginFirst(c) \/ BeginRetry(c) \/ Complete(c) \/ Abort(c)
    BY EntryWrites
  <2>2. CASE BeginFirst(c) \/ BeginRetry(c)
    BY <2>1, <2>2 DEF BeginFirst, BeginRetry, MayRetry, Entry
  <2>3. CASE Complete(c) \/ Abort(c)
    BY <2>1, <2>3, SettlerOwns DEF Entry, HasAnswer
  <2> QED BY <2>1, <2>2, <2>3
<1> QED BY <1>1, Invariance, PTL DEF Spec, AnswerIsFinal

\* An execution in progress is ended by the thread that runs it and by no
\* other delivery.
THEOREM OnlyOwnerEndsExecutionHolds == Spec => OnlyOwnerEndsExecution
<1> DEFINE OwnerEnds ==
             \A r \in Runs :
               /\ entries[r] # None /\ entries[r].status = "IN_PROGRESS"
               /\ entries'[r] # entries[r]
               => \E c \in Calls :
                    /\ pc[c] \in Executing /\ pc'[c] \in Terminal
                    /\ request[c].agentRunId = r
                    /\ attempt_id[c] = entries[r].attempt_id
<1>1. IInv /\ [Next]_vars => OwnerEnds
  <2> SUFFICES ASSUME IInv, [Next]_vars, NEW r \in Runs, entries[r] # None,
                      entries[r].status = "IN_PROGRESS", entries'[r] # entries[r]
               PROVE  \E c \in Calls :
                        /\ pc[c] \in Executing /\ pc'[c] \in Terminal
                        /\ request[c].agentRunId = r
                        /\ attempt_id[c] = entries[r].attempt_id
    OBVIOUS
  <2>1. PICK c \in Calls :
          /\ request[c].agentRunId = r
          /\ BeginFirst(c) \/ BeginRetry(c) \/ Complete(c) \/ Abort(c)
    BY EntryWrites
  <2>2. Complete(c) \/ Abort(c)
    BY <2>1 DEF BeginFirst, BeginRetry, MayRetry, Entry
  <2> QED BY <2>1, <2>2, SettlerOwns DEF Owns, Entry
<1> QED BY <1>1, Invariance, PTL DEF Spec, OnlyOwnerEndsExecution

-----------------------------------------------------------------------------
(***************************************************************************)
(* No sleeper is forgotten, provided that the mounted result schema        *)
(* accepts every failed result the pipeline can end with.                  *)
(***************************************************************************)

\* An entry in progress has a thread that executes it.
Owned ==
  \A r \in Runs :
    entries[r] # None /\ entries[r].status = "IN_PROGRESS" =>
      \E c \in Calls : pc[c] \in Executing /\ request[c].agentRunId = r

\* Every step keeps it.
LEMMA OwnedStep ==
  ASSUME PipelineReasons \subseteq ContractReasons, IInv, Owned, [Next]_vars
  PROVE  Owned'
<1> USE DEF IInv
<1> SUFFICES ASSUME NEW r \in Runs, entries'[r] # None, entries'[r].status = "IN_PROGRESS"
             PROVE  \E c \in Calls : pc'[c] \in Executing /\ request'[c].agentRunId = r
  BY DEF Owned
<1>1. CASE entries'[r] # entries[r]
  <2>1. PICK c \in Calls :
          /\ request[c].agentRunId = r
          /\ BeginFirst(c) \/ BeginRetry(c) \/ Complete(c) \/ Abort(c)
    BY <1>1, EntryWrites
  <2>2. CASE BeginFirst(c) \/ BeginRetry(c)
    BY <2>1, <2>2 DEF BeginFirst, BeginRetry, TypeOK, Executing
  <2>3. ASSUME Complete(c) \/ Abort(c) PROVE FALSE
    BY <2>1, <2>3, SettlerOwns, SettlerSettles DEF TypeOK
  <2> QED BY <2>1, <2>2, <2>3
<1>2. CASE entries'[r] = entries[r]
  <2>1. PICK c \in Calls : pc[c] \in Executing /\ request[c].agentRunId = r
    BY <1>2 DEF Owned
  <2>2. CASE pc'[c] \in Executing /\ request'[c] = request[c]
    BY <2>1, <2>2
  <2>3. ASSUME ~ (pc'[c] \in Executing /\ request'[c] = request[c]) PROVE FALSE
    <3>1. Complete(c) \/ Abort(c)
      <4>1. ASSUME NEW d \in Calls, Receive(d) PROVE FALSE
        BY <2>1, <2>3, <4>1 DEF Receive, TypeOK, Executing
      <4>2. ASSUME NEW d \in Calls, Step(d) PROVE d = c /\ (Complete(c) \/ Abort(c))
        <5> USE <2>1, <2>3, <4>2 DEF TypeOK, Executing, repository
        <5>1. CASE Begin(d)
          BY <5>1 DEF Begin, BeginFirst, BeginConflict, BeginWait, BeginCached, BeginRetry
        <5>2. CASE Complete(d) \/ Abort(d)
          BY <5>2 DEF Complete, Abort, Settle
        <5>3. ASSUME NEW reason \in PipelineReasons, ExecuteFailed(d, reason) PROVE FALSE
          <6>1. FailedResult(d, attempt_id[d], reason).contractValid
            BY DEF FailedResult
          <6> QED BY <5>3, <6>1 DEF ExecuteFailed
        <5>4. CASE ExecuteCompleted(d) \/ ExecuteRaises(d)
          BY <5>4 DEF ExecuteCompleted, ExecuteRaises, CompleteOrAbort
        <5>5. CASE Identify(d) \/ RaiseEarly(d) \/ WaitPass(d) \/ WaitSleep(d)
          BY <5>5 DEF Identify, RaiseEarly, WaitPass, WaitSleep
        <5>6. ASSUME NEW reason \in EarlyReasons, RejectEarly(d, reason) PROVE FALSE
          BY <5>6 DEF RejectEarly
        <5> QED BY <5>1, <5>2, <5>3, <5>4, <5>5, <5>6 DEF Step
      <4>3. CASE UNCHANGED vars
        BY <2>1, <2>3, <4>3 DEF vars
      <4> QED BY <4>1, <4>2, <4>3 DEF Next, Terminating
    <3> QED BY <1>2, <2>1, <3>1, SettlerOwns, SettlerSettles DEF Entry, TypeOK
  <2> QED BY <2>2, <2>3
<1> QED BY <1>1, <1>2

LEMMA OwnedHolds ==
  ASSUME PipelineReasons \subseteq ContractReasons
  PROVE  Spec => []Owned
<1>1. Init => Owned
  BY DEF Init, Owned
<1>2. Owned /\ IInv /\ [Next]_vars => Owned'
  BY OwnedStep
<1> QED BY <1>1, <1>2, Invariance, PTL DEF Spec

\* A duplicate asleep in done.wait() always has an execution to wait for and a
\* flag that is still down, if no failed result can be rejected by the
\* contract inside run()'s except clause.
THEOREM NoSleeperForgottenHolds ==
  ASSUME PipelineReasons \subseteq ContractReasons
  PROVE  Spec => []NoSleeperForgotten
<1>1. IInv /\ Owned => NoSleeperForgotten
  <2> SUFFICES ASSUME IInv, Owned, NEW c \in Calls, pc[c] = "asleep"
               PROVE  /\ ~ Entry(c).done
                      /\ \E d \in Calls : pc[d] \in Executing /\ SameRun(c, d)
    BY DEF NoSleeperForgotten
  <2>1. Matches(c) /\ ~ Entry(c).done /\ request[c].agentRunId \in Runs
    BY DEF IInv, Coherent, WaitersOK, TypeOK, Request
  <2>2. Entry(c).status = "IN_PROGRESS"
    BY <2>1 DEF IInv, Coherent, EntriesOK, EntryOK, Matches, Entry
  <2> QED BY <2>1, <2>2 DEF Owned, Matches, Entry, SameRun
<1>2. Spec => []Owned
  BY OwnedHolds
<1> QED BY <1>1, <1>2, Invariance, PTL

=============================================================================
