--------------------------- MODULE AgentRunState ---------------------------
(***************************************************************************)
(* The process-local Agent Run state repository                            *)
(* (loan_decision/run_state.py) and the handler threads that use it, i.e.  *)
(* the body of LoanDecisionAgentService.run (loan_decision/service.py)     *)
(* with the model pipeline between begin() and complete() left open: an    *)
(* execution ends with any of the outcomes the pipeline has.               *)
(*                                                                         *)
(* A call is one delivery of a Loan Decision Agent Request, handled by one *)
(* thread.  Everything a thread does under self._lock is one action;       *)
(* Event.wait is two, the test of the flag and the sleep.                  *)
(***************************************************************************)
EXTENDS Naturals

CONSTANTS
  Calls,            \* deliveries, duplicates included
  Runs,             \* values of agentRunId
  Identities,       \* values of AgentRunInputIdentity
  EarlyReasons,     \* failure codes raised before the identity is known
  PipelineReasons,  \* failure codes an execution can end with
  ContractReasons,  \* failure codes the mounted result schema accepts
  None              \* Python's None

ConflictReason == "AGENT_RUN_INPUT_CONFLICT"

CacheableReasons ==
  {"AGENT_RUN_INPUT_CONFLICT", "FEATURE_REQUIRED_MISSING",
   "FEATURE_SCHEMA_VERSION_UNSUPPORTED", "FEATURE_TYPE_INVALID",
   "FEATURE_UNKNOWN", "FEATURE_VALUE_OUT_OF_RANGE",
   "MODEL_ARTIFACT_DIGEST_MISMATCH", "SNAPSHOT_DIGEST_MISMATCH"}

Reasons == EarlyReasons \cup PipelineReasons \cup {ConflictReason}

Request == [agentRunId : Runs, identity : Identities]

(***************************************************************************)
(* An Agent Result: the request fields it echoes, its attempt, a Proposal  *)
(* named after the call whose execution made it (the code draws a uuid4),  *)
(* and whether it satisfies the result schema of rippleguard-contracts.    *)
(***************************************************************************)
Result ==
  [agentRunId : Runs, identity : Identities,
   resultStatus : {"COMPLETED", "FAILED"}, reasonCode : Reasons \cup {None},
   attemptId : Nat, proposal : Calls \cup {None}, contractValid : BOOLEAN]

\* What the promise at the end of this module says of a Result.
Answer ==
  [identity : Identities, resultStatus : {"COMPLETED", "FAILED"},
   attemptId : Nat, proposal : Calls \cup {None}]

\* What a caller sees that gets an exception.
RaisedSeen ==
  [identity |-> None, resultStatus |-> "RAISED", attemptId |-> 0, proposal |-> None]

RunStatus == {"IN_PROGRESS", "COMPLETED", "FAILED"}

RunEntry ==
  [identity : Identities, status : RunStatus, attempt_id : Nat,
   result : Result \cup {None}, done : BOOLEAN]

ASSUME NoneIsNoRecord ==
  /\ None \notin Request
  /\ None \notin Result
  /\ None \notin Answer /\ None # RaisedSeen
  /\ None \notin RunEntry
  /\ None \notin Identities
  /\ None \notin Calls
  /\ None \notin Reasons

VARIABLES
  attempts,    \* _attempts: the last attempt number given out for a run
  identities,  \* _identities: the identity a run was first accepted with
  entries,     \* _entries, each with its Event's flag as field done
  pc,          \* where each call's thread is in run()
  request,     \* the request each call carries
  attempt_id,  \* run()'s local attempt_id
  result       \* run()'s local result

repository == <<attempts, identities, entries>>
vars == <<attempts, identities, entries, pc, request, attempt_id, result>>

Terminal == {"returned", "raised"}
Executing == {"execute", "complete", "abort"}

TypeOK ==
  /\ attempts \in [Runs -> Nat]
  /\ identities \in [Runs -> Identities \cup {None}]
  /\ entries \in [Runs -> RunEntry \cup {None}]
  /\ pc \in [Calls -> {"idle", "received", "begin", "wait", "asleep"}
                        \cup Executing \cup Terminal]
  /\ request \in [Calls -> Request \cup {None}]
  /\ attempt_id \in [Calls -> Nat]
  /\ result \in [Calls -> Result \cup {None}]
  /\ \A c \in Calls : pc[c] = "idle" <=> request[c] = None
  /\ \A c \in Calls : pc[c] = "complete" => result[c] # None

\* Mutant: run() starts with attempt_id = None.
InitNoAttempt ==
  /\ attempts = [r \in Runs |-> 0]
  /\ identities = [r \in Runs |-> None]
  /\ entries = [r \in Runs |-> None]
  /\ pc = [c \in Calls |-> "idle"]
  /\ request = [c \in Calls |-> None]
  /\ attempt_id = [c \in Calls |-> None]
  /\ result = [c \in Calls |-> None]

Init ==
  /\ attempts = [r \in Runs |-> 0]
  /\ identities = [r \in Runs |-> None]
  /\ entries = [r \in Runs |-> None]
  /\ pc = [c \in Calls |-> "idle"]
  /\ request = [c \in Calls |-> None]
  /\ attempt_id = [c \in Calls |-> 1]
  /\ result = [c \in Calls |-> None]

-----------------------------------------------------------------------------
(***************************************************************************)
(* Results.                                                                *)
(***************************************************************************)
CompletedResult(c, n, valid) ==
  [agentRunId |-> request[c].agentRunId, identity |-> request[c].identity,
   resultStatus |-> "COMPLETED", reasonCode |-> None,
   attemptId |-> n, proposal |-> c, contractValid |-> valid]

FailedResult(c, n, reason) ==
  [agentRunId |-> request[c].agentRunId, identity |-> request[c].identity,
   resultStatus |-> "FAILED", reasonCode |-> reason,
   attemptId |-> n, proposal |-> None,
   contractValid |-> reason \in ContractReasons]

\* Mutants: only failures, and every Result, are cached.
IsCacheableFailure(res) == res.reasonCode \in CacheableReasons
IsCacheableAny(res) == TRUE

IsCacheable(res) ==
  res.resultStatus = "COMPLETED" \/ res.reasonCode \in CacheableReasons

(***************************************************************************)
(* run()'s last two lines: a result that fails validation is not returned, *)
(* ContractValidationError leaves run() instead.                           *)
(***************************************************************************)
ReturnOrRaise(res) == IF res.contractValid THEN "returned" ELSE "raised"

-----------------------------------------------------------------------------
(***************************************************************************)
(* Before the repository is asked.                                         *)
(***************************************************************************)
Receive(c) ==
  /\ pc[c] = "idle"
  /\ \E req \in Request : request' = [request EXCEPT ![c] = req]
  /\ pc' = [pc EXCEPT ![c] = "received"]
  /\ UNCHANGED <<repository, attempt_id, result>>

\* The time bounds hold and the input identity is computed.
Identify(c) ==
  /\ pc[c] = "received"
  /\ pc' = [pc EXCEPT ![c] = "begin"]
  /\ UNCHANGED <<repository, request, attempt_id, result>>

NextAttempt(c) == attempts[request[c].agentRunId] + 1

\* Mutant: the incremented counter is not stored.
AllocateAttemptUnstored(c) == UNCHANGED attempts

\* attempts' gives the run of call c its next attempt number.
AllocateAttempt(c) ==
  attempts' = [attempts EXCEPT ![request[c].agentRunId] = NextAttempt(c)]

\* A time bound or the feature payload digest fails: allocate_attempt(), then
\* a failed result that the repository never sees.
RejectEarly(c, reason) ==
  /\ pc[c] = "received"
  /\ AllocateAttempt(c)
  /\ attempt_id' = [attempt_id EXCEPT ![c] = NextAttempt(c)]
  /\ LET res == FailedResult(c, NextAttempt(c), reason)
     IN /\ result' = [result EXCEPT ![c] = res]
        /\ pc' = [pc EXCEPT ![c] = ReturnOrRaise(res)]
  /\ UNCHANGED <<identities, entries, request>>

\* Anything but an AgentFailure before the identity is known leaves run().
RaiseEarly(c) ==
  /\ pc[c] = "received"
  /\ pc' = [pc EXCEPT ![c] = "raised"]
  /\ UNCHANGED <<repository, request, attempt_id, result>>

-----------------------------------------------------------------------------
(***************************************************************************)
(* begin(): one action per way out of the critical section.                *)
(***************************************************************************)
Entry(c) == entries[request[c].agentRunId]

\* Mutant: the identity is not compared.
MatchesAnyIdentity(c) == Entry(c) # None

Matches(c) == Entry(c) # None /\ Entry(c).identity = request[c].identity

HasAnswer(e) == e.result # None /\ IsCacheable(e.result)

\* Mutants: an execution in progress, and a kept answer, do not stop a retry.
MayRetryRunning(e) == ~ HasAnswer(e)
MayRetryAnswered(e) == e.status # "IN_PROGRESS"

\* The last execution is over and left no answer to keep.
MayRetry(e) == e.status # "IN_PROGRESS" /\ ~ HasAnswer(e)

\* No entry: this call's execution is the run's first.
BeginFirst(c) ==
  LET r == request[c].agentRunId
  IN /\ pc[c] = "begin"
     /\ Entry(c) = None
     /\ AllocateAttempt(c)
     /\ identities' = [identities EXCEPT ![r] = request[c].identity]
     /\ entries' = [entries EXCEPT ![r] =
          [identity |-> request[c].identity, status |-> "IN_PROGRESS",
           attempt_id |-> NextAttempt(c), result |-> None, done |-> FALSE]]
     /\ attempt_id' = [attempt_id EXCEPT ![c] = NextAttempt(c)]
     /\ pc' = [pc EXCEPT ![c] = "execute"]
     /\ UNCHANGED <<request, result>>

\* Another identity: AgentRunInputConflict with an attempt of its own.
BeginConflict(c) ==
  /\ pc[c] = "begin"
  /\ Entry(c) # None
  /\ ~ Matches(c)
  /\ AllocateAttempt(c)
  /\ attempt_id' = [attempt_id EXCEPT ![c] = NextAttempt(c)]
  /\ LET res == FailedResult(c, NextAttempt(c), ConflictReason)
     IN /\ result' = [result EXCEPT ![c] = res]
        /\ pc' = [pc EXCEPT ![c] = ReturnOrRaise(res)]
  /\ UNCHANGED <<identities, entries, request>>

\* An execution is in progress: leave the lock and wait for its Event.
BeginWait(c) ==
  /\ pc[c] = "begin"
  /\ Matches(c)
  /\ Entry(c).status = "IN_PROGRESS"
  /\ pc' = [pc EXCEPT ![c] = "wait"]
  /\ UNCHANGED <<repository, request, attempt_id, result>>

\* The run has its answer: return it after validating it again.  A cached
\* result that is no longer valid takes the path of an unexpected exception.
BeginCached(c) ==
  /\ pc[c] = "begin"
  /\ Matches(c)
  /\ Entry(c).status # "IN_PROGRESS"
  /\ HasAnswer(Entry(c))
  /\ attempt_id' = [attempt_id EXCEPT ![c] = Entry(c).attempt_id]
  /\ result' = [result EXCEPT ![c] = Entry(c).result]
  /\ pc' = [pc EXCEPT ![c] =
              IF Entry(c).result.contractValid THEN "returned" ELSE "abort"]
  /\ UNCHANGED <<repository, request>>

\* The run is executed again, by this call.
BeginRetry(c) ==
  LET r == request[c].agentRunId
  IN /\ pc[c] = "begin"
     /\ Matches(c)
     /\ MayRetry(Entry(c))
     /\ AllocateAttempt(c)
     /\ entries' = [entries EXCEPT ![r] =
          [@ EXCEPT !.attempt_id = NextAttempt(c), !.status = "IN_PROGRESS",
                    !.result = None, !.done = FALSE]]
     /\ attempt_id' = [attempt_id EXCEPT ![c] = NextAttempt(c)]
     /\ pc' = [pc EXCEPT ![c] = "execute"]
     /\ UNCHANGED <<identities, request, result>>

Begin(c) ==
  BeginFirst(c) \/ BeginConflict(c) \/ BeginWait(c) \/ BeginCached(c) \/ BeginRetry(c)

(***************************************************************************)
(* done.wait(), without the lock and without a timeout: a set flag lets    *)
(* the thread pass, otherwise it sleeps until the next set().              *)
(***************************************************************************)
WaitPass(c) ==
  /\ pc[c] = "wait"
  /\ Entry(c).done
  /\ pc' = [pc EXCEPT ![c] = "begin"]
  /\ UNCHANGED <<repository, request, attempt_id, result>>

WaitSleep(c) ==
  /\ pc[c] = "wait"
  /\ ~ Entry(c).done
  /\ pc' = [pc EXCEPT ![c] = "asleep"]
  /\ UNCHANGED <<repository, request, attempt_id, result>>

-----------------------------------------------------------------------------
(***************************************************************************)
(* The execution between begin() and complete().                           *)
(***************************************************************************)
\* Mutant: complete() before the validation.
CompleteUnvalidated(valid) == "complete"

\* _validate_and_complete() inside the try block: a result the schema rejects
\* is an unexpected exception.
CompleteOrAbort(valid) == IF valid THEN "complete" ELSE "abort"

ExecuteCompleted(c) ==
  /\ pc[c] = "execute"
  /\ \E valid \in BOOLEAN :
       /\ result' = [result EXCEPT ![c] = CompletedResult(c, attempt_id[c], valid)]
       /\ pc' = [pc EXCEPT ![c] = CompleteOrAbort(valid)]
  /\ UNCHANGED <<repository, request, attempt_id>>

\* An AgentFailure.  A failed result the schema rejects raises inside the
\* except clause, where no handler of the same try statement sees it.
ExecuteFailed(c, reason) ==
  /\ pc[c] = "execute"
  /\ LET res == FailedResult(c, attempt_id[c], reason)
     IN /\ result' = [result EXCEPT ![c] = res]
        /\ pc' = [pc EXCEPT ![c] = IF res.contractValid THEN "complete" ELSE "raised"]
  /\ UNCHANGED <<repository, request, attempt_id>>

\* Any other exception.
ExecuteRaises(c) ==
  /\ pc[c] = "execute"
  /\ pc' = [pc EXCEPT ![c] = "abort"]
  /\ UNCHANGED <<repository, request, attempt_id, result>>

\* Mutants: done.set() is missing; the status is not updated.
SettledSilently(e, status, res) == [e EXCEPT !.status = status, !.result = res]
SettledInProgress(e, status, res) == [e EXCEPT !.result = res, !.done = TRUE]

Settled(e, status, res) ==
  [e EXCEPT !.status = status, !.result = res, !.done = TRUE]

(***************************************************************************)
(* What complete() and abort() share: nothing happens to the entry of      *)
(* another identity; otherwise the entry is settled, and set() wakes every *)
(* thread asleep on its Event.  The calling thread goes on to next.        *)
(***************************************************************************)
Settle(c, status, res, next) ==
  /\ entries' = IF Matches(c)
                THEN [entries EXCEPT ![request[c].agentRunId] = Settled(@, status, res)]
                ELSE entries
  /\ pc' = [d \in Calls |->
              IF d = c THEN next
              ELSE IF pc[d] = "asleep" /\ entries'[request[d].agentRunId].done THEN "begin"
              ELSE pc[d]]

Complete(c) ==
  /\ pc[c] = "complete"
  /\ Settle(c, result[c].resultStatus, result[c], ReturnOrRaise(result[c]))
  /\ UNCHANGED <<attempts, identities, request, attempt_id, result>>

Abort(c) ==
  /\ pc[c] = "abort"
  /\ Settle(c, "FAILED", None, "raised")
  /\ UNCHANGED <<attempts, identities, request, attempt_id, result>>

-----------------------------------------------------------------------------
\* What a thread does on its own once the request is in.
Step(c) ==
  \/ Identify(c)
  \/ \E reason \in EarlyReasons : RejectEarly(c, reason)
  \/ RaiseEarly(c)
  \/ Begin(c)
  \/ WaitPass(c)
  \/ WaitSleep(c)
  \/ ExecuteCompleted(c)
  \/ \E reason \in PipelineReasons : ExecuteFailed(c, reason)
  \/ ExecuteRaises(c)
  \/ Complete(c)
  \/ Abort(c)

\* Every delivery has been answered.
Terminating == (\A c \in Calls : pc[c] \in Terminal) /\ UNCHANGED vars

Next == (\E c \in Calls : Receive(c) \/ Step(c)) \/ Terminating

Spec == Init /\ [][Next]_vars

\* Threads are scheduled and the pipeline is a finite computation.
FairSpec == Spec /\ \A c \in Calls : WF_vars(Step(c))

-----------------------------------------------------------------------------
(***************************************************************************)
(* Safety.                                                                 *)
(***************************************************************************)
SameRun(c, d) == request[c].agentRunId = request[d].agentRunId

\* A run is executed by one thread at a time, whatever the interleaving of
\* begin(), the wake-ups and the retries of its deliveries (the single flight
\* of run_state.py's IN_PROGRESS status).
SingleFlight ==
  \A c, d \in Calls :
    pc[c] \in Executing /\ pc[d] \in Executing /\ SameRun(c, d) => c = d

\* Two deliveries of a run that both return COMPLETED return the same Result,
\* so the same Proposal and the same attempt: no delivery of the run gets a
\* second Proposal, also after failures, retries and conflicting deliveries.
OneCompletedResult ==
  \A c, d \in Calls :
    /\ pc[c] = "returned" /\ result[c].resultStatus = "COMPLETED"
    /\ pc[d] = "returned" /\ result[d].resultStatus = "COMPLETED"
    /\ SameRun(c, d)
    => result[c] = result[d]

\* An attempt number of a run names one Result: two deliveries that return the
\* same agentRunId and attemptId return the same Result, be it an execution's,
\* a conflict's or an early rejection's.
AttemptNamesOneResult ==
  \A c, d \in Calls :
    /\ pc[c] = "returned" /\ pc[d] = "returned" /\ SameRun(c, d)
    /\ result[c].attemptId = result[d].attemptId
    => result[c] = result[d]

\* The Result a delivery returns, cached ones included, echoes the run and the
\* input identity of that delivery's own request: the Result of a changed
\* input is never handed out.
AnswerEchoesRequest ==
  \A c \in Calls :
    pc[c] = "returned" =>
      /\ result[c].agentRunId = request[c].agentRunId
      /\ result[c].identity = request[c].identity

\* The repository keeps no Result the contract rejects: run() validates before
\* complete(), so the validation of a cached Result cannot fail and abort()
\* cannot erase an answer.
OnlyValidResultsKept ==
  \A r \in Runs :
    entries[r] # None /\ entries[r].result # None => entries[r].result.contractValid

\* A thread asleep in done.wait() has an execution to wait for, and the flag
\* that would have let it pass is down: no wake-up is lost between the release
\* of the lock, the test of the flag, set() and the clear() of a retry.
NoSleeperForgotten ==
  \A c \in Calls :
    pc[c] = "asleep" =>
      /\ ~ Entry(c).done
      /\ \E d \in Calls : pc[d] \in Executing /\ SameRun(c, d)

\* Once a run has a cacheable Result its entry never changes again, whoever
\* delivers what later.
AnswerIsFinal ==
  [][\A r \in Runs :
       entries[r] # None /\ HasAnswer(entries[r]) => entries'[r] = entries[r]]_vars

\* Only the thread that executes an attempt ends it: an IN_PROGRESS entry
\* changes by that thread's complete() or abort(), never by a conflicting, a
\* rejected or a waiting delivery.
OnlyOwnerEndsExecution ==
  [][\A r \in Runs :
       /\ entries[r] # None /\ entries[r].status = "IN_PROGRESS"
       /\ entries'[r] # entries[r]
       => \E c \in Calls :
            /\ pc[c] \in Executing /\ pc'[c] \in Terminal
            /\ request[c].agentRunId = r
            /\ attempt_id[c] = entries[r].attempt_id]_vars

-----------------------------------------------------------------------------
(***************************************************************************)
(* Liveness.                                                               *)
(***************************************************************************)
\* Every delivery is answered: it returns or raises, duplicates that wait
\* through any number of failed executions included.
EveryCallAnswered == \A c \in Calls : pc[c] = "received" ~> pc[c] \in Terminal

\* A duplicate that waits for an execution returns the Result that execution
\* returns (docs/phase-2-runtime-scope.md, Idempotency Boundary).
WaiterReturnsSameResult ==
  \A c, d \in Calls :
    [](pc[c] = "asleep" /\ pc[d] = "complete" /\ SameRun(c, d) =>
         [](pc[c] = "returned" => result[c] = result[d]))

-----------------------------------------------------------------------------
(***************************************************************************)
(* The promise this repository keeps: IdempotentRun, seen through what an  *)
(* entry and the positions of the threads say of a run.                    *)
(***************************************************************************)
Seen(res) ==
  [identity |-> res.identity, resultStatus |-> res.resultStatus,
   attemptId |-> res.attemptId, proposal |-> res.proposal]

answerSeen ==
  [c \in Calls |-> IF pc[c] = "returned" THEN Seen(result[c])
                   ELSE IF pc[c] = "raised" THEN RaisedSeen ELSE None]

identitySeen == [r \in Runs |-> IF entries[r] = None THEN None ELSE entries[r].identity]

executionsSeen ==
  [r \in Runs |->
     {[call |-> c, attemptId |-> attempt_id[c]] :
        c \in {d \in Calls : pc[d] \in Executing /\ request[d].agentRunId = r}}]

answerKept ==
  [r \in Runs |-> IF entries[r] # None /\ HasAnswer(entries[r])
                  THEN Seen(entries[r].result) ELSE None]

Promise ==
  INSTANCE IdempotentRun WITH
    answer <- answerSeen, pinned <- identitySeen,
    running <- executionsSeen, kept <- answerKept

\* Every behaviour of the repository and its threads is one the promise
\* allows: what callers see is as if each run had one execution at a time, a
\* fresh number per attempt and one final answer.
KeepsPromise == Promise!Spec

=============================================================================
