--------------------------- MODULE IdempotentRun ---------------------------
(***************************************************************************)
(* What the Runtime promises to its caller about an Agent Run              *)
(* (docs/phase-2-runtime-scope.md, Idempotency Boundary), with no word of  *)
(* locks, entries, events or sleeping threads.                             *)
(*                                                                         *)
(* A run belongs to the first identity it is executed with.  It is         *)
(* executed by one call at a time; executions and refusals each take the   *)
(* next attempt number of the run.  Once an answer is kept no call         *)
(* executes the run again, and COMPLETED answers are always kept.          *)
(***************************************************************************)
EXTENDS Naturals

CONSTANTS Calls, Runs, Identities, None

Request == [agentRunId : Runs, identity : Identities]

\* What a call ends with that gets an exception instead of a Result.
Raised ==
  [identity |-> None, resultStatus |-> "RAISED", attemptId |-> 0, proposal |-> None]

Failed(i, n) ==
  [identity |-> i, resultStatus |-> "FAILED", attemptId |-> n, proposal |-> None]

Completed(i, n, c) ==
  [identity |-> i, resultStatus |-> "COMPLETED", attemptId |-> n, proposal |-> c]

VARIABLES
  request,  \* what each call asks for
  answer,   \* None while a call is open
  pinned,   \* the identity a run belongs to
  attempts, \* the last attempt number of a run
  running,  \* the executions of a run, at most one
  kept      \* the answer that is final for a run

vars == <<request, answer, pinned, attempts, running, kept>>

Init ==
  /\ request = [c \in Calls |-> None]
  /\ answer = [c \in Calls |-> None]
  /\ pinned = [r \in Runs |-> None]
  /\ attempts = [r \in Runs |-> 0]
  /\ running = [r \in Runs |-> {}]
  /\ kept = [r \in Runs |-> None]

Open(c) == request[c] # None /\ answer[c] = None

RunOf(c) == request[c].agentRunId

Idle(c) == Open(c) /\ \A x \in running[RunOf(c)] : x.call # c

Number(r) == attempts[r] + 1

-----------------------------------------------------------------------------
Ask(c) ==
  /\ request[c] = None
  /\ \E req \in Request : request' = [request EXCEPT ![c] = req]
  /\ UNCHANGED <<answer, pinned, attempts, running, kept>>

\* A call starts an execution: nobody runs the run and nothing is kept.
Start(c) ==
  LET r == RunOf(c)
  IN /\ Idle(c)
     /\ pinned[r] \in {None, request[c].identity}
     /\ running[r] = {}
     /\ kept[r] = None
     /\ attempts' = [attempts EXCEPT ![r] = Number(r)]
     /\ running' = [running EXCEPT ![r] = {[call |-> c, attemptId |-> Number(r)]}]
     /\ pinned' = [pinned EXCEPT ![r] = request[c].identity]
     /\ UNCHANGED <<request, answer, kept>>

\* The execution of a call ends with an answer, COMPLETED with a Proposal of
\* its own or FAILED with none; COMPLETED is final, FAILED may be.
Finish(c) ==
  LET r == RunOf(c)
      i == request[c].identity
  IN /\ Open(c)
     /\ \E x \in running[r] :
          /\ x.call = c
          /\ \/ /\ answer' = [answer EXCEPT ![c] = Completed(i, x.attemptId, c)]
                /\ kept' = [kept EXCEPT ![r] = answer'[c]]
             \/ /\ answer' = [answer EXCEPT ![c] = Failed(i, x.attemptId)]
                /\ kept' \in {kept, [kept EXCEPT ![r] = answer'[c]]}
     /\ running' = [running EXCEPT ![r] = {}]
     /\ UNCHANGED <<request, pinned, attempts>>

\* The execution of a call ends without an answer.
GiveUp(c) ==
  /\ Open(c)
  /\ \E x \in running[RunOf(c)] : x.call = c
  /\ running' = [running EXCEPT ![RunOf(c)] = {}]
  /\ answer' = [answer EXCEPT ![c] = Raised]
  /\ UNCHANGED <<request, pinned, attempts, kept>>

\* A duplicate gets the answer that was kept for its identity.
Repeat(c) ==
  LET r == RunOf(c)
  IN /\ Idle(c)
     /\ pinned[r] = request[c].identity
     /\ kept[r] # None
     /\ answer' = [answer EXCEPT ![c] = kept[r]]
     /\ UNCHANGED <<request, pinned, attempts, running, kept>>

\* A call is refused, for a changed input or before its input is known, under
\* an attempt number of its own; what the run is doing is not disturbed.
Refuse(c) ==
  LET r == RunOf(c)
  IN /\ Idle(c)
     /\ attempts' = [attempts EXCEPT ![r] = Number(r)]
     /\ \E a \in {Raised, Failed(request[c].identity, Number(r))} :
          answer' = [answer EXCEPT ![c] = a]
     /\ UNCHANGED <<request, pinned, running, kept>>

\* A call that executes nothing ends without an answer.
Fail(c) ==
  /\ Idle(c)
  /\ answer' = [answer EXCEPT ![c] = Raised]
  /\ UNCHANGED <<request, pinned, attempts, running, kept>>

Next ==
  \E c \in Calls :
    Ask(c) \/ Start(c) \/ Finish(c) \/ GiveUp(c) \/ Repeat(c) \/ Refuse(c) \/ Fail(c)

Spec == Init /\ [][Next]_vars

=============================================================================
