------------------------ MODULE LoanDecisionService ------------------------
(***************************************************************************)
(* LoanDecisionAgentService.run (service.py): the threads and the state    *)
(* repository of AgentRunState with the execution they leave open filled   *)
(* in by ModelPipeline, and the clock against which a request is checked   *)
(* before the repository is asked and again before it completes.           *)
(*                                                                         *)
(* An input identity is an input of the pipeline: the identity pins all of *)
(* a request that the pipeline reads, except the times.                    *)
(***************************************************************************)
EXTENDS AgentRunState, Sequences

CONSTANTS
  Deliveries,  \* the times and the form a request can arrive with
  Manifests, ThresholdFiles, Artifacts, InferenceFaults, MaxDeploys,
  ResultAccepted,  \* what the result schema can say of a completed Result
  MaxTime      \* bound of the clock

VARIABLES
  delivery,    \* the times and the form of each call's request
  now,         \* datetime.now()
  manifest, thresholds, artifact, deploys, threads  \* of ModelPipeline

Pipeline == INSTANCE ModelPipeline WITH
  Executions <- Calls, Probes <- {}, Inputs <- Identities,
  InferenceFaults <- InferenceFaults \cup {"AGENT_TIMEOUT"}

pipeline == <<manifest, thresholds, artifact, deploys, threads>>
serviceVars == <<vars, delivery, now, pipeline>>

Raises == "raises"

DeliveryForms ==
  {"valid", "schema_invalid", "time_unparsable", "payload_not_object",
   "digest_uncomputable", "digest_mismatch"}

Delivery ==
  [form : DeliveryForms, snapshotCreatedAt : Nat, requestedAt : Nat, deadlineAt : Nat]

ASSUME ServiceAssumption ==
  /\ MaxDeploys \in Nat /\ MaxTime \in Nat
  /\ Deliveries \subseteq Delivery /\ None \notin Delivery
  /\ None \notin Pipeline!PipelineFaults \cup InferenceFaults \cup {Raises}
       \cup {"AGENT_TIMEOUT", "SNAPSHOT_DIGEST_MISMATCH", "FEATURE_REQUIRED_MISSING",
             "FEATURE_TYPE_INVALID", "AGENT_RUNTIME_TEMPORARY_FAILURE", "SHAP_CALCULATION_FAILED"}
  /\ \A m \in Manifests : m.form \in Pipeline!ManifestForms
  /\ \A f \in ThresholdFiles :
       f.form \in {"missing", "unreadable", "not_json", "not_object", "object"}
  /\ \A a \in Artifacts : a.content \in DOMAIN Pipeline!LoadFault
  /\ \A i \in Identities : i.values \in Seq(DOMAIN Pipeline!ValueFault)

\* An execution is in the pipeline exactly while its thread executes.
ServiceTypeOK ==
  /\ TypeOK
  /\ Pipeline!TypeOK
  /\ delivery \in [Calls -> Delivery \cup {None}]
  /\ now \in 0..MaxTime
  /\ \A c \in Calls : pc[c] = "idle" <=> delivery[c] = None
  /\ \A c \in Calls : pc[c] = "execute" <=> threads[c].stage # "idle"

ServiceInit ==
  /\ Init
  /\ Pipeline!Init
  /\ delivery = [c \in Calls |-> None]
  /\ now = 0

-----------------------------------------------------------------------------
\* _validate_time_bounds()
TimeFault(d) == Pipeline!FirstFault(
  << <<d.deadlineAt <= d.requestedAt, "AGENT_TIMEOUT">>,
     <<d.snapshotCreatedAt > d.requestedAt, "SNAPSHOT_DIGEST_MISMATCH">>,
     <<d.deadlineAt <= now, "AGENT_TIMEOUT">> >>)

\* Mutant: the clock is not looked at before the repository is asked.
EarlyFaultTimeless(d) == Pipeline!FirstFault(
  << <<d.form \in {"schema_invalid", "time_unparsable"}, Raises>>,
     <<d.deadlineAt <= d.requestedAt, "AGENT_TIMEOUT">>,
     <<d.snapshotCreatedAt > d.requestedAt, "SNAPSHOT_DIGEST_MISMATCH">>,
     <<d.form = "payload_not_object", "FEATURE_REQUIRED_MISSING">>,
     <<d.form = "digest_uncomputable", "FEATURE_TYPE_INVALID">>,
     <<d.form = "digest_mismatch", "SNAPSHOT_DIGEST_MISMATCH">> >>)

\* The request schema, the times, input_identity().
EarlyFault(d) == Pipeline!FirstFault(
  << <<d.form \in {"schema_invalid", "time_unparsable"}, Raises>>,
     <<TimeFault(d) # None, TimeFault(d)>>,
     <<d.form = "payload_not_object", "FEATURE_REQUIRED_MISSING">>,
     <<d.form = "digest_uncomputable", "FEATURE_TYPE_INVALID">>,
     <<d.form = "digest_mismatch", "SNAPSHOT_DIGEST_MISMATCH">> >>)

-----------------------------------------------------------------------------
ServiceReceive(c) ==
  /\ Receive(c)
  /\ \E d \in Deliveries : delivery' = [delivery EXCEPT ![c] = d]
  /\ UNCHANGED <<now, pipeline>>

\* What comes before begin().
Admit(c) ==
  /\ pc[c] = "received"
  /\ LET fault == EarlyFault(delivery[c])
     IN \/ fault = None /\ Identify(c)
        \/ fault = Raises /\ RaiseEarly(c)
        \/ fault \in EarlyReasons /\ RejectEarly(c, fault)
  /\ UNCHANGED <<delivery, now, pipeline>>

\* begin() gives the call the execution: it enters the pipeline.
BeginExecution(c) ==
  /\ BeginFirst(c) \/ BeginRetry(c)
  /\ Pipeline!Start(c, request[c].identity)
  /\ UNCHANGED <<delivery, now>>

BeginElse(c) ==
  /\ BeginConflict(c) \/ BeginWait(c) \/ BeginCached(c) \/ WaitPass(c) \/ WaitSleep(c)
  /\ UNCHANGED <<delivery, now, pipeline>>

ReadFile(c) ==
  /\ pc[c] = "execute"
  /\ Pipeline!Read(c)
  /\ UNCHANGED <<vars, delivery, now>>

\* Mutant: the clock is not looked at a second time.
ConcludeTimeless(c) ==
  /\ pc[c] = "execute"
  /\ \E fault \in InferenceFaults \cup {None} : Pipeline!Infer(c, fault)
  /\ UNCHANGED <<vars, delivery, now>>

\* predict() and explain(), the second look at the clock, the reason codes:
\* a fault of one hides those of the later ones.  Whatever else is raised is
\* raised by inference, or after a look at the clock that found nothing.
Conclude(c) ==
  /\ pc[c] = "execute"
  /\ \E fault \in InferenceFaults \cup {None} :
       LET late == TimeFault(delivery[c])
           inferred == fault \in {"AGENT_RUNTIME_TEMPORARY_FAILURE", "SHAP_CALCULATION_FAILED", Raises}
       IN Pipeline!Infer(c, IF inferred \/ late = None THEN fault ELSE late)
  /\ UNCHANGED <<vars, delivery, now>>

\* Mutant: only an AgentFailure ends the execution; any other exception leaves
\* run() past abort().
EndExecutionUnreleased(c) ==
  LET fault == threads[c].fault
  IN /\ Pipeline!Report(c)
     /\ \/ /\ fault = None
           /\ ExecuteCompleted(c)
           /\ result'[c].contractValid \in ResultAccepted
        \/ /\ fault = Raises /\ pc[c] = "execute"
           /\ pc' = [pc EXCEPT ![c] = "raised"]
           /\ UNCHANGED <<repository, request, attempt_id, result>>
        \/ fault \in PipelineReasons /\ ExecuteFailed(c, fault)
     /\ UNCHANGED <<delivery, now>>

\* The pipeline's fault or success becomes the end of the execution.
EndExecution(c) ==
  LET fault == threads[c].fault
  IN /\ Pipeline!Report(c)
     /\ \/ /\ fault = None
           /\ ExecuteCompleted(c)
           /\ result'[c].contractValid \in ResultAccepted
        \/ fault = Raises /\ ExecuteRaises(c)
        \/ fault \in PipelineReasons /\ ExecuteFailed(c, fault)
     /\ UNCHANGED <<delivery, now>>

Finish(c) ==
  /\ Complete(c) \/ Abort(c)
  /\ UNCHANGED <<delivery, now, pipeline>>

ServiceStep(c) ==
  \/ Admit(c) \/ BeginExecution(c) \/ BeginElse(c)
  \/ ReadFile(c) \/ Conclude(c) \/ EndExecution(c) \/ Finish(c)

Tick ==
  /\ now < MaxTime
  /\ now' = now + 1
  /\ UNCHANGED <<vars, delivery, pipeline>>

Redeploy ==
  /\ Pipeline!Deploy
  /\ UNCHANGED <<vars, delivery, now>>

ServiceTerminating == Terminating /\ UNCHANGED <<delivery, now, pipeline>>

ServiceNext ==
  \/ \E c \in Calls : ServiceReceive(c) \/ ServiceStep(c)
  \/ Tick
  \/ Redeploy
  \/ ServiceTerminating

ServiceSpec == ServiceInit /\ [][ServiceNext]_serviceVars

\* Threads are scheduled.  Neither the clock nor deployments are fair.
FairServiceSpec == ServiceSpec /\ \A c \in Calls : WF_serviceVars(ServiceStep(c))

-----------------------------------------------------------------------------
\* A run is in progress exactly while one thread executes it, under the attempt
\* number and the identity of its entry: two never execute it, and none is left
\* in progress without one, whichever check, exception of the model or passed
\* deadline ends the execution (OverflowError of float() included).
InProgressMeansExecuting ==
  \A r \in Runs :
    LET executing == {c \in Calls : pc[c] \in Executing /\ request[c].agentRunId = r}
    IN IF entries[r] # None /\ entries[r].status = "IN_PROGRESS"
       THEN \E c \in Calls :
              /\ executing = {c}
              /\ attempt_id[c] = entries[r].attempt_id
              /\ request[c].identity = entries[r].identity
       ELSE executing = {}

Completed(c) == pc[c] = "returned" /\ result[c].resultStatus = "COMPLETED"

\* A delivery whose deadline has passed when run() gets it is never answered
\* with a COMPLETED Result, also when the run has one to repeat: the times are
\* checked before the repository is asked (docs/phase-2-runtime-scope.md).
LateIsRefused ==
  \A c \in Calls :
    [](pc[c] = "received" /\ delivery[c].deadlineAt <= now => []~ Completed(c))

\* Nor does an execution whose deadline passes before it has concluded, wherever
\* in the pipeline it is by then (README.md: deadlines are checked again).
LateExecutionFails ==
  \A c \in Calls :
    []((/\ pc[c] = "execute" /\ threads[c].stage # "ended"
        /\ delivery[c].deadlineAt <= now) => []~ Completed(c))

\* A delivery that waits for another's execution is not answered with a
\* COMPLETED Result once its own deadline has passed (README.md: deadlines are
\* checked again before COMPLETED is returned).
WaiterAnsweredInTime ==
  \A c \in Calls :
    [](pc[c] = "asleep" /\ delivery[c].deadlineAt <= now => []~ Completed(c))

\* A good deployment serves identity i.
Serves(i) ==
  /\ Pipeline!ManifestFault(manifest) = None
  /\ Pipeline!ThresholdFault(thresholds, manifest.thresholdVersion) = None
  /\ Pipeline!InputFault(i, manifest) = None
  /\ Pipeline!ArtifactFault(manifest, artifact) = None
  /\ Pipeline!LoadFault[artifact.content] = None
  /\ Pipeline!FeatureFault(i) = None

\* A run recovers when its deployment is repaired: a delivery that arrives in
\* time under a deployment that serves it, and stays, is answered with a
\* COMPLETED Result, whatever failed before and whatever it waits for.
RecoversAfterRepair ==
  \A c \in Calls :
    (/\ pc[c] = "received" /\ EarlyFault(delivery[c]) = None
     /\ delivery[c].deadlineAt > MaxTime
     /\ deploys = MaxDeploys /\ Serves(request[c].identity)) ~> Completed(c)

=============================================================================
