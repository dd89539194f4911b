--------------------- MODULE LoanDecisionServiceProofs ---------------------
(***************************************************************************)
(* The service implements AgentRunState: every step of its threads, of the *)
(* clock and of a deployment is a step of the repository and its threads   *)
(* or leaves them alone.  What is proved of AgentRunState thereby holds of *)
(* the service, whatever the files hold and whenever they are replaced.    *)
(***************************************************************************)
EXTENDS LoanDecisionService, AgentRunStateRefinement

\* What one thread of the service does is what a thread of AgentRunState may
\* do, or happens inside the pipeline.
LEMMA ServiceStepIsStep ==
  ASSUME NEW c \in Calls, ServiceStep(c)
  PROVE  Step(c) \/ UNCHANGED vars
<1>1. CASE Admit(c)
  <2>1. CASE Identify(c)
    BY <2>1 DEF Step
  <2>2. CASE RaiseEarly(c)
    BY <2>2 DEF Step
  <2>3. ASSUME NEW fault \in EarlyReasons, RejectEarly(c, fault)
        PROVE  Step(c)
    BY <2>3 DEF Step
  <2> QED BY <1>1, <2>1, <2>2, <2>3 DEF Admit
<1>2. CASE BeginExecution(c)
  BY <1>2 DEF BeginExecution, Begin, Step
<1>3. CASE BeginElse(c)
  BY <1>3 DEF BeginElse, Begin, Step
<1>4. CASE ReadFile(c)
  BY <1>4 DEF ReadFile
<1>5. CASE Conclude(c)
  BY <1>5 DEF Conclude
<1>6. CASE EndExecution(c)
  <2>1. CASE ExecuteCompleted(c)
    BY <2>1 DEF Step
  <2>2. CASE ExecuteRaises(c)
    BY <2>2 DEF Step
  <2>3. ASSUME NEW fault \in PipelineReasons, ExecuteFailed(c, fault)
        PROVE  Step(c)
    BY <2>3 DEF Step
  <2> QED BY <1>6, <2>1, <2>2, <2>3 DEF EndExecution
<1>7. CASE Finish(c)
  BY <1>7 DEF Finish, Step
<1> QED BY <1>1, <1>2, <1>3, <1>4, <1>5, <1>6, <1>7 DEF ServiceStep

LEMMA ServiceNextIsNext == [ServiceNext]_serviceVars => [Next]_vars
<1> SUFFICES ASSUME [ServiceNext]_serviceVars
             PROVE  [Next]_vars
  OBVIOUS
<1>1. ASSUME NEW c \in Calls, ServiceReceive(c)
      PROVE  Next
  BY <1>1 DEF ServiceReceive, Next
<1>2. ASSUME NEW c \in Calls, ServiceStep(c)
      PROVE  Next \/ UNCHANGED vars
  BY <1>2, ServiceStepIsStep DEF Next
<1>3. CASE Tick
  BY <1>3 DEF Tick
<1>4. CASE Redeploy
  BY <1>4 DEF Redeploy
<1>5. CASE ServiceTerminating
  BY <1>5 DEF ServiceTerminating, Next
<1>6. CASE UNCHANGED serviceVars
  BY <1>6 DEF serviceVars
<1> QED BY <1>1, <1>2, <1>3, <1>4, <1>5, <1>6 DEF ServiceNext

\* By construction, every behaviour of the service is one of its repository.
LEMMA ServiceIsRunState == ServiceSpec => Spec
<1>1. ServiceInit => Init
  BY DEF ServiceInit
<1> QED BY <1>1, ServiceNextIsNext, PTL DEF ServiceSpec, Spec

\* The service executes a run in one thread at a time.
THEOREM ServiceSingleFlight == ServiceSpec => []SingleFlight
BY ServiceIsRunState, SingleFlightHolds

\* No two deliveries the service answers with COMPLETED get different Results.
THEOREM ServiceOneCompletedResult == ServiceSpec => []OneCompletedResult
BY ServiceIsRunState, OneCompletedResultHolds

\* The whole of run(), with its files, deployments and clock, gives its callers what
\* IdempotentRun promises.
THEOREM ServiceKeepsPromise == ServiceSpec => KeepsPromise
BY ServiceIsRunState, Refinement

\* A run is in progress exactly while one thread executes it, under the attempt
\* number and the identity of its entry, wherever the pipeline, an exception of
\* the model or the clock ends executions, if the mounted result schema accepts
\* every failed result.
THEOREM InProgressMeansExecutingHolds ==
  ASSUME PipelineReasons \subseteq ContractReasons
  PROVE  ServiceSpec => []InProgressMeansExecuting
<1>1. IInv /\ Owned => InProgressMeansExecuting
  <2> SUFFICES ASSUME IInv, Owned, NEW r \in Runs
               PROVE  LET executing == {c \in Calls : pc[c] \in Executing /\ request[c].agentRunId = r}
                      IN IF entries[r] # None /\ entries[r].status = "IN_PROGRESS"
                         THEN \E c \in Calls :
                                /\ executing = {c}
                                /\ attempt_id[c] = entries[r].attempt_id
                                /\ request[c].identity = entries[r].identity
                         ELSE executing = {}
    BY DEF InProgressMeansExecuting
  <2> DEFINE executing == {c \in Calls : pc[c] \in Executing /\ request[c].agentRunId = r}
  <2>1. ASSUME NEW c \in executing
        PROVE  /\ entries[r] # None /\ entries[r].status = "IN_PROGRESS"
               /\ attempt_id[c] = entries[r].attempt_id
               /\ request[c].identity = entries[r].identity
    BY DEF IInv, Coherent, OwnersOK, Owns, Matches, Entry
  <2>2. ASSUME NEW c \in executing, NEW d \in executing PROVE c = d
    BY DEF IInv, Coherent, SingleFlight, SameRun
  <2>3. CASE entries[r] # None /\ entries[r].status = "IN_PROGRESS"
    <3>1. PICK c \in Calls : c \in executing
      BY <2>3 DEF Owned
    <3>2. executing = {c}
      BY <2>2, <3>1
    <3> QED BY <2>1, <2>3, <3>1, <3>2
  <2>4. CASE ~ (entries[r] # None /\ entries[r].status = "IN_PROGRESS")
    BY <2>1, <2>4
  <2> QED BY <2>3, <2>4
<1>2. Spec => [](IInv /\ Owned)
  BY OwnedHolds, Invariance, PTL
<1> QED BY <1>1, <1>2, ServiceIsRunState, PTL

-----------------------------------------------------------------------------
(***************************************************************************)
(* What is proved of ModelPipeline's checks and of the steps of its        *)
(* threads, for the executions of the service.                             *)
(***************************************************************************)
Facts == INSTANCE ModelPipelineProofs WITH
  Executions <- Calls, Probes <- {}, Inputs <- Identities,
  InferenceFaults <- InferenceFaults \cup {"AGENT_TIMEOUT"}

\* The service meets the assumptions of ModelPipeline.
LEMMA PipelineMet ==
  /\ Calls \cap {} = {}
  /\ MaxDeploys \in Nat
  /\ None \notin Facts!PipelineFaults \cup (InferenceFaults \cup {"AGENT_TIMEOUT"})
                   \cup {Facts!Raises}
  /\ \A m \in Manifests : m.form \in Facts!ManifestForms
  /\ \A f \in ThresholdFiles :
       f.form \in {"missing", "unreadable", "not_json", "not_object", "object"}
  /\ \A a \in Artifacts : a.content \in DOMAIN Facts!LoadFault
  /\ \A i \in Identities : i.values \in Seq(DOMAIN Facts!ValueFault)
BY ServiceAssumption
   DEF Raises, Facts!Raises, Pipeline!PipelineFaults, Facts!PipelineFaults,
       Pipeline!ManifestForms, Facts!ManifestForms, Pipeline!ValueFault, Facts!ValueFault,
       Pipeline!LoadFault, Facts!LoadFault

LEMMA SameChecks ==
  /\ \A checks : Pipeline!FirstFault(checks) = Facts!FirstFault(checks)
  /\ \A m : Pipeline!ManifestFault(m) = Facts!ManifestFault(m)
  /\ \A f, version : Pipeline!ThresholdFault(f, version) = Facts!ThresholdFault(f, version)
  /\ \A i, m : Pipeline!InputFault(i, m) = Facts!InputFault(i, m)
  /\ \A m, a : Pipeline!ArtifactFault(m, a) = Facts!ArtifactFault(m, a)
  /\ \A i : Pipeline!FeatureFault(i) = Facts!FeatureFault(i)
  /\ Pipeline!LoadFault = Facts!LoadFault
<1>1. \A checks : Pipeline!FirstFault(checks) = Facts!FirstFault(checks)
  BY DEF Pipeline!FirstFault, Facts!FirstFault
<1>2. /\ Pipeline!Raises = Facts!Raises /\ Pipeline!ValueFault = Facts!ValueFault
      /\ Pipeline!LoadFault = Facts!LoadFault
  BY DEF Pipeline!Raises, Facts!Raises, Pipeline!ValueFault, Facts!ValueFault,
     Pipeline!LoadFault, Facts!LoadFault
<1> QED BY <1>1, <1>2
     DEF Pipeline!ManifestFault, Facts!ManifestFault, Pipeline!ThresholdFault,
         Facts!ThresholdFault, Pipeline!InputFault, Facts!InputFault, Pipeline!ArtifactFault,
         Facts!ArtifactFault, Pipeline!FeatureFault, Facts!FeatureFault,
         Pipeline!FEATURE_SCHEMA_VERSION, Facts!FEATURE_SCHEMA_VERSION,
         Pipeline!PREPROCESSING_VERSION, Facts!PREPROCESSING_VERSION

LEMMA SameSteps ==
  /\ Pipeline!Init <=> Facts!Init
  /\ \A c, i : Pipeline!Start(c, i) <=> Facts!Start(c, i)
  /\ \A c : Pipeline!Read(c) <=> Facts!Read(c)
  /\ \A c, fault : Pipeline!Infer(c, fault) <=> Facts!Infer(c, fault)
  /\ Pipeline!Deploy <=> Facts!Deploy
<1>1. UNCHANGED Pipeline!files <=> UNCHANGED Facts!files
  BY DEF Pipeline!files, Facts!files
<1>2. \A c, fault, next : Pipeline!Advance(c, fault, next) <=> Facts!Advance(c, fault, next)
  BY DEF Pipeline!Advance, Facts!Advance
<1>3. Pipeline!Init <=> Facts!Init
  BY DEF Pipeline!Init, Facts!Init, Pipeline!Threads, Facts!Threads, Pipeline!Idle, Facts!Idle
<1>4. \A c, i : Pipeline!Start(c, i) <=> Facts!Start(c, i)
  BY <1>1 DEF Pipeline!Start, Facts!Start
<1>5. ASSUME NEW c PROVE Pipeline!Read(c) <=> Facts!Read(c)
  <2>1. Pipeline!LoadManifest(c) <=> Facts!LoadManifest(c)
    BY <1>1, <1>2, SameChecks DEF Pipeline!LoadManifest, Facts!LoadManifest
  <2>2. Pipeline!Threshold(c) <=> Facts!Threshold(c)
    BY <1>1, <1>2, SameChecks DEF Pipeline!Threshold, Facts!Threshold
  <2>3. Pipeline!Verify(c) <=> Facts!Verify(c)
    BY <1>1, <1>2, SameChecks, Zenon DEF Pipeline!Verify, Facts!Verify, Pipeline!RequestFromManifest,
       Facts!RequestFromManifest
  <2>4. Pipeline!LoadModel(c) <=> Facts!LoadModel(c)
    BY <1>1, <1>2, SameChecks DEF Pipeline!LoadModel, Facts!LoadModel
  <2> QED BY <2>1, <2>2, <2>3, <2>4 DEF Pipeline!Read, Facts!Read
<1>6. \A c, fault : Pipeline!Infer(c, fault) <=> Facts!Infer(c, fault)
  BY <1>1, <1>2 DEF Pipeline!Infer, Facts!Infer
<1>7. Pipeline!Deploy <=> Facts!Deploy
  BY DEF Pipeline!Deploy, Facts!Deploy
<1> QED BY <1>3, <1>4, <1>5, <1>6, <1>7

-----------------------------------------------------------------------------
(***************************************************************************)
(* The looks at the clock.                                                 *)
(***************************************************************************)
InTime(d) == d.requestedAt < d.deadlineAt /\ d.snapshotCreatedAt <= d.requestedAt

\* Whatever else is wrong with the times, a passed deadline is a fault.
LEMMA TimeFaultIs ==
  ASSUME NEW d \in Delivery, now \in Nat
  PROVE  /\ TimeFault(d) \in {"AGENT_TIMEOUT", "SNAPSHOT_DIGEST_MISMATCH", None}
         /\ d.deadlineAt <= now => TimeFault(d) # None
         /\ TimeFault(d) = None => InTime(d)
         /\ InTime(d) => TimeFault(d) \in {"AGENT_TIMEOUT", None}
<1> DEFINE checks ==
      << <<d.deadlineAt <= d.requestedAt, "AGENT_TIMEOUT">>,
         <<d.snapshotCreatedAt > d.requestedAt, "SNAPSHOT_DIGEST_MISMATCH">>,
         <<d.deadlineAt <= now, "AGENT_TIMEOUT">> >>
<1>1. DOMAIN checks = 1..3 /\ TimeFault(d) = Facts!FirstFault(checks)
  BY SameChecks DEF TimeFault
<1>2. /\ checks[1][1] <=> d.deadlineAt <= d.requestedAt
      /\ checks[2][1] <=> d.snapshotCreatedAt > d.requestedAt
      /\ checks[3][1] <=> d.deadlineAt <= now
      /\ checks[1][2] = "AGENT_TIMEOUT" /\ checks[3][2] = "AGENT_TIMEOUT"
      /\ checks[2][2] = "SNAPSHOT_DIGEST_MISMATCH"
  OBVIOUS
<1> HIDE DEF checks
<1>3. \/ TimeFault(d) = None /\ \A k \in 1..3 : ~ checks[k][1]
      \/ \E k \in 1..3 : checks[k][1] /\ TimeFault(d) = checks[k][2]
  BY <1>1, Facts!FirstFaultIs, PipelineMet
<1>4. "AGENT_TIMEOUT" # None /\ "SNAPSHOT_DIGEST_MISMATCH" # None
  BY ServiceAssumption
<1>5. /\ d.deadlineAt \in Nat /\ d.requestedAt \in Nat /\ d.snapshotCreatedAt \in Nat
  BY DEF Delivery
<1>6. CASE TimeFault(d) = None /\ \A k \in 1..3 : ~ checks[k][1]
  <2>1. ~ checks[1][1] /\ ~ checks[2][1] /\ ~ checks[3][1]
    BY <1>6
  <2> QED BY <1>2, <1>5, <1>6, <2>1 DEF InTime
<1>7. ASSUME NEW k \in 1..3, checks[k][1], TimeFault(d) = checks[k][2]
      PROVE  /\ TimeFault(d) \in {"AGENT_TIMEOUT", "SNAPSHOT_DIGEST_MISMATCH"}
             /\ InTime(d) => TimeFault(d) = "AGENT_TIMEOUT"
  <2>1. k = 1 \/ k = 2 \/ k = 3
    OBVIOUS
  <2> QED BY <1>2, <1>5, <1>7, <2>1 DEF InTime
<1> QED BY <1>3, <1>4, <1>6, <1>7

\* What passes the checks before begin() has passed those of the times.
LEMMA EarlyFaultIs ==
  ASSUME NEW d \in Delivery, EarlyFault(d) = None
  PROVE  TimeFault(d) = None
<1> DEFINE checks ==
      << <<d.form \in {"schema_invalid", "time_unparsable"}, Raises>>,
         <<TimeFault(d) # None, TimeFault(d)>>,
         <<d.form = "payload_not_object", "FEATURE_REQUIRED_MISSING">>,
         <<d.form = "digest_uncomputable", "FEATURE_TYPE_INVALID">>,
         <<d.form = "digest_mismatch", "SNAPSHOT_DIGEST_MISMATCH">> >>
<1>1. DOMAIN checks = 1..5 /\ EarlyFault(d) = Facts!FirstFault(checks)
  BY SameChecks DEF EarlyFault
<1>2. /\ checks[1][2] = Raises /\ checks[3][2] = "FEATURE_REQUIRED_MISSING"
      /\ checks[4][2] = "FEATURE_TYPE_INVALID" /\ checks[5][2] = "SNAPSHOT_DIGEST_MISMATCH"
      /\ checks[2][1] <=> TimeFault(d) # None
      /\ checks[2][2] = TimeFault(d)
  OBVIOUS
<1> HIDE DEF checks
<1>3. \/ EarlyFault(d) = None /\ \A k \in 1..5 : ~ checks[k][1]
      \/ \E k \in 1..5 : checks[k][1] /\ EarlyFault(d) = checks[k][2]
  BY <1>1, Facts!FirstFaultIs, PipelineMet
<1>4. ASSUME NEW k \in 1..5, checks[k][1], EarlyFault(d) = checks[k][2]
      PROVE  FALSE
  <2>1. k = 1 \/ k = 2 \/ k = 3 \/ k = 4 \/ k = 5
    OBVIOUS
  <2> QED BY <1>2, <1>4, <2>1, ServiceAssumption
<1>5. ~ checks[2][1]
  BY <1>3, <1>4
<1> QED BY <1>2, <1>5

-----------------------------------------------------------------------------
(***************************************************************************)
(* The invariant of the composition, besides the one of its repository: a  *)
(* call that passed the checks of its times keeps to them, and its         *)
(* execution is in the pipeline exactly while its thread executes.         *)
(***************************************************************************)
CallOK(c) ==
  /\ pc[c] = "idle" <=> delivery[c] = None
  /\ pc[c] = "execute" <=> threads[c].stage # "idle"
  /\ pc[c] \in {"begin", "wait", "asleep", "execute"} => InTime(delivery[c])

DeliveriesOK ==
  /\ delivery \in [Calls -> Delivery \cup {None}]
  /\ now \in 0..MaxTime
  /\ \A c \in Calls : CallOK(c)

ServiceInv == DeliveriesOK /\ Facts!IInv

\* A thread's step ends no other thread's execution and none begins another's:
\* it wakes sleepers, who go back to begin().
LEMMA OthersStay ==
  ASSUME TypeOK, NEW c \in Calls, Step(c), NEW d \in Calls, d # c
  PROVE  /\ pc'[d] = pc[d] \/ (pc[d] = "asleep" /\ pc'[d] = "begin")
         /\ result'[d] = result[d]
<1>1. ASSUME NEW status, NEW res, NEW next, Settle(c, status, res, next)
      PROVE  pc'[d] = pc[d] \/ (pc[d] = "asleep" /\ pc'[d] = "begin")
  BY <1>1 DEF Settle
<1>2. CASE Complete(c) \/ Abort(c)
  BY <1>1, <1>2 DEF Complete, Abort
<1>3. CASE Begin(c) \/ WaitPass(c) \/ WaitSleep(c) \/ Identify(c) \/ RaiseEarly(c)
  BY <1>3 DEF TypeOK, Begin, BeginFirst, BeginConflict, BeginWait, BeginCached, BeginRetry,
     WaitPass, WaitSleep, Identify, RaiseEarly
<1>4. CASE ExecuteCompleted(c) \/ ExecuteRaises(c)
  BY <1>4 DEF TypeOK, ExecuteCompleted, ExecuteRaises
<1>5. ASSUME NEW reason, RejectEarly(c, reason) \/ ExecuteFailed(c, reason)
      PROVE  pc'[d] = pc[d] /\ result'[d] = result[d]
  BY <1>5 DEF TypeOK, RejectEarly, ExecuteFailed
<1> QED BY <1>2, <1>3, <1>4, <1>5 DEF Step

\* A step of a call's thread keeps the composition if it keeps it for the call.
LEMMA CallStep ==
  ASSUME TypeOK, DeliveriesOK, NEW c \in Calls, Step(c) \/ UNCHANGED vars,
         UNCHANGED <<delivery, now>>,
         \A d \in Calls \ {c} : threads'[d] = threads[d],
         pc[c] # "idle" /\ pc'[c] # "idle",
         pc'[c] = "execute" <=> threads'[c].stage # "idle",
         pc'[c] \in {"begin", "wait", "asleep", "execute"} => InTime(delivery[c])
  PROVE  DeliveriesOK'
<1>1. CallOK(c)'
  BY DEF DeliveriesOK, CallOK, InTime
<1>2. ASSUME NEW d \in Calls, d # c PROVE CallOK(d)'
  <2>1. pc'[d] = pc[d] \/ (pc[d] = "asleep" /\ pc'[d] = "begin")
    BY <1>2, OthersStay DEF vars
  <2>2. CallOK(d) /\ threads'[d] = threads[d] /\ delivery'[d] = delivery[d]
    BY <1>2 DEF DeliveriesOK
  <2> QED BY <2>1, <2>2 DEF CallOK, InTime
<1> QED BY <1>1, <1>2 DEF DeliveriesOK

\* What leaves the pipeline alone leaves its invariant alone.
LEMMA PipelineRests ==
  ASSUME Facts!IInv, UNCHANGED pipeline
  PROVE  Facts!IInv'
<1>1. UNCHANGED Facts!vars
  BY DEF pipeline, Facts!vars
<1> QED BY <1>1, Facts!NextStep, PipelineMet

\* The pipeline leaves a thread that is in it, and its fault if it has one,
\* with a reason code or an exception.
LEMMA InPipeline ==
  ASSUME Facts!IInv
  PROVE  /\ threads \in [Calls -> Facts!Thread]
         /\ \A c \in Calls : threads[c].fault # None => threads[c].stage = "ended"
BY DEF Facts!IInv, Facts!Threads, Facts!ThreadOK

\* A reader ends with a fault, and is not over otherwise.
LEMMA ReadEnds ==
  ASSUME Facts!IInv, NEW c \in Calls, Pipeline!Read(c)
  PROVE  /\ threads[c].stage \notin {"idle", "ended"} /\ threads'[c].stage # "idle"
         /\ threads'[c].stage = "ended" => threads'[c].fault # None
         /\ \A d \in Calls \ {c} : threads'[d] = threads[d]
<1>1. threads \in [Calls -> Facts!Thread]
  BY InPipeline
<1>2. ASSUME NEW fault, NEW next, Pipeline!Advance(c, fault, next),
             next.stage \notin {"idle", "ended"}
      PROVE  /\ threads'[c].stage # "idle"
             /\ threads'[c].stage = "ended" => threads'[c].fault # None
             /\ \A d \in Calls \ {c} : threads'[d] = threads[d]
  BY <1>1, <1>2 DEF Pipeline!Advance, Facts!Thread
<1>3. CASE Pipeline!LoadManifest(c)
  BY <1>1, <1>2, <1>3 DEF Pipeline!LoadManifest, Facts!Thread
<1>4. CASE Pipeline!Threshold(c)
  BY <1>1, <1>2, <1>4 DEF Pipeline!Threshold, Facts!Thread
<1>5. CASE Pipeline!Verify(c)
  <2>1. PICK fault : Pipeline!Advance(c, fault, [threads[c] EXCEPT !.stage = "load_model"])
    BY <1>5, Zenon DEF Pipeline!Verify
  <2>2. [threads[c] EXCEPT !.stage = "load_model"].stage = "load_model"
    BY <1>1 DEF Facts!Thread
  <2>3. threads[c].stage = "verify"
    BY <1>5 DEF Pipeline!Verify
  <2> QED BY <1>2, <2>1, <2>2, <2>3
<1>6. CASE Pipeline!LoadModel(c)
  <2> DEFINE next == [threads[c] EXCEPT !.stage = "infer", !.loaded = artifact.digest]
             fault == Pipeline!LoadFault[artifact.content]
  <2>1. Pipeline!Advance(c, fault, next) /\ threads[c].stage = "load_model"
    BY <1>6 DEF Pipeline!LoadModel
  <2>2. next.stage = "infer"
    BY <1>1 DEF Facts!Thread
  <2> HIDE DEF next, fault
  <2> QED BY <1>2, <2>1, <2>2
<1> QED BY <1>3, <1>4, <1>5, <1>6 DEF Pipeline!Read

LEMMA AdmitStep ==
  ASSUME IInv, ServiceInv, NEW c \in Calls, Admit(c)
  PROVE  ServiceInv' /\ (delivery[c].deadlineAt <= now => ~ Identify(c))
<1>1. /\ TypeOK /\ DeliveriesOK /\ CallOK(c) /\ pc[c] = "received"
      /\ UNCHANGED <<delivery, now, pipeline>>
  BY DEF IInv, ServiceInv, DeliveriesOK, Admit
<1>2. delivery[c] \in Delivery /\ now \in Nat
  BY <1>1, ServiceAssumption DEF CallOK, DeliveriesOK
<1>3. Facts!IInv'
  BY <1>1, PipelineRests DEF ServiceInv
<1>4. Step(c)
  BY DEF Admit, Step
<1>5. ASSUME EarlyFault(delivery[c]) = None
      PROVE  InTime(delivery[c]) /\ ~ (delivery[c].deadlineAt <= now)
  BY <1>2, <1>5, EarlyFaultIs, TimeFaultIs
<1>6. CASE EarlyFault(delivery[c]) = None /\ Identify(c)
  <2>1. pc'[c] = "begin"
    BY <1>1, <1>6 DEF Identify, TypeOK
  <2> QED BY <1>1, <1>3, <1>4, <1>5, <1>6, <2>1, CallStep DEF ServiceInv, CallOK, pipeline
<1>7. CASE EarlyFault(delivery[c]) # None
           /\ (RaiseEarly(c) \/ \E fault \in EarlyReasons : RejectEarly(c, fault))
  <2>1. pc'[c] \in Terminal
    BY <1>1, <1>7 DEF RaiseEarly, RejectEarly, ReturnOrRaise, TypeOK, Terminal
  <2>2. ~ Identify(c)
    BY <1>1, <2>1 DEF Identify, TypeOK, Terminal
  <2> QED BY <1>1, <1>3, <1>4, <2>1, <2>2, CallStep DEF ServiceInv, CallOK, pipeline, Terminal
<1>8. None \notin EarlyReasons /\ None # Raises
  BY NoneIsNoRecord, ServiceAssumption DEF Reasons
<1> QED BY <1>6, <1>7, <1>8 DEF Admit

LEMMA BeginExecutionStep ==
  ASSUME IInv, ServiceInv, NEW c \in Calls, BeginExecution(c)
  PROVE  ServiceInv'
<1>1. /\ TypeOK /\ DeliveriesOK /\ CallOK(c) /\ pc[c] = "begin" /\ UNCHANGED <<delivery, now>>
      /\ Step(c) /\ Pipeline!Start(c, request[c].identity)
  BY DEF IInv, ServiceInv, DeliveriesOK, BeginExecution, BeginFirst, BeginRetry, Begin, Step
<1>2. pc'[c] = "execute"
  BY <1>1 DEF BeginExecution, BeginFirst, BeginRetry, TypeOK
<1>3. request[c].identity \in Identities
  BY <1>1 DEF TypeOK, Request
<1>4. Facts!IInv'
  <2>1. c \in Facts!Threads /\ Facts!Start(c, request[c].identity)
    BY <1>1, SameSteps DEF Facts!Threads
  <2> QED BY <1>3, <2>1, Facts!StartStep, PipelineMet DEF ServiceInv
<1>5. /\ threads'[c].stage = "load_manifest"
      /\ \A d \in Calls \ {c} : threads'[d] = threads[d]
  BY <1>1, InPipeline DEF ServiceInv, Pipeline!Start, Facts!Thread
<1> QED BY <1>1, <1>2, <1>4, <1>5, CallStep DEF ServiceInv, CallOK

LEMMA BeginElseStep ==
  ASSUME IInv, ServiceInv, NEW c \in Calls, BeginElse(c)
  PROVE  ServiceInv'
<1>1. /\ TypeOK /\ DeliveriesOK /\ CallOK(c) /\ pc[c] \in {"begin", "wait"}
      /\ UNCHANGED <<delivery, now, pipeline>> /\ Step(c)
  BY DEF IInv, ServiceInv, DeliveriesOK, BeginElse, BeginConflict, BeginWait, BeginCached,
     WaitPass, WaitSleep, Begin, Step
<1>2. pc'[c] \in {"begin", "wait", "asleep", "abort"} \cup Terminal
  BY <1>1 DEF BeginElse, BeginConflict, BeginWait, BeginCached, WaitPass, WaitSleep, ReturnOrRaise,
     TypeOK, Terminal
<1>3. Facts!IInv'
  BY <1>1, PipelineRests DEF ServiceInv
<1> QED BY <1>1, <1>2, <1>3, CallStep DEF ServiceInv, CallOK, pipeline, Terminal

LEMMA ReadFileStep ==
  ASSUME IInv, ServiceInv, NEW c \in Calls, ReadFile(c)
  PROVE  ServiceInv'
<1>1. /\ TypeOK /\ DeliveriesOK /\ CallOK(c) /\ pc[c] = "execute"
      /\ UNCHANGED <<vars, delivery, now>> /\ Pipeline!Read(c)
  BY DEF IInv, ServiceInv, DeliveriesOK, ReadFile
<1>2. pc' = pc
  BY <1>1 DEF vars
<1>3. Facts!IInv'
  <2>1. c \in Facts!Threads /\ Facts!Read(c)
    BY <1>1, SameSteps DEF Facts!Threads
  <2> QED BY <2>1, Facts!LoadManifestStep, Facts!ThresholdStep, Facts!VerifyStep,
          Facts!LoadModelStep, PipelineMet DEF ServiceInv, Facts!Read
<1> QED BY <1>1, <1>2, <1>3, ReadEnds, CallStep DEF ServiceInv, CallOK

\* An execution that infers was in time when it was admitted: if the second
\* look at the clock finds a fault it is the deadline, and a late one does.
LEMMA ConcludeStep ==
  ASSUME IInv, ServiceInv, NEW c \in Calls, Conclude(c)
  PROVE  /\ ServiceInv'
         /\ threads[c].stage = "infer" /\ threads'[c].stage = "ended"
         /\ delivery[c].deadlineAt <= now => threads'[c].fault # None
<1>1. /\ TypeOK /\ DeliveriesOK /\ CallOK(c) /\ pc[c] = "execute"
      /\ UNCHANGED <<vars, delivery, now>>
  BY DEF IInv, ServiceInv, DeliveriesOK, Conclude
<1>2. delivery[c] \in Delivery /\ now \in Nat /\ InTime(delivery[c])
  BY <1>1, ServiceAssumption DEF CallOK, DeliveriesOK
<1>3. PICK fault \in InferenceFaults \cup {"AGENT_TIMEOUT", None} :
        /\ Pipeline!Infer(c, fault)
        /\ delivery[c].deadlineAt <= now => fault # None
  <2>1. PICK inferred \in InferenceFaults \cup {None} :
          Pipeline!Infer(c, IF inferred \in {"AGENT_RUNTIME_TEMPORARY_FAILURE",
                                             "SHAP_CALCULATION_FAILED", Raises}
                               \/ TimeFault(delivery[c]) = None
                            THEN inferred ELSE TimeFault(delivery[c]))
    BY Zenon DEF Conclude
  <2>2. CASE inferred = None
    <3>1. Pipeline!Infer(c, TimeFault(delivery[c]))
      BY <2>1, <2>2, ServiceAssumption
    <3> QED BY <1>2, <3>1, TimeFaultIs
  <2>3. CASE inferred # None
    BY <1>2, <2>1, <2>3, TimeFaultIs
  <2> QED BY <2>2, <2>3
<1>4. /\ threads[c].stage = "infer" /\ threads'[c].stage = "ended"
      /\ delivery[c].deadlineAt <= now => threads'[c].fault # None
      /\ \A d \in Calls \ {c} : threads'[d] = threads[d]
  BY <1>3, InPipeline DEF ServiceInv, Pipeline!Infer, Pipeline!Advance, Facts!Thread
<1>5. Facts!IInv'
  <2>1. Facts!Infer(c, fault)
    BY <1>3, SameSteps
  <2>2. fault \in (InferenceFaults \cup {"AGENT_TIMEOUT"}) \cup {None}
    OBVIOUS
  <2> QED BY <2>1, <2>2, Facts!InferStep, PipelineMet DEF ServiceInv
<1>6. pc' = pc
  BY <1>1 DEF vars
<1> QED BY <1>1, <1>4, <1>5, <1>6, CallStep DEF ServiceInv, CallOK

\* An execution that reports its fault leaves the pipeline.
LEMMA EndExecutionStep ==
  ASSUME IInv, ServiceInv, NEW c \in Calls, EndExecution(c)
  PROVE  ServiceInv'
<1>1. /\ TypeOK /\ DeliveriesOK /\ CallOK(c) /\ pc[c] = "execute"
      /\ UNCHANGED <<delivery, now>> /\ Step(c) /\ Pipeline!Report(c)
  BY DEF IInv, ServiceInv, DeliveriesOK, EndExecution, ExecuteCompleted, ExecuteRaises,
     ExecuteFailed, Step
<1>2. pc'[c] \in {"complete", "abort", "raised"}
  BY <1>1 DEF EndExecution, ExecuteCompleted, ExecuteRaises, ExecuteFailed, CompleteOrAbort, TypeOK
<1>3. threads' = [threads EXCEPT ![c] = Facts!Idle] /\ UNCHANGED Facts!files
  BY <1>1 DEF Pipeline!Report, Pipeline!Idle, Facts!Idle, Pipeline!files, Facts!files
<1>4. Facts!ThreadOK(c, Facts!Idle)
  <2>1. deploys \in Nat
    BY ServiceAssumption DEF ServiceInv, Facts!IInv, Facts!FilesOK
  <2> QED BY <2>1 DEF Facts!ThreadOK, Facts!Idle, Facts!Thread, Facts!Stages, Facts!Undisturbed,
          Facts!HasManifest, Facts!HasThreshold, Facts!HasVerified, Facts!HasModel, Facts!Succeeded
<1>5. Facts!IInv'
  <2>1. c \in Facts!Threads
    BY DEF Facts!Threads
  <2> QED BY <1>3, <1>4, <2>1, Facts!ThreadStep, PipelineMet DEF ServiceInv
<1>6. threads'[c].stage = "idle" /\ \A d \in Calls \ {c} : threads'[d] = threads[d]
  BY <1>3, InPipeline DEF ServiceInv, Facts!Idle
<1> QED BY <1>1, <1>2, <1>5, <1>6, CallStep DEF ServiceInv, CallOK

LEMMA FinishStep ==
  ASSUME IInv, ServiceInv, NEW c \in Calls, Finish(c)
  PROVE  ServiceInv'
<1>1. /\ TypeOK /\ DeliveriesOK /\ CallOK(c) /\ pc[c] \in {"complete", "abort"}
      /\ UNCHANGED <<delivery, now, pipeline>> /\ Step(c)
  BY DEF IInv, ServiceInv, DeliveriesOK, Finish, Complete, Abort, Step
<1>2. pc'[c] \in Terminal
  BY DEF Finish, Complete, Abort, Settle, ReturnOrRaise, Terminal
<1>3. Facts!IInv'
  BY <1>1, PipelineRests DEF ServiceInv
<1> QED BY <1>1, <1>2, <1>3, CallStep DEF ServiceInv, CallOK, pipeline, Terminal

LEMMA ServiceInvStep ==
  ASSUME IInv, ServiceInv, [ServiceNext]_serviceVars
  PROVE  ServiceInv'
<1>1. ASSUME NEW c \in Calls, ServiceReceive(c) PROVE ServiceInv'
  <2>1. /\ TypeOK /\ DeliveriesOK /\ CallOK(c) /\ pc[c] = "idle"
        /\ UNCHANGED <<now, pipeline>> /\ pc' = [pc EXCEPT ![c] = "received"]
    BY <1>1 DEF IInv, ServiceInv, DeliveriesOK, ServiceReceive, Receive
  <2>2. PICK d \in Delivery : delivery' = [delivery EXCEPT ![c] = d]
    BY <1>1, ServiceAssumption DEF ServiceReceive
  <2>3. CallOK(c)'
    BY <2>1, <2>2, ServiceAssumption DEF CallOK, DeliveriesOK, pipeline, TypeOK
  <2>4. ASSUME NEW e \in Calls, e # c PROVE CallOK(e)'
    BY <2>1, <2>2, <2>4 DEF CallOK, DeliveriesOK, pipeline, TypeOK, InTime
  <2>5. DeliveriesOK'
    BY <2>1, <2>2, <2>3, <2>4 DEF DeliveriesOK
  <2> QED BY <2>1, <2>5, PipelineRests DEF ServiceInv
<1>2. ASSUME NEW c \in Calls, ServiceStep(c) PROVE ServiceInv'
  BY <1>2, AdmitStep, BeginExecutionStep, BeginElseStep, ReadFileStep, ConcludeStep,
     EndExecutionStep, FinishStep DEF ServiceStep
<1>3. CASE Tick
  <2>1. DeliveriesOK'
    BY <1>3, ServiceAssumption DEF Tick, ServiceInv, DeliveriesOK, CallOK, InTime, vars, pipeline
  <2> QED BY <1>3, <2>1, PipelineRests DEF Tick, ServiceInv
<1>4. CASE Redeploy
  <2>1. Facts!IInv'
    BY <1>4, SameSteps, Facts!DeployStep, PipelineMet DEF Redeploy, ServiceInv
  <2>2. UNCHANGED <<pc, delivery, now, threads>>
    BY <1>4 DEF Redeploy, Pipeline!Deploy, vars
  <2> QED BY <2>1, <2>2 DEF ServiceInv, DeliveriesOK, CallOK, InTime
<1>5. CASE UNCHANGED serviceVars
  BY <1>5, PipelineRests DEF serviceVars, vars, pipeline, ServiceInv, DeliveriesOK, CallOK, InTime
<1> QED BY <1>1, <1>2, <1>3, <1>4, <1>5
     DEF ServiceNext, ServiceTerminating, Terminating, serviceVars

LEMMA ServiceInvariance == ServiceSpec => [](IInv /\ ServiceInv)
<1>1. ServiceInit => ServiceInv
  <2> SUFFICES ASSUME ServiceInit PROVE ServiceInv
    OBVIOUS
  <2>1. Facts!IInv
    BY SameSteps, Facts!InitHolds, PipelineMet DEF ServiceInit
  <2>2. threads = [c \in Calls |-> Pipeline!Idle] /\ Pipeline!Idle.stage = "idle"
    BY DEF ServiceInit, Pipeline!Init, Pipeline!Threads, Pipeline!Idle
  <2> QED BY <2>1, <2>2, ServiceAssumption DEF ServiceInit, Init, ServiceInv, DeliveriesOK, CallOK
<1>2. ServiceSpec => []IInv
  BY ServiceIsRunState, Invariance
<1> QED BY <1>1, <1>2, ServiceInvStep, PTL DEF ServiceSpec

-----------------------------------------------------------------------------
\* Every part of the composed state keeps its type, and an execution is in the
\* pipeline exactly while its thread executes, whatever is delivered, deployed
\* and scheduled when.
THEOREM ServiceTypeCorrect == ServiceSpec => []ServiceTypeOK
<1>1. Facts!TypeOK => Pipeline!TypeOK
  BY DEF Facts!TypeOK, Pipeline!TypeOK, Facts!Thread, Pipeline!Thread, Facts!Threads,
     Pipeline!Threads, Facts!Stages, Pipeline!Stages, Facts!PipelineFaults,
     Pipeline!PipelineFaults, Facts!Raises, Pipeline!Raises
<1>2. Facts!IInv => Facts!TypeOK
  BY DEF Facts!IInv, Facts!FilesOK, Facts!TypeOK
<1>3. IInv /\ ServiceInv => ServiceTypeOK
  BY <1>1, <1>2 DEF IInv, ServiceInv, DeliveriesOK, CallOK, ServiceTypeOK
<1> QED BY <1>3, ServiceInvariance, PTL

-----------------------------------------------------------------------------
(***************************************************************************)
(* What a passed deadline leads to, from the moment it is looked for.      *)
(***************************************************************************)

\* An answer without a Proposal stays one.
Refused(c) == pc[c] = "raised" \/ (pc[c] = "returned" /\ result[c].resultStatus # "COMPLETED")

LEMMA RefusedStays ==
  ASSUME TypeOK, NEW c \in Calls, Refused(c), [Next]_vars
  PROVE  Refused(c)'
<1>1. ASSUME NEW d \in Calls, Step(d) PROVE Refused(c)'
  <2>1. pc[d] \notin Terminal
    BY <1>1 DEF Step, Identify, RejectEarly, RaiseEarly, Begin, BeginFirst, BeginConflict,
       BeginWait, BeginCached, BeginRetry, WaitPass, WaitSleep, ExecuteCompleted, ExecuteFailed,
       ExecuteRaises, Complete, Abort, Terminal
  <2>2. d # c
    BY <2>1 DEF Refused, Terminal
  <2> QED BY <1>1, <2>2, OthersStay DEF Refused
<1>2. ASSUME NEW d \in Calls, Receive(d) PROVE Refused(c)'
  BY <1>2 DEF Receive, Refused, TypeOK
<1>3. CASE UNCHANGED vars
  BY <1>3 DEF vars, Refused
<1> QED BY <1>1, <1>2, <1>3 DEF Next, Terminating

\* What is not c's own step, in the eyes of c: time passes, it is woken.
LEMMA SeenByOthers ==
  ASSUME IInv, ServiceInv, [ServiceNext]_serviceVars, NEW c \in Calls, pc[c] # "idle",
         ~ ServiceStep(c)
  PROVE  /\ pc'[c] = pc[c] \/ (pc[c] = "asleep" /\ pc'[c] = "begin")
         /\ result'[c] = result[c] /\ delivery'[c] = delivery[c] /\ threads'[c] = threads[c]
         /\ now \in Nat /\ now' \in {now, now + 1}
<1>1. /\ TypeOK /\ delivery \in [Calls -> Delivery \cup {None}] /\ now \in Nat
      /\ threads \in [Calls -> Facts!Thread]
  BY InPipeline, ServiceAssumption DEF IInv, ServiceInv, DeliveriesOK
<1>2. ASSUME NEW d \in Calls, ServiceReceive(d)
      PROVE  /\ pc'[c] = pc[c] /\ result'[c] = result[c] /\ delivery'[c] = delivery[c]
             /\ threads'[c] = threads[c] /\ now' = now
  <2>1. d # c
    BY <1>2 DEF ServiceReceive, Receive
  <2> QED BY <1>1, <1>2, <2>1 DEF ServiceReceive, Receive, TypeOK, pipeline
<1>3. ASSUME NEW d \in Calls, ServiceStep(d)
      PROVE  /\ pc'[c] = pc[c] \/ (pc[c] = "asleep" /\ pc'[c] = "begin")
             /\ result'[c] = result[c] /\ delivery'[c] = delivery[c]
             /\ threads'[c] = threads[c] /\ now' = now
  <2>1. d # c
    BY <1>3
  <2>2. /\ pc'[c] = pc[c] \/ (pc[c] = "asleep" /\ pc'[c] = "begin")
        /\ result'[c] = result[c]
    BY <1>1, <1>3, <2>1, ServiceStepIsStep, OthersStay DEF vars
  <2>3. UNCHANGED <<delivery, now>>
    BY <1>3 DEF ServiceStep, Admit, BeginExecution, BeginElse, ReadFile, Conclude, EndExecution,
       Finish
  <2>4. threads'[c] = threads[c]
    <3>1. CASE Admit(d) \/ BeginElse(d) \/ Finish(d)
      BY <3>1 DEF Admit, BeginElse, Finish, pipeline
    <3>2. CASE ReadFile(d)
      BY <2>1, <3>2, ReadEnds DEF ReadFile, ServiceInv
    <3>3. CASE BeginExecution(d) \/ EndExecution(d)
      BY <1>1, <2>1, <3>3 DEF BeginExecution, EndExecution, Pipeline!Start, Pipeline!Report
    <3>4. CASE Conclude(d)
      BY <1>1, <2>1, <3>4 DEF Conclude, Pipeline!Infer, Pipeline!Advance
    <3> QED BY <1>3, <3>1, <3>2, <3>3, <3>4 DEF ServiceStep
  <2> QED BY <2>2, <2>3, <2>4
<1>4. CASE Tick
  BY <1>1, <1>4 DEF Tick, vars, pipeline
<1>5. CASE Redeploy
  BY <1>1, <1>5 DEF Redeploy, Pipeline!Deploy, vars
<1>6. CASE ServiceTerminating \/ UNCHANGED serviceVars
  BY <1>1, <1>6 DEF ServiceTerminating, Terminating, serviceVars, vars, pipeline
<1> QED BY <1>1, <1>2, <1>3, <1>4, <1>5, <1>6 DEF ServiceNext

LEMMA ServiceRefusedStays ==
  ASSUME IInv, NEW c \in Calls, Refused(c), [ServiceNext]_serviceVars
  PROVE  Refused(c)'
<1>1. [Next]_vars
  BY ServiceNextIsNext
<1> QED BY <1>1, RefusedStays DEF IInv

\* A late delivery that run() has still to look at.
Refusing(c) ==
  \/ pc[c] = "received" /\ delivery[c].deadlineAt <= now
  \/ Refused(c)

LEMMA RefusingStays ==
  ASSUME IInv, ServiceInv, NEW c \in Calls, Refusing(c), [ServiceNext]_serviceVars
  PROVE  Refusing(c)'
<1>1. CASE Refused(c)
  BY <1>1, ServiceRefusedStays DEF Refusing
<1>2. CASE pc[c] = "received" /\ delivery[c].deadlineAt <= now
  <2>1. delivery[c] \in Delivery
    BY <1>2 DEF ServiceInv, DeliveriesOK, CallOK
  <2>2. CASE ~ ServiceStep(c)
    BY <1>2, <2>1, <2>2, SeenByOthers DEF Refusing, Delivery
  <2>3. CASE ServiceStep(c)
    <3>1. Admit(c) /\ ~ Identify(c)
      BY <1>2, <2>3, AdmitStep
         DEF ServiceStep, BeginExecution, BeginFirst, BeginRetry, BeginElse, BeginConflict,
             BeginWait, BeginCached, WaitPass, WaitSleep, ReadFile, Conclude, EndExecution,
             ExecuteCompleted, ExecuteRaises, ExecuteFailed, Finish, Complete, Abort
    <3>2. CASE RaiseEarly(c)
      BY <3>2 DEF RaiseEarly, Refusing, Refused, IInv, TypeOK
    <3>3. ASSUME NEW reason, RejectEarly(c, reason) PROVE Refused(c)'
      BY <3>3 DEF RejectEarly, FailedResult, ReturnOrRaise, Refused, IInv, TypeOK
    <3> QED BY <3>1, <3>2, <3>3 DEF Admit, Refusing
  <2> QED BY <2>2, <2>3
<1> QED BY <1>1, <1>2 DEF Refusing

\* A late delivery is never answered with COMPLETED, also when the run has a
\* Result to repeat: _validate_time_bounds() comes before begin(), and no other
\* fault of the request hides the deadline's.
THEOREM LateIsRefusedHolds == ServiceSpec => LateIsRefused
<1> SUFFICES ASSUME NEW c \in Calls
             PROVE  ServiceSpec =>
                      [](pc[c] = "received" /\ delivery[c].deadlineAt <= now => []~ Completed(c))
  BY DEF LateIsRefused
<1>1. pc[c] = "received" /\ delivery[c].deadlineAt <= now => Refusing(c)
  BY DEF Refusing
<1>2. IInv /\ ServiceInv /\ Refusing(c) /\ [ServiceNext]_serviceVars => Refusing(c)'
  BY RefusingStays
<1>3. Refusing(c) => ~ Completed(c)
  BY DEF Refusing, Refused, Completed
<1> QED BY <1>1, <1>2, <1>3, ServiceInvariance, PTL DEF ServiceSpec

\* An execution whose deadline has passed before it concluded, and what it
\* comes to.
Failing(c) ==
  \/ pc[c] = "execute" /\ threads[c].stage # "ended" /\ delivery[c].deadlineAt <= now
  \/ pc[c] = "execute" /\ threads[c].stage = "ended" /\ threads[c].fault # None
  \/ pc[c] = "complete" /\ result[c].resultStatus # "COMPLETED"
  \/ pc[c] = "abort"
  \/ Refused(c)

LEMMA FailingStays ==
  ASSUME IInv, ServiceInv, NEW c \in Calls, Failing(c), [ServiceNext]_serviceVars
  PROVE  Failing(c)'
<1>1. CASE Refused(c)
  BY <1>1, ServiceRefusedStays DEF Failing
<1>2. CASE ~ Refused(c) /\ ~ ServiceStep(c)
  <2>1. pc[c] \in {"execute", "complete", "abort"}
    BY <1>2 DEF Failing
  <2>2. delivery[c] \in Delivery
    BY <2>1 DEF ServiceInv, DeliveriesOK, CallOK
  <2> QED BY <1>2, <2>1, <2>2, SeenByOthers DEF Failing, Delivery
<1>3. CASE ~ Refused(c) /\ ServiceStep(c) /\ pc[c] = "execute"
  <2>1. ReadFile(c) \/ Conclude(c) \/ EndExecution(c)
    BY <1>3 DEF ServiceStep, Admit, BeginExecution, BeginFirst, BeginRetry, BeginElse,
       BeginConflict, BeginWait, BeginCached, WaitPass, WaitSleep, Finish, Complete, Abort
  <2>2. CASE ReadFile(c)
    <3>1. UNCHANGED <<pc, delivery, now>> /\ Pipeline!Read(c)
      BY <2>2 DEF ReadFile, vars
    <3> QED BY <1>3, <3>1, ReadEnds DEF Failing, Refused, ServiceInv
  <2>3. CASE Conclude(c)
    <3>1. UNCHANGED pc
      BY <2>3 DEF Conclude, vars
    <3> QED BY <1>3, <2>3, <3>1, ConcludeStep DEF Failing, Refused
  <2>4. CASE EndExecution(c)
    <3>1. threads[c].fault # None
      BY <1>3, <2>4 DEF Failing, Refused, EndExecution, Pipeline!Report
    <3>2. CASE ExecuteRaises(c)
      BY <3>2 DEF ExecuteRaises, Failing, IInv, TypeOK
    <3>3. ASSUME NEW reason, ExecuteFailed(c, reason)
          PROVE  Failing(c)'
      BY <3>3 DEF ExecuteFailed, FailedResult, Failing, Refused, IInv, TypeOK
    <3> QED BY <2>4, <3>1, <3>2, <3>3 DEF EndExecution
  <2> QED BY <2>1, <2>2, <2>3, <2>4
<1>4. CASE ~ Refused(c) /\ ServiceStep(c) /\ pc[c] # "execute"
  <2>1. Finish(c)
    BY <1>4 DEF Failing, ServiceStep, Admit, Identify, RaiseEarly, RejectEarly, BeginExecution,
       BeginFirst, BeginRetry, BeginElse, BeginConflict, BeginWait, BeginCached, WaitPass,
       WaitSleep, ReadFile, Conclude, EndExecution, ExecuteCompleted, ExecuteRaises, ExecuteFailed
  <2> QED BY <1>4, <2>1 DEF Failing, Refused, Finish, Complete, Abort, Settle, ReturnOrRaise
<1> QED BY <1>1, <1>2, <1>3, <1>4

\* An execution whose deadline passes before it has concluded, wherever in the
\* pipeline it is by then, is not answered with COMPLETED: run() looks at the
\* clock again, and inference hides that fault only behind one of its own.
THEOREM LateExecutionFailsHolds == ServiceSpec => LateExecutionFails
<1> DEFINE Late(c) == /\ pc[c] = "execute" /\ threads[c].stage # "ended"
                      /\ delivery[c].deadlineAt <= now
<1> SUFFICES ASSUME NEW c \in Calls
             PROVE  ServiceSpec => [](Late(c) => []~ Completed(c))
  BY DEF LateExecutionFails
<1>1. Late(c) => Failing(c)
  BY DEF Failing
<1>2. IInv /\ ServiceInv /\ Failing(c) /\ [ServiceNext]_serviceVars => Failing(c)'
  BY FailingStays
<1>3. Failing(c) => ~ Completed(c)
  BY DEF Failing, Refused, Completed
<1> HIDE DEF Late
<1> QED BY <1>1, <1>2, <1>3, ServiceInvariance, PTL DEF ServiceSpec

\* What the service infers from and answers COMPLETED with is verified: the
\* pipeline's promise survives its composition with threads and retries.
THEOREM ServiceInferenceIsVerified == ServiceSpec => []Pipeline!InferenceIsVerified
<1>1. Facts!InferenceIsVerified => Pipeline!InferenceIsVerified
  BY DEF Facts!InferenceIsVerified, Pipeline!InferenceIsVerified, Facts!RequestFromManifest,
     Pipeline!RequestFromManifest
<1>2. Facts!IInv => Facts!InferenceIsVerified
  BY Facts!VerifiedByInv, PipelineMet
<1>3. ServiceInv => Pipeline!InferenceIsVerified
  BY <1>1, <1>2 DEF ServiceInv
<1> QED BY <1>3, ServiceInvariance, PTL

=============================================================================
