--------------------------- MODULE ModelPipeline ---------------------------
(***************************************************************************)
(* The model pipeline of LoanDecisionAgentService (service.py): what       *)
(* run() does between begin() and the Result, and what readiness() does,   *)
(* against the three mounted files (manifest, thresholds, model artifact), *)
(* which a deployment may replace between any two reads.                   *)
(*                                                                         *)
(* A thread is an execution of run() or a probe of readiness().  Each read *)
(* of a file is one action; the checks on what was read belong to it, in   *)
(* the order of the code.  A thread ends with a fault: the reason code of  *)
(* an AgentFailure, Raises for any other exception, None for success.      *)
(***************************************************************************)
EXTENDS Naturals, Sequences

CONSTANTS
  Executions,       \* threads that execute run()
  Probes,           \* threads that execute readiness()
  Inputs,           \* what a request says of model, versions and features
  Manifests, ThresholdFiles, Artifacts,  \* what each file can be
  InferenceFaults,  \* how it can fail once the model is loaded: reason codes, Raises
  MaxDeploys,       \* bound on replaced files
  None

Threads == Executions \cup Probes

Raises == "raises"

\* What the runtime implements (features.py).
FEATURE_SCHEMA_VERSION == "phase-2-loan-features.v1.0.0"
PREPROCESSING_VERSION == "preprocess.v1.0.0"

PipelineFaults ==
  {"CONTRACT_VALIDATION_FAILED", "FEATURE_REQUIRED_MISSING",
   "FEATURE_SCHEMA_VERSION_UNSUPPORTED", "FEATURE_TYPE_INVALID",
   "FEATURE_UNKNOWN", "FEATURE_VALUE_OUT_OF_RANGE",
   "MODEL_ARTIFACT_DIGEST_MISMATCH", "MODEL_ARTIFACT_NOT_FOUND",
   "MODEL_MANIFEST_NOT_FOUND", "MODEL_VERSION_UNSUPPORTED"}

Stages == {"idle", "load_manifest", "threshold", "verify", "load_model", "infer", "ended"}

VARIABLES
  manifest, thresholds, artifact,  \* the mounted files
  deploys,                         \* how often one was replaced
  threads                          \* the locals of each thread

files == <<manifest, thresholds, artifact, deploys>>
vars == <<manifest, thresholds, artifact, deploys, threads>>

\* since: the deployment the thread started under.
Thread ==
  [stage : Stages, input : Inputs \cup {None}, manifest : Manifests \cup {None},
   loaded : {a.digest : a \in Artifacts} \cup {None}, since : Nat,
   fault : PipelineFaults \cup InferenceFaults \cup {Raises, None}]

TypeOK ==
  /\ manifest \in Manifests
  /\ thresholds \in ThresholdFiles
  /\ artifact \in Artifacts
  /\ deploys \in 0..MaxDeploys
  /\ threads \in [Threads -> Thread]

Idle ==
  [stage |-> "idle", input |-> None, manifest |-> None, loaded |-> None,
   since |-> 0, fault |-> None]

Init ==
  /\ manifest \in Manifests
  /\ thresholds \in ThresholdFiles
  /\ artifact \in Artifacts
  /\ deploys = 0
  /\ threads = [t \in Threads |-> Idle]

-----------------------------------------------------------------------------
(***************************************************************************)
(* The checks.  A list of <<condition, fault>> fails at its first true     *)
(* condition.                                                              *)
(***************************************************************************)
FirstFault(checks) ==
  LET failing == {k \in DOMAIN checks : checks[k][1]}
      first == CHOOSE k \in failing : \A j \in failing : k <= j
  IN IF failing = {} THEN None ELSE checks[first][2]

\* Mutant: AgentFailure's classification and reason code are swapped.
ManifestFaultSwapped(m) == IF m.form = "published" THEN None ELSE "BLOCKED"

\* load_manifest() and verify_runtime_compatibility().
ManifestFault(m) == FirstFault(<<
  <<m.form \in {"missing", "not_object", "placeholder"}, "MODEL_MANIFEST_NOT_FOUND">>,
  <<m.form = "not_json", "CONTRACT_VALIDATION_FAILED">>,
  <<m.form \in {"unreadable", "not_contract"}, Raises>>,
  <<~ m.compatible, "MODEL_VERSION_UNSUPPORTED">> >>)

\* _threshold(): the entry of the manifest's threshold version.  float() of an
\* integer beyond the range of a double raises OverflowError.
ThresholdFault(f, version) == FirstFault(<<
  <<f.form = "missing", "MODEL_MANIFEST_NOT_FOUND">>,
  <<f.form = "unreadable", Raises>>,
  <<f.form = "not_json", "CONTRACT_VALIDATION_FAILED">>,
  <<f.form = "not_object" \/ f.value[version] = "absent", "MODEL_VERSION_UNSUPPORTED">>,
  <<f.value[version] = "overflows", Raises>>,
  <<f.value[version] # "in_unit_interval", "CONTRACT_VALIDATION_FAILED">> >>)

RequestFromManifest(m) ==
  [modelVersion |-> m.modelVersion, featureSchemaVersion |-> m.featureSchemaVersion,
   preprocessingVersion |-> m.preprocessingVersion,
   thresholdVersion |-> m.thresholdVersion,
   modelArtifactDigest |-> m.modelBinaryArtifactDigest]

\* Mutant: the threshold version is not compared.
InputFaultAnyThreshold(i, m) == FirstFault(<<
  <<i.modelVersion # m.modelVersion, "MODEL_VERSION_UNSUPPORTED">>,
  <<i.featureSchemaVersion # m.featureSchemaVersion, "FEATURE_SCHEMA_VERSION_UNSUPPORTED">>,
  <<i.preprocessingVersion # m.preprocessingVersion, "MODEL_VERSION_UNSUPPORTED">>,
  <<i.modelArtifactDigest # m.modelBinaryArtifactDigest, "MODEL_ARTIFACT_DIGEST_MISMATCH">> >>)

\* verify_manifest_request(): the request against the manifest ...
InputFault(i, m) == FirstFault(<<
  <<i.modelVersion # m.modelVersion, "MODEL_VERSION_UNSUPPORTED">>,
  <<i.featureSchemaVersion # m.featureSchemaVersion, "FEATURE_SCHEMA_VERSION_UNSUPPORTED">>,
  <<i.preprocessingVersion # m.preprocessingVersion, "MODEL_VERSION_UNSUPPORTED">>,
  <<i.thresholdVersion # m.thresholdVersion, "MODEL_VERSION_UNSUPPORTED">>,
  <<i.modelArtifactDigest # m.modelBinaryArtifactDigest, "MODEL_ARTIFACT_DIGEST_MISMATCH">> >>)

\* ... and the artifact against the manifest.  An artifact that is gone when it
\* is opened, though is_file() has seen it, is an unreadable one.
ArtifactFault(m, a) == FirstFault(<<
  <<~ m.localReference \/ a.form = "missing", "MODEL_ARTIFACT_NOT_FOUND">>,
  <<a.form = "unreadable", Raises>>,
  <<a.digest # m.modelBinaryArtifactDigest, "MODEL_ARTIFACT_DIGEST_MISMATCH">>,
  <<~ m.xgboostJson, "MODEL_VERSION_UNSUPPORTED">> >>)

\* _feature_value()
ValueFault ==
  [valid |-> None, absent |-> "FEATURE_REQUIRED_MISSING",
   mistyped |-> "FEATURE_TYPE_INVALID", overflows |-> Raises,
   out_of_range |-> "FEATURE_VALUE_OUT_OF_RANGE"]

\* validate_and_prepare_features() and feature_values().  That the payload is an
\* object, and its digest, input_identity() has verified on the same payload.
FeatureFault(i) == FirstFault(<<
  <<i.featureSchemaVersion # FEATURE_SCHEMA_VERSION, "FEATURE_SCHEMA_VERSION_UNSUPPORTED">>,
  <<i.preprocessingVersion # PREPROCESSING_VERSION, "MODEL_VERSION_UNSUPPORTED">>,
  <<i.payloadSchemaVersion # FEATURE_SCHEMA_VERSION, "FEATURE_SCHEMA_VERSION_UNSUPPORTED">>,
  <<~ i.hasFeatures, "FEATURE_REQUIRED_MISSING">>,
  <<i.unknownFeature, "FEATURE_UNKNOWN">>,
  <<\E k \in DOMAIN i.values : i.values[k] = "absent", "FEATURE_REQUIRED_MISSING">> >>
  \o [k \in DOMAIN i.values |-> <<i.values[k] # "valid", ValueFault[i.values[k]]>>])

\* What becomes of an artifact in XGBoostModelAdapter(): Booster and explainer, an
\* XGBoostError, or another exception of either.
LoadFault ==
  [model |-> None, no_model |-> "MODEL_VERSION_UNSUPPORTED", no_explainer |-> Raises]

\* What the checks tell apart of a file's content and of a payload.
ManifestForms ==
  {"missing", "unreadable", "not_json", "not_object", "not_contract", "placeholder", "published"}

ASSUME PipelineAssumption ==
  /\ Executions \cap Probes = {}
  /\ MaxDeploys \in Nat
  /\ None \notin PipelineFaults \cup InferenceFaults \cup {Raises}
  /\ \A m \in Manifests : m.form \in ManifestForms
  /\ \A f \in ThresholdFiles :
       f.form \in {"missing", "unreadable", "not_json", "not_object", "object"}
  /\ \A a \in Artifacts : a.content \in DOMAIN LoadFault
  /\ \A i \in Inputs : i.values \in Seq(DOMAIN ValueFault)

-----------------------------------------------------------------------------
(***************************************************************************)
(* The steps of a thread.  A fault ends it; otherwise it goes on as next.  *)
(***************************************************************************)
Advance(t, fault, next) ==
  threads' = [threads EXCEPT ![t] =
    IF fault = None THEN next ELSE [@ EXCEPT !.stage = "ended", !.fault = fault]]

Start(t, input) ==
  /\ threads[t].stage = "idle"
  /\ threads' = [threads EXCEPT ![t] =
       [@ EXCEPT !.stage = "load_manifest", !.input = input, !.since = deploys]]
  /\ UNCHANGED files

LoadManifest(t) ==
  /\ threads[t].stage = "load_manifest"
  /\ Advance(t, ManifestFault(manifest),
       [threads[t] EXCEPT !.stage = "threshold", !.manifest = manifest])
  /\ UNCHANGED files

Threshold(t) ==
  /\ threads[t].stage = "threshold"
  /\ Advance(t, ThresholdFault(thresholds, threads[t].manifest.thresholdVersion),
       [threads[t] EXCEPT !.stage = "verify"])
  /\ UNCHANGED files

\* An execution goes on with its features, a probe has none.
Verify(t) ==
  /\ threads[t].stage = "verify"
  /\ LET m == threads[t].manifest
         i == IF t \in Probes THEN RequestFromManifest(m) ELSE threads[t].input
         faults == <<InputFault(i, m), ArtifactFault(m, artifact),
                     IF t \in Probes THEN None ELSE FeatureFault(i)>>
     IN Advance(t, FirstFault([k \in 1..3 |-> <<faults[k] # None, faults[k]>>]),
                [threads[t] EXCEPT !.stage = "load_model"])
  /\ UNCHANGED files

\* Mutant: readiness() does not load the model.
LoadModelUnprobed(t) ==
  /\ threads[t].stage = "load_model"
  /\ Advance(t, IF t \in Probes THEN None ELSE LoadFault[artifact.content],
       [threads[t] EXCEPT !.stage = IF t \in Probes THEN "ended" ELSE "infer",
                          !.loaded = artifact.digest])
  /\ UNCHANGED files

\* XGBoostModelAdapter(): the file is read a second time.
LoadModel(t) ==
  /\ threads[t].stage = "load_model"
  /\ Advance(t, LoadFault[artifact.content],
       [threads[t] EXCEPT !.stage = IF t \in Probes THEN "ended" ELSE "infer",
                          !.loaded = artifact.digest])
  /\ UNCHANGED files

\* predict(), explain(), the second look at the clock and the reason codes.
Infer(t, fault) ==
  /\ threads[t].stage = "infer"
  /\ Advance(t, fault, [threads[t] EXCEPT !.stage = "ended"])
  /\ UNCHANGED files

\* The thread has reported its fault or its success.
Report(t) ==
  /\ threads[t].stage = "ended"
  /\ threads' = [threads EXCEPT ![t] = Idle]
  /\ UNCHANGED files

\* Another file is mounted, or one is repaired.
Deploy ==
  /\ deploys < MaxDeploys
  /\ deploys' = deploys + 1
  /\ \/ manifest' \in Manifests \ {manifest} /\ UNCHANGED <<thresholds, artifact>>
     \/ thresholds' \in ThresholdFiles \ {thresholds} /\ UNCHANGED <<manifest, artifact>>
     \/ artifact' \in Artifacts \ {artifact} /\ UNCHANGED <<manifest, thresholds>>
  /\ UNCHANGED threads

Read(t) == LoadManifest(t) \/ Threshold(t) \/ Verify(t) \/ LoadModel(t)

Terminating ==
  /\ \A t \in Threads : threads[t].stage = "ended"
  /\ UNCHANGED vars

Next ==
  \/ \E x \in Executions : \E i \in Inputs : Start(x, i)
  \/ \E p \in Probes : Start(p, None)
  \/ \E t \in Threads : Read(t)
  \/ \E x \in Executions : \E fault \in InferenceFaults \cup {None} : Infer(x, fault)
  \/ Deploy
  \/ Terminating

Spec == Init /\ [][Next]_vars

-----------------------------------------------------------------------------
\* t has ended and no file was replaced since it started.
EndedUndisturbed(t) == threads[t].stage = "ended" /\ threads[t].since = deploys

\* readiness() and run() judge a deployment alike.  While no file is replaced:
\* after a successful probe an execution fails only for its own request or in
\* inference, and after a failed probe no execution succeeds.
ReadinessAgrees ==
  \A p \in Probes, x \in Executions :
    EndedUndisturbed(p) /\ EndedUndisturbed(x) =>
      LET i == threads[x].input
      IN IF threads[p].fault = None
         THEN threads[x].fault \in
                {None, InputFault(i, manifest), FeatureFault(i)} \cup InferenceFaults
         ELSE threads[x].fault # None

\* Nothing is inferred on trust: an execution that infers or has succeeded
\* read a published, compatible manifest that says of every version and of the
\* artifact what the request says, its features are valid, and, unless a file
\* was replaced meanwhile, the model it loaded is the artifact of the request
\* and the threshold it uses is configured under the request's version.
InferenceIsVerified ==
  \A x \in Executions :
    LET run == threads[x]
        pinned == RequestFromManifest(run.manifest)
    IN run.stage = "infer" \/ (run.stage = "ended" /\ run.fault = None) =>
         /\ run.manifest.form = "published" /\ run.manifest.compatible
         /\ \A field \in DOMAIN pinned : run.input[field] = pinned[field]
         /\ \A k \in DOMAIN run.input.values : run.input.values[k] = "valid"
         /\ run.since = deploys =>
              /\ run.loaded = run.input.modelArtifactDigest
              /\ thresholds.value[run.input.thresholdVersion] = "in_unit_interval"

\* A request that meets a malformed manifest fails with
\* CONTRACT_VALIDATION_FAILED (docs/failure-handling.md).
MalformedManifestReported ==
  \A x \in Executions :
    /\ EndedUndisturbed(x)
    /\ manifest.form \in {"not_json", "not_object", "not_contract"}
    => threads[x].fault = "CONTRACT_VALIDATION_FAILED"

=============================================================================
