------------------------ MODULE ModelPipelineProofs ------------------------
(***************************************************************************)
(* Proofs about ModelPipeline, for any number of executions and probes,    *)
(* any requests, any contents of the three files and any deployments.      *)
(***************************************************************************)
EXTENDS ModelPipeline, WellFoundedInduction, SequenceTheorems, TLAPS

-----------------------------------------------------------------------------
(***************************************************************************)
(* Lists of checks.                                                        *)
(***************************************************************************)

\* A nonempty set of natural numbers has a smallest element.
LEMMA Smallest ==
  ASSUME NEW S \in SUBSET Nat, S # {}
  PROVE  \E m \in S : \A j \in S : m <= j
<1> DEFINE less == {p \in Nat \X Nat : p[1] < p[2]}
<1>1. \A j, k \in Nat : j < k => <<j, k>> \in less
  OBVIOUS
<1>2. less = OpToRel(<, Nat)
  BY DEF OpToRel
<1>3. IsWellFoundedOn(less, Nat)
  BY <1>2, NatLessThanWellFounded
<1> HIDE DEF less
<1>4. PICK m \in S : \A j \in S : ~ (<<j, m>> \in less)
  <2>1. S \subseteq Nat
    OBVIOUS
  <2> QED BY ONLY <1>3, <2>1, S # {}, WFMin, Zenon
<1>5. ASSUME NEW j \in S PROVE m <= j
  <2>1. j \in Nat /\ m \in Nat
    OBVIOUS
  <2>2. ~ (j < m)
    BY <1>1, <1>4, <2>1, Zenon
  <2> QED BY <2>1, <2>2
<1> QED BY <1>5

\* A list of checks passes when no condition holds, and otherwise fails with
\* the fault of a condition that holds.
LEMMA FirstFaultIs ==
  ASSUME NEW checks, DOMAIN checks \subseteq Nat
  PROVE  \/ FirstFault(checks) = None /\ \A k \in DOMAIN checks : ~ checks[k][1]
         \/ \E k \in DOMAIN checks : checks[k][1] /\ FirstFault(checks) = checks[k][2]
<1> DEFINE failing == {k \in DOMAIN checks : checks[k][1]}
           first == CHOOSE k \in failing : \A j \in failing : k <= j
<1>1. FirstFault(checks) = IF failing = {} THEN None ELSE checks[first][2]
  BY DEF FirstFault
<1>2. CASE failing = {}
  BY <1>1, <1>2
<1>3. CASE failing # {}
  <2>1. \E m \in failing : \A j \in failing : m <= j
    BY <1>3, Smallest
  <2>2. first \in failing
    BY <2>1
  <2> QED BY <1>1, <1>3, <2>2
<1> QED BY <1>2, <1>3

\* The components of a pair.
LEMMA PairIs ==
  ASSUME NEW a, NEW b, NEW pair, pair = <<a, b>>
  PROVE  pair[1] = a /\ pair[2] = b
OBVIOUS

\* A function on 1..n is a sequence of length n.
LEMMA FunctionIsSeq ==
  ASSUME NEW S, NEW n \in Nat, NEW f \in [1..n -> S]
  PROVE  f \in Seq(S) /\ Len(f) = n
<1>1. f \in Seq(S)
  BY SeqDef, Zenon
<1>2. 1..Len(f) = 1..n /\ Len(f) \in Nat
  BY <1>1, LenProperties
<1>3. ~ (Len(f) < n) /\ ~ (n < Len(f))
  <2>1. n \in 1..n <=> n \in 1..Len(f)
    BY <1>2
  <2>2. Len(f) \in 1..n <=> Len(f) \in 1..Len(f)
    BY <1>2
  <2> QED BY <1>2, <2>1, <2>2
<1> QED BY <1>1, <1>2, <1>3

\* What passes load_manifest() and verify_runtime_compatibility() is a
\* published manifest for the runtime's libraries.
LEMMA ManifestFaultIs ==
  ASSUME NEW m \in Manifests
  PROVE  /\ ManifestFault(m) \in PipelineFaults \cup {Raises, None}
         /\ ManifestFault(m) = None <=> m.form = "published" /\ m.compatible
<1> DEFINE checks == <<
      <<m.form \in {"missing", "not_object", "placeholder"}, "MODEL_MANIFEST_NOT_FOUND">>,
      <<m.form = "not_json", "CONTRACT_VALIDATION_FAILED">>,
      <<m.form \in {"unreadable", "not_contract"}, Raises>>,
      <<~ m.compatible, "MODEL_VERSION_UNSUPPORTED">> >>
<1>1. DOMAIN checks = 1..4 /\ ManifestFault(m) = FirstFault(checks)
  BY DEF ManifestFault
<1>2. \A k \in 1..4 : checks[k][2] \in (PipelineFaults \cup {Raises}) /\ checks[k][2] # None
  BY PipelineAssumption DEF PipelineFaults
<1>3. CASE FirstFault(checks) = None /\ \A k \in 1..4 : ~ checks[k][1]
  <2>1. ~ checks[1][1] /\ ~ checks[2][1] /\ ~ checks[3][1] /\ ~ checks[4][1]
    BY <1>3
  <2>2. m.form = "published" /\ m.compatible
    BY <2>1, PipelineAssumption DEF ManifestForms
  <2> QED BY <1>1, <1>3, <2>2
<1>4. ASSUME NEW k \in 1..4, checks[k][1], FirstFault(checks) = checks[k][2]
      PROVE  /\ ManifestFault(m) \in PipelineFaults \cup {Raises} /\ ManifestFault(m) # None
             /\ ~ (m.form = "published" /\ m.compatible)
  <2>1. k = 1 \/ k = 2 \/ k = 3 \/ k = 4
    OBVIOUS
  <2>2. checks[1][1] \/ checks[2][1] \/ checks[3][1] \/ checks[4][1]
    BY <1>4, <2>1, Zenon
  <2>3. ManifestFault(m) \in PipelineFaults \cup {Raises} /\ ManifestFault(m) # None
    BY <1>1, <1>2, <1>4
  <2> QED BY <2>2, <2>3
<1> QED BY <1>1, <1>3, <1>4, FirstFaultIs

\* What passes _threshold() is configured within the unit interval.
LEMMA ThresholdFaultIs ==
  ASSUME NEW f \in ThresholdFiles, NEW version
  PROVE  /\ ThresholdFault(f, version) \in PipelineFaults \cup {Raises, None}
         /\ ThresholdFault(f, version) = None => f.value[version] = "in_unit_interval"
<1> DEFINE checks == <<
      <<f.form = "missing", "MODEL_MANIFEST_NOT_FOUND">>,
      <<f.form = "unreadable", Raises>>,
      <<f.form = "not_json", "CONTRACT_VALIDATION_FAILED">>,
      <<f.form = "not_object" \/ f.value[version] = "absent", "MODEL_VERSION_UNSUPPORTED">>,
      <<f.value[version] = "overflows", Raises>>,
      <<f.value[version] # "in_unit_interval", "CONTRACT_VALIDATION_FAILED">> >>
<1>1. DOMAIN checks = 1..6 /\ ThresholdFault(f, version) = FirstFault(checks)
  BY DEF ThresholdFault
<1>2. \A k \in 1..6 : checks[k][2] \in (PipelineFaults \cup {Raises}) /\ checks[k][2] # None
  BY PipelineAssumption DEF PipelineFaults
<1>3. CASE FirstFault(checks) = None /\ \A k \in 1..6 : ~ checks[k][1]
  <2>1. ~ checks[6][1]
    BY <1>3
  <2> QED BY <1>1, <1>3, <2>1
<1>4. CASE \E k \in 1..6 : FirstFault(checks) = checks[k][2]
  BY <1>1, <1>2, <1>4
<1> QED BY <1>1, <1>3, <1>4, FirstFaultIs

\* A request that passes the first half of verify_manifest_request() pins what
\* the manifest says.
LEMMA InputFaultIs ==
  ASSUME NEW i, NEW m
  PROVE  /\ InputFault(i, m) \in PipelineFaults \cup {None}
         /\ InputFault(i, m) = None <=>
              /\ i.modelVersion = m.modelVersion
              /\ i.featureSchemaVersion = m.featureSchemaVersion
              /\ i.preprocessingVersion = m.preprocessingVersion
              /\ i.thresholdVersion = m.thresholdVersion
              /\ i.modelArtifactDigest = m.modelBinaryArtifactDigest
<1> DEFINE checks == <<
      <<i.modelVersion # m.modelVersion, "MODEL_VERSION_UNSUPPORTED">>,
      <<i.featureSchemaVersion # m.featureSchemaVersion, "FEATURE_SCHEMA_VERSION_UNSUPPORTED">>,
      <<i.preprocessingVersion # m.preprocessingVersion, "MODEL_VERSION_UNSUPPORTED">>,
      <<i.thresholdVersion # m.thresholdVersion, "MODEL_VERSION_UNSUPPORTED">>,
      <<i.modelArtifactDigest # m.modelBinaryArtifactDigest, "MODEL_ARTIFACT_DIGEST_MISMATCH">> >>
<1>1. DOMAIN checks = 1..5 /\ InputFault(i, m) = FirstFault(checks)
  BY DEF InputFault
<1>2. \A k \in 1..5 : checks[k][2] \in PipelineFaults /\ checks[k][2] # None
  BY PipelineAssumption DEF PipelineFaults
<1>3. CASE FirstFault(checks) = None /\ \A k \in 1..5 : ~ checks[k][1]
  <2>1. ~ checks[1][1] /\ ~ checks[2][1] /\ ~ checks[3][1] /\ ~ checks[4][1] /\ ~ checks[5][1]
    BY <1>3
  <2> QED BY <1>1, <1>3, <2>1
<1>4. ASSUME NEW k \in 1..5, checks[k][1], FirstFault(checks) = checks[k][2]
      PROVE  /\ InputFault(i, m) \in PipelineFaults /\ InputFault(i, m) # None
             /\ \/ i.modelVersion # m.modelVersion
                \/ i.featureSchemaVersion # m.featureSchemaVersion
                \/ i.preprocessingVersion # m.preprocessingVersion
                \/ i.thresholdVersion # m.thresholdVersion
                \/ i.modelArtifactDigest # m.modelBinaryArtifactDigest
  <2>1. k = 1 \/ k = 2 \/ k = 3 \/ k = 4 \/ k = 5
    OBVIOUS
  <2>2. checks[1][1] \/ checks[2][1] \/ checks[3][1] \/ checks[4][1] \/ checks[5][1]
    BY <1>4, <2>1, Zenon
  <2>3. InputFault(i, m) \in PipelineFaults /\ InputFault(i, m) # None
    BY <1>1, <1>2, <1>4
  <2> QED BY <2>2, <2>3
<1> QED BY <1>1, <1>3, <1>4, FirstFaultIs

\* The request that readiness() makes of a manifest passes against it.
LEMMA OwnRequestPasses ==
  ASSUME NEW m
  PROVE  InputFault(RequestFromManifest(m), m) = None
BY InputFaultIs DEF RequestFromManifest

\* An artifact passes if it can be read, the manifest refers to it as a local
\* file in the XGBoost format, and it has the digest the manifest pins.
LEMMA ArtifactFaultIs ==
  ASSUME NEW m, NEW a
  PROVE  /\ ArtifactFault(m, a) \in PipelineFaults \cup {Raises, None}
         /\ ArtifactFault(m, a) = None <=>
              /\ m.localReference /\ m.xgboostJson /\ a.form \notin {"missing", "unreadable"}
              /\ a.digest = m.modelBinaryArtifactDigest
<1> DEFINE checks == <<
      <<~ m.localReference \/ a.form = "missing", "MODEL_ARTIFACT_NOT_FOUND">>,
      <<a.form = "unreadable", Raises>>,
      <<a.digest # m.modelBinaryArtifactDigest, "MODEL_ARTIFACT_DIGEST_MISMATCH">>,
      <<~ m.xgboostJson, "MODEL_VERSION_UNSUPPORTED">> >>
<1>1. DOMAIN checks = 1..4 /\ ArtifactFault(m, a) = FirstFault(checks)
  BY DEF ArtifactFault
<1>2. \A k \in 1..4 : checks[k][2] \in PipelineFaults \cup {Raises} /\ checks[k][2] # None
  BY PipelineAssumption DEF PipelineFaults
<1>3. CASE FirstFault(checks) = None /\ \A k \in 1..4 : ~ checks[k][1]
  <2>1. ~ checks[1][1] /\ ~ checks[2][1] /\ ~ checks[3][1] /\ ~ checks[4][1]
    BY <1>3
  <2> QED BY <1>1, <1>3, <2>1
<1>4. ASSUME NEW k \in 1..4, checks[k][1], FirstFault(checks) = checks[k][2]
      PROVE  /\ ArtifactFault(m, a) \in PipelineFaults \cup {Raises} /\ ArtifactFault(m, a) # None
             /\ ~ (/\ m.localReference /\ m.xgboostJson /\ a.form \notin {"missing", "unreadable"}
                   /\ a.digest = m.modelBinaryArtifactDigest)
  <2>1. k = 1 \/ k = 2 \/ k = 3 \/ k = 4
    OBVIOUS
  <2>2. checks[1][1] \/ checks[2][1] \/ checks[3][1] \/ checks[4][1]
    BY <1>4, <2>1, Zenon
  <2>3. ArtifactFault(m, a) \in PipelineFaults \cup {Raises} /\ ArtifactFault(m, a) # None
    BY <1>1, <1>2, <1>4
  <2> QED BY <2>2, <2>3
<1> QED BY <1>1, <1>3, <1>4, FirstFaultIs

\* Loading an artifact succeeds or fails as the code says.
LEMMA LoadFaultIs ==
  ASSUME NEW a \in Artifacts
  PROVE  LoadFault[a.content] \in PipelineFaults \cup {Raises, None}
BY PipelineAssumption DEF LoadFault, PipelineFaults

\* Features that pass are valid, every one of them.
LEMMA FeatureFaultIs ==
  ASSUME NEW i \in Inputs
  PROVE  /\ FeatureFault(i) \in PipelineFaults \cup {Raises, None}
         /\ FeatureFault(i) = None => \A k \in DOMAIN i.values : i.values[k] = "valid"
<1> DEFINE general == <<
      <<i.featureSchemaVersion # FEATURE_SCHEMA_VERSION, "FEATURE_SCHEMA_VERSION_UNSUPPORTED">>,
      <<i.preprocessingVersion # PREPROCESSING_VERSION, "MODEL_VERSION_UNSUPPORTED">>,
      <<i.payloadSchemaVersion # FEATURE_SCHEMA_VERSION, "FEATURE_SCHEMA_VERSION_UNSUPPORTED">>,
      <<~ i.hasFeatures, "FEATURE_REQUIRED_MISSING">>,
      <<i.unknownFeature, "FEATURE_UNKNOWN">>,
      <<\E k \in DOMAIN i.values : i.values[k] = "absent", "FEATURE_REQUIRED_MISSING">> >>
    value == [k \in DOMAIN i.values |-> <<i.values[k] # "valid", ValueFault[i.values[k]]>>]
    n == Len(i.values)
<1>1. FeatureFault(i) = FirstFault(general \o value)
  BY Zenon DEF FeatureFault
<1>2. \A k \in 1..6 : general[k][2] \in PipelineFaults
  BY DEF PipelineFaults
<1>3. i.values \in Seq(DOMAIN ValueFault) /\ n \in Nat /\ DOMAIN i.values = 1..n
  BY PipelineAssumption
<1>4. \A k \in 1..n :
        /\ value[k][1] <=> i.values[k] # "valid"
        /\ value[k][1] => value[k][2] \in PipelineFaults \cup {Raises}
  <2> SUFFICES ASSUME NEW k \in 1..n
               PROVE  /\ value[k][1] <=> i.values[k] # "valid"
                      /\ value[k][1] => value[k][2] \in PipelineFaults \cup {Raises}
    OBVIOUS
  <2> DEFINE wrong == i.values[k] # "valid"
             fault == ValueFault[i.values[k]]
  <2>1. value[k] = <<wrong, fault>>
    BY <1>3
  <2>2. i.values[k] \in DOMAIN ValueFault
    BY <1>3
  <2>3. wrong => fault \in PipelineFaults \cup {Raises}
    BY <2>2 DEF ValueFault, PipelineFaults
  <2>4. value[k][1] = wrong /\ value[k][2] = fault
    <3> HIDE DEF wrong, fault, value
    <3> QED BY ONLY <2>1, PairIs, Zenon
  <2> HIDE DEF fault, value
  <2> QED BY <2>3, <2>4, Zenon
<1>5. /\ DOMAIN (general \o value) = 1..(6 + n)
      /\ \A k \in 1..6 : (general \o value)[k] = general[k]
      /\ \A k \in 1..n : (general \o value)[6 + k] = value[k]
  <2> DEFINE Pairs == {general[k] : k \in 1..6} \cup {value[k] : k \in 1..n}
  <2>1. general \in [1..6 -> Pairs]
    <3>1. DOMAIN general = 1..6 /\ general = [k \in 1..6 |-> general[k]]
      OBVIOUS
    <3> HIDE DEF general
    <3> QED BY <3>1
  <2>2. value \in [1..n -> Pairs]
    <3>1. value = [k \in 1..n |-> value[k]]
      BY <1>3
    <3> HIDE DEF value
    <3> QED BY <3>1
  <2> HIDE DEF general, value, Pairs
  <2>3. /\ general \in Seq(Pairs) /\ Len(general) = 6
        /\ value \in Seq(Pairs) /\ Len(value) = n
    <3> HIDE DEF n
    <3>1. general \in Seq(Pairs) /\ Len(general) = 6
      <4>1. 6 \in Nat
        OBVIOUS
      <4> QED BY ONLY <4>1, <2>1, FunctionIsSeq
    <3>2. n \in Nat
      BY <1>3
    <3>3. value \in Seq(Pairs) /\ Len(value) = n
      BY ONLY <3>2, <2>2, FunctionIsSeq
    <3> QED BY <3>1, <3>3
  <2>4. /\ general \o value \in Seq(Pairs) /\ Len(general \o value) = 6 + n
        /\ \A k \in 1..6 + n : (general \o value)[k] =
                                  IF k <= 6 THEN general[k] ELSE value[k - 6]
    <3> HIDE DEF n
    <3>1. /\ general \o value \in Seq(Pairs)
          /\ Len(general \o value) = Len(general) + Len(value)
          /\ \A k \in 1..Len(general) + Len(value) : (general \o value)[k] =
                IF k <= Len(general) THEN general[k] ELSE value[k - Len(general)]
      BY <2>3, ConcatProperties
    <3> QED BY <2>3, <3>1
  <2>5. DOMAIN (general \o value) = 1..(6 + n)
    BY <2>4, LenProperties
  <2> HIDE DEF n
  <2>6. \A k \in 1..6 : (general \o value)[k] = general[k]
    BY <1>3, <2>4
  <2>7. ASSUME NEW k \in 1..n PROVE (general \o value)[6 + k] = value[k]
    <3>1. 6 + k \in 1..6 + n /\ ~ (6 + k <= 6) /\ (6 + k) - 6 = k
      BY <1>3
    <3> QED BY <2>4, <3>1
  <2> QED BY <2>5, <2>6, <2>7
<1> HIDE DEF general, value
<1>6. CASE FirstFault(general \o value) = None
           /\ \A k \in DOMAIN (general \o value) : ~ (general \o value)[k][1]
  <2>1. ASSUME NEW k \in 1..n PROVE i.values[k] = "valid"
    <3>1. 6 + k \in 1..(6 + n)
      BY <1>3
    <3> QED BY <1>4, <1>5, <1>6, <3>1
  <2> QED BY <1>1, <1>3, <1>6, <2>1
<1>7. ASSUME NEW k \in DOMAIN (general \o value), (general \o value)[k][1],
             FirstFault(general \o value) = (general \o value)[k][2]
      PROVE  FeatureFault(i) \in PipelineFaults \cup {Raises} /\ FeatureFault(i) # None
  <2> HIDE DEF general, value, n
  <2>1. None \notin PipelineFaults \cup {Raises}
    BY PipelineAssumption
  <2>2. CASE k \in 1..6
    <3>1. (general \o value)[k] = general[k]
      BY <1>5, <2>2
    <3>2. FeatureFault(i) = general[k][2]
      BY <1>1, <1>7, <3>1
    <3> QED BY <1>2, <2>1, <2>2, <3>2
  <2>3. CASE k \notin 1..6
    <3>1. k - 6 \in 1..n /\ k = 6 + (k - 6)
      <4>1. n \in Nat /\ k \in 1..(6 + n)
        BY <1>3, <1>5
      <4> QED BY ONLY <2>3, <4>1
    <3>2. (general \o value)[k] = value[k - 6]
      BY <1>5, <3>1
    <3>3. FeatureFault(i) = value[k - 6][2] /\ value[k - 6][1]
      BY <1>1, <1>7, <3>2
    <3> QED BY <1>4, <2>1, <3>1, <3>3
  <2> QED BY <2>2, <2>3
<1>8. DOMAIN (general \o value) \subseteq Nat
  BY <1>3, <1>5
<1> QED BY <1>6, <1>7, <1>8, FirstFaultIs

\* The three checks of Verify fail with the first of their faults.
LEMMA VerdictIs ==
  ASSUME NEW faults, faults \in [1..3 -> PipelineFaults \cup {Raises, None}]
  PROVE  LET verdict == FirstFault([k \in 1..3 |-> <<faults[k] # None, faults[k]>>])
         IN \/ verdict = None /\ \A k \in 1..3 : faults[k] = None
            \/ \E k \in 1..3 : verdict = faults[k] /\ faults[k] # None
<1> DEFINE checks == [k \in 1..3 |-> <<faults[k] # None, faults[k]>>]
<1>1. DOMAIN checks = 1..3
  OBVIOUS
<1>2. \A k \in 1..3 : (checks[k][1] <=> faults[k] # None) /\ checks[k][2] = faults[k]
  OBVIOUS
<1> HIDE DEF checks
<1>3. \/ FirstFault(checks) = None /\ \A k \in 1..3 : faults[k] = None
      \/ \E k \in 1..3 : FirstFault(checks) = faults[k] /\ faults[k] # None
  BY <1>1, <1>2, FirstFaultIs
<1> QED BY <1>3 DEF checks

-----------------------------------------------------------------------------
(***************************************************************************)
(* The inductive invariant, of every thread t with its locals w.           *)
(***************************************************************************)
Succeeded(w) == w.stage = "ended" /\ w.fault = None
HasManifest(w) == w.stage \in {"threshold", "verify", "load_model", "infer"} \/ Succeeded(w)
HasThreshold(w) == w.stage \in {"verify", "load_model", "infer"} \/ Succeeded(w)
HasVerified(w) == w.stage \in {"load_model", "infer"} \/ Succeeded(w)
HasModel(w) == w.stage = "infer" \/ Succeeded(w)

\* The files, as they are, pass every check readiness() makes,
DeploymentOK ==
  /\ ManifestFault(manifest) = None
  /\ ThresholdFault(thresholds, manifest.thresholdVersion) = None
  /\ ArtifactFault(manifest, artifact) = None
  /\ LoadFault[artifact.content] = None

\* or fail with one of these.
DeploymentFaults ==
  {ManifestFault(manifest), ThresholdFault(thresholds, manifest.thresholdVersion),
   ArtifactFault(manifest, artifact), LoadFault[artifact.content]}

OwnFaults(w) ==
  {InputFault(w.input, manifest), FeatureFault(w.input)} \cup InferenceFaults

\* While no file is replaced, a thread has passed the checks of the files behind
\* it, and if it failed, then for these files or, an execution, for its own
\* request;
Undisturbed(t, w) ==
  /\ HasManifest(w) => w.manifest = manifest /\ ManifestFault(manifest) = None
  /\ HasThreshold(w) => ThresholdFault(thresholds, manifest.thresholdVersion) = None
  /\ HasVerified(w) => ArtifactFault(manifest, artifact) = None
  /\ HasModel(w) => LoadFault[artifact.content] = None /\ w.loaded = artifact.digest
  /\ w.fault # None =>
       w.fault \in DeploymentFaults \/ (t \in Executions /\ w.fault \in OwnFaults(w))

\* and, replaced or not, what it read was fit for use, and its request agrees
\* with the manifest it read.
ThreadOK(t, w) ==
  /\ w \in Thread
  /\ w.since <= deploys
  /\ w.fault # None => w.stage = "ended"
  /\ t \in Executions /\ w.stage # "idle" => w.input \in Inputs
  /\ HasManifest(w) =>
       w.manifest \in Manifests /\ w.manifest.form = "published" /\ w.manifest.compatible
  /\ t \in Executions /\ HasVerified(w) =>
       InputFault(w.input, w.manifest) = None /\ FeatureFault(w.input) = None
  /\ w.since = deploys => Undisturbed(t, w)

FilesOK ==
  /\ manifest \in Manifests
  /\ thresholds \in ThresholdFiles
  /\ artifact \in Artifacts
  /\ deploys \in 0..MaxDeploys

IInv ==
  /\ FilesOK
  /\ threads \in [Threads -> Thread]
  /\ \A t \in Threads : ThreadOK(t, threads[t])

-----------------------------------------------------------------------------
(***************************************************************************)
(* The invariant is kept.                                                  *)
(***************************************************************************)

\* A step of one thread changes nothing for the others.
LEMMA ThreadStep ==
  ASSUME IInv, NEW t \in Threads, NEW w, ThreadOK(t, w),
         threads' = [threads EXCEPT ![t] = w], UNCHANGED files
  PROVE  IInv'
<1>1. w \in Thread
  BY DEF ThreadOK
<1>2. threads' \in [Threads -> Thread]
  BY <1>1 DEF IInv
<1>3. ASSUME NEW u \in Threads PROVE ThreadOK(u, threads'[u])
  BY DEF IInv
<1>4. ASSUME NEW u \in Threads PROVE ThreadOK(u, threads[u])'
  BY <1>3 DEF files, ThreadOK, Undisturbed, DeploymentFaults, OwnFaults, Thread, HasManifest,
     HasThreshold, HasVerified, HasModel, Succeeded
<1> QED BY <1>2, <1>4 DEF IInv, FilesOK, files

LEMMA StartStep ==
  ASSUME IInv, NEW t \in Threads, NEW input, Start(t, input),
         input \in Inputs \/ (input = None /\ t \notin Executions)
  PROVE  IInv'
<1> DEFINE w == [threads[t] EXCEPT !.stage = "load_manifest", !.input = input, !.since = deploys]
<1>1. threads[t].stage = "idle" /\ threads[t] \in Thread /\ threads[t].fault = None
      /\ threads' = [threads EXCEPT ![t] = w] /\ UNCHANGED files /\ deploys \in Nat
  BY PipelineAssumption DEF IInv, Start, ThreadOK, FilesOK
<1>2. /\ w \in Thread /\ w.since = deploys /\ w.fault = None /\ w.stage = "load_manifest"
      /\ w.input = input
  BY <1>1 DEF Thread, Stages
<1>3. ThreadOK(t, w)
  BY <1>1, <1>2 DEF ThreadOK, Undisturbed, HasManifest, HasThreshold, HasVerified, HasModel,
     Succeeded
<1> QED BY <1>1, <1>3, ThreadStep

\* A thread that fails, for the files or for its own request.
LEMMA FailStep ==
  ASSUME IInv, NEW t \in Threads, NEW fault \in PipelineFaults \cup InferenceFaults \cup {Raises},
         threads[t].stage \notin {"idle", "ended"},
         threads[t].since = deploys =>
           fault \in DeploymentFaults \/ (t \in Executions /\ fault \in OwnFaults(threads[t])),
         threads' = [threads EXCEPT ![t] = [@ EXCEPT !.stage = "ended", !.fault = fault]],
         UNCHANGED files
  PROVE  IInv'
<1> DEFINE w == [threads[t] EXCEPT !.stage = "ended", !.fault = fault]
<1>1. ThreadOK(t, threads[t]) /\ fault # None
  BY PipelineAssumption DEF IInv
<1>2. /\ w \in Thread /\ w.since = threads[t].since /\ w.input = threads[t].input
      /\ w.stage = "ended" /\ w.fault = fault
  BY <1>1 DEF ThreadOK, Thread, Stages
<1>3. OwnFaults(w) = OwnFaults(threads[t])
  BY <1>2 DEF OwnFaults
<1> HIDE DEF w
<1>4. ThreadOK(t, w)
  BY <1>1, <1>2, <1>3 DEF ThreadOK, Undisturbed, HasManifest, HasThreshold, HasVerified,
     HasModel, Succeeded
<1> QED BY <1>4, ThreadStep DEF w

LEMMA LoadManifestStep ==
  ASSUME IInv, NEW t \in Threads, LoadManifest(t)
  PROVE  IInv'
<1> DEFINE fault == ManifestFault(manifest)
           w == [threads[t] EXCEPT !.stage = "threshold", !.manifest = manifest]
<1>1. ThreadOK(t, threads[t]) /\ FilesOK /\ threads[t].stage = "load_manifest"
      /\ UNCHANGED files
  BY DEF IInv, LoadManifest
<1>2. fault \in PipelineFaults \cup {Raises, None}
      /\ (fault = None => manifest.form = "published" /\ manifest.compatible)
  BY <1>1, ManifestFaultIs DEF FilesOK
<1>3. CASE fault = None
  <2>1. /\ w \in Thread /\ w.since = threads[t].since /\ w.input = threads[t].input
        /\ w.stage = "threshold" /\ w.manifest = manifest /\ w.fault = threads[t].fault
    BY <1>1 DEF ThreadOK, Thread, Stages, FilesOK
  <2>2. threads' = [threads EXCEPT ![t] = w]
    BY <1>3 DEF LoadManifest, Advance
  <2> HIDE DEF w
  <2>3. ThreadOK(t, w)
    BY <1>1, <1>2, <1>3, <2>1 DEF ThreadOK, Undisturbed, HasManifest, HasThreshold,
       HasVerified, HasModel, Succeeded, FilesOK
  <2> QED BY <1>1, <2>2, <2>3, ThreadStep
<1>4. CASE fault # None
  <2>1. fault \in DeploymentFaults
    BY DEF DeploymentFaults
  <2>2. threads' = [threads EXCEPT ![t] = [@ EXCEPT !.stage = "ended", !.fault = fault]]
    BY <1>4 DEF LoadManifest, Advance
  <2> QED BY <1>1, <1>2, <1>4, <2>1, <2>2, FailStep
<1> QED BY <1>3, <1>4

LEMMA ThresholdStep ==
  ASSUME IInv, NEW t \in Threads, Threshold(t)
  PROVE  IInv'
<1> DEFINE fault == ThresholdFault(thresholds, threads[t].manifest.thresholdVersion)
           w == [threads[t] EXCEPT !.stage = "verify"]
<1>1. ThreadOK(t, threads[t]) /\ FilesOK /\ threads[t].stage = "threshold" /\ UNCHANGED files
  BY DEF IInv, Threshold
<1>2. fault \in PipelineFaults \cup {Raises, None}
  BY <1>1, ThresholdFaultIs DEF FilesOK
<1>3. threads[t].since = deploys => threads[t].manifest = manifest
  BY <1>1 DEF ThreadOK, Undisturbed, HasManifest
<1>4. CASE fault = None
  <2>1. /\ w \in Thread /\ w.since = threads[t].since /\ w.input = threads[t].input
        /\ w.stage = "verify" /\ w.manifest = threads[t].manifest /\ w.fault = threads[t].fault
    BY <1>1 DEF ThreadOK, Thread, Stages
  <2>2. threads' = [threads EXCEPT ![t] = w]
    BY <1>4 DEF Threshold, Advance
  <2> HIDE DEF w
  <2>3. ThreadOK(t, w)
    BY <1>1, <1>3, <1>4, <2>1 DEF ThreadOK, Undisturbed, HasManifest, HasThreshold,
       HasVerified, HasModel, Succeeded
  <2> QED BY <1>1, <2>2, <2>3, ThreadStep
<1>5. CASE fault # None
  <2>1. threads[t].since = deploys => fault \in DeploymentFaults
    BY <1>3 DEF DeploymentFaults
  <2>2. threads' = [threads EXCEPT ![t] = [@ EXCEPT !.stage = "ended", !.fault = fault]]
    BY <1>5 DEF Threshold, Advance
  <2> QED BY <1>1, <1>2, <1>5, <2>1, <2>2, FailStep
<1> QED BY <1>4, <1>5

LEMMA VerifyStep ==
  ASSUME IInv, NEW t \in Threads, Verify(t)
  PROVE  IInv'
<1> DEFINE m == threads[t].manifest
           i == IF t \in Probes THEN RequestFromManifest(m) ELSE threads[t].input
           faults == <<InputFault(i, m), ArtifactFault(m, artifact),
                       IF t \in Probes THEN None ELSE FeatureFault(i)>>
           fault == FirstFault([k \in 1..3 |-> <<faults[k] # None, faults[k]>>])
           w == [threads[t] EXCEPT !.stage = "load_model"]
<1>1. ThreadOK(t, threads[t]) /\ FilesOK /\ threads[t].stage = "verify" /\ UNCHANGED files
  BY DEF IInv, Verify
<1>2. t \in Executions <=> t \notin Probes
  BY PipelineAssumption DEF Threads
<1>3. t \in Executions => threads[t].input \in Inputs /\ i = threads[t].input
  BY <1>1, <1>2 DEF ThreadOK
<1>4. faults \in [1..3 -> PipelineFaults \cup {Raises, None}]
  <2>1. InputFault(i, m) \in PipelineFaults \cup {Raises, None}
    BY InputFaultIs
  <2>2. ArtifactFault(m, artifact) \in PipelineFaults \cup {Raises, None}
    BY ArtifactFaultIs
  <2>3. (IF t \in Probes THEN None ELSE FeatureFault(i)) \in PipelineFaults \cup {Raises, None}
    BY <1>2, <1>3, FeatureFaultIs
  <2> QED BY <2>1, <2>2, <2>3
<1>5. \/ fault = None /\ faults[1] = None /\ faults[2] = None /\ faults[3] = None
      \/ /\ fault # None /\ fault \in PipelineFaults \cup {Raises}
         /\ fault = faults[1] \/ fault = faults[2] \/ fault = faults[3]
  <2> HIDE DEF faults
  <2>1. \/ fault = None /\ \A k \in 1..3 : faults[k] = None
        \/ \E k \in 1..3 : fault = faults[k] /\ faults[k] # None
    BY <1>4, VerdictIs
  <2> HIDE DEF fault
  <2> QED BY <1>4, <2>1
<1>6. Advance(t, fault, w)
  BY Zenon DEF Verify
<1>7. /\ faults[1] = InputFault(i, m)
      /\ faults[2] = ArtifactFault(m, artifact)
      /\ faults[3] = IF t \in Probes THEN None ELSE FeatureFault(i)
  OBVIOUS
<1>8. threads[t].since = deploys => m = manifest
  BY <1>1 DEF ThreadOK, Undisturbed, HasManifest
<1>9. t \in Probes => faults[1] = None
  BY <1>7, OwnRequestPasses
<1> HIDE DEF faults, fault, i
<1>10. CASE fault = None
  <2>1. /\ w \in Thread /\ w.since = threads[t].since /\ w.input = threads[t].input
        /\ w.stage = "load_model" /\ w.manifest = m /\ w.fault = threads[t].fault
    BY <1>1 DEF ThreadOK, Thread, Stages
  <2>2. threads' = [threads EXCEPT ![t] = w]
    BY <1>6, <1>10 DEF Advance
  <2>3. ArtifactFault(m, artifact) = None
        /\ (t \in Executions => /\ InputFault(threads[t].input, m) = None
                                /\ FeatureFault(threads[t].input) = None)
    BY <1>2, <1>3, <1>5, <1>7, <1>10
  <2> HIDE DEF w
  <2>4. ThreadOK(t, w)
    BY <1>1, <1>8, <2>1, <2>3 DEF ThreadOK, Undisturbed, HasManifest, HasThreshold,
       HasVerified, HasModel, Succeeded
  <2> QED BY <1>1, <2>2, <2>4, ThreadStep
<1>11. CASE fault # None
  <2>1. ASSUME threads[t].since = deploys
        PROVE  fault \in DeploymentFaults \/ (t \in Executions /\ fault \in OwnFaults(threads[t]))
    <3>1. CASE fault = faults[1]
      BY <1>2, <1>3, <1>7, <1>8, <1>9, <1>11, <2>1, <3>1 DEF OwnFaults
    <3>2. CASE fault = faults[2]
      BY <1>7, <1>8, <2>1, <3>2 DEF DeploymentFaults
    <3>3. CASE fault = faults[3]
      BY <1>2, <1>3, <1>7, <1>11, <2>1, <3>3 DEF OwnFaults
    <3> QED BY <1>5, <1>11, <3>1, <3>2, <3>3
  <2>2. threads' = [threads EXCEPT ![t] = [@ EXCEPT !.stage = "ended", !.fault = fault]]
    BY <1>6, <1>11 DEF Advance
  <2> QED BY <1>1, <1>5, <1>11, <2>1, <2>2, FailStep
<1> QED BY <1>10, <1>11

LEMMA LoadModelStep ==
  ASSUME IInv, NEW t \in Threads, LoadModel(t)
  PROVE  IInv'
<1> DEFINE fault == LoadFault[artifact.content]
           w == [threads[t] EXCEPT !.stage = IF t \in Probes THEN "ended" ELSE "infer",
                                   !.loaded = artifact.digest]
<1>1. ThreadOK(t, threads[t]) /\ FilesOK /\ threads[t].stage = "load_model" /\ UNCHANGED files
  BY DEF IInv, LoadModel
<1>2. fault \in PipelineFaults \cup {Raises, None}
  BY <1>1, LoadFaultIs DEF FilesOK
<1>3. CASE fault = None
  <2>1. /\ w \in Thread /\ w.since = threads[t].since /\ w.input = threads[t].input
        /\ w.stage \in {"ended", "infer"} /\ w.manifest = threads[t].manifest
        /\ w.fault = None /\ w.loaded = artifact.digest
    BY <1>1 DEF ThreadOK, Thread, Stages, FilesOK
  <2>2. threads' = [threads EXCEPT ![t] = w]
    BY <1>3 DEF LoadModel, Advance
  <2> HIDE DEF w
  <2>3. ThreadOK(t, w)
    BY <1>1, <1>3, <2>1 DEF ThreadOK, Undisturbed, HasManifest, HasThreshold,
       HasVerified, HasModel, Succeeded
  <2> QED BY <1>1, <2>2, <2>3, ThreadStep
<1>4. CASE fault # None
  <2>1. fault \in DeploymentFaults
    BY DEF DeploymentFaults
  <2>2. threads' = [threads EXCEPT ![t] = [@ EXCEPT !.stage = "ended", !.fault = fault]]
    BY <1>4 DEF LoadModel, Advance
  <2> QED BY <1>1, <1>2, <1>4, <2>1, <2>2, FailStep
<1> QED BY <1>3, <1>4

LEMMA InferStep ==
  ASSUME IInv, NEW t \in Executions, NEW fault \in InferenceFaults \cup {None}, Infer(t, fault)
  PROVE  IInv'
<1> DEFINE w == [threads[t] EXCEPT !.stage = "ended"]
<1>1. ThreadOK(t, threads[t]) /\ FilesOK /\ threads[t].stage = "infer" /\ UNCHANGED files
      /\ t \in Threads
  BY DEF IInv, Infer, Threads
<1>2. CASE fault = None
  <2>1. /\ w \in Thread /\ w.since = threads[t].since /\ w.input = threads[t].input
        /\ w.stage = "ended" /\ w.manifest = threads[t].manifest
        /\ w.fault = None /\ w.loaded = threads[t].loaded
    BY <1>1 DEF ThreadOK, Thread, Stages
  <2>2. threads' = [threads EXCEPT ![t] = w]
    BY <1>2 DEF Infer, Advance
  <2> HIDE DEF w
  <2>3. ThreadOK(t, w)
    BY <1>1, <2>1 DEF ThreadOK, Undisturbed, HasManifest, HasThreshold,
       HasVerified, HasModel, Succeeded
  <2> QED BY <1>1, <2>2, <2>3, ThreadStep
<1>3. CASE fault # None
  <2>1. fault \in OwnFaults(threads[t])
    BY <1>3 DEF OwnFaults
  <2>2. threads' = [threads EXCEPT ![t] = [@ EXCEPT !.stage = "ended", !.fault = fault]]
    BY <1>3 DEF Infer, Advance
  <2> QED BY <1>1, <1>3, <2>1, <2>2, FailStep
<1> QED BY <1>2, <1>3

\* A replaced file disturbs every thread there is.
LEMMA DeployStep ==
  ASSUME IInv, Deploy
  PROVE  IInv'
<1>1. FilesOK' /\ deploys' = deploys + 1 /\ deploys \in Nat /\ UNCHANGED threads
  BY PipelineAssumption DEF IInv, FilesOK, Deploy
<1>2. ASSUME NEW t \in Threads PROVE ThreadOK(t, threads[t])'
  <2>1. ThreadOK(t, threads[t]) /\ threads[t].since \in Nat
    BY DEF IInv, ThreadOK, Thread
  <2>2. threads[t].since <= deploys' /\ threads[t].since # deploys'
    BY <1>1, <2>1 DEF ThreadOK
  <2> QED BY <1>1, <2>1, <2>2 DEF ThreadOK, Thread, HasManifest, HasVerified, Succeeded
<1> QED BY <1>1, <1>2 DEF IInv

LEMMA NextStep ==
  ASSUME IInv, [Next]_vars
  PROVE  IInv'
<1>1. ASSUME NEW x \in Executions, NEW i \in Inputs, Start(x, i) PROVE IInv'
  BY <1>1, StartStep DEF Threads
<1>2. ASSUME NEW p \in Probes, Start(p, None) PROVE IInv'
  <2>1. p \in Threads /\ p \notin Executions
    BY PipelineAssumption DEF Threads
  <2> QED BY <1>2, <2>1, StartStep
<1>3. ASSUME NEW t \in Threads, Read(t) PROVE IInv'
  BY <1>3, LoadManifestStep, ThresholdStep, VerifyStep, LoadModelStep DEF Read
<1>4. ASSUME NEW x \in Executions, NEW fault \in InferenceFaults \cup {None}, Infer(x, fault)
      PROVE  IInv'
  BY <1>4, InferStep
<1>5. CASE UNCHANGED vars
  BY <1>5 DEF vars, IInv, FilesOK, ThreadOK, Undisturbed, DeploymentFaults, OwnFaults, Thread,
     HasManifest, HasThreshold, HasVerified, HasModel, Succeeded
<1> QED BY <1>1, <1>2, <1>3, <1>4, <1>5, DeployStep DEF Next, Terminating

LEMMA InitHolds == Init => IInv
<1> SUFFICES ASSUME Init PROVE IInv
  OBVIOUS
<1>1. FilesOK
  BY PipelineAssumption DEF Init, FilesOK
<1>2. Idle \in Thread /\ Idle.stage = "idle" /\ Idle.fault = None /\ Idle.since = 0
  BY DEF Idle, Thread, Stages
<1>3. threads = [t \in Threads |-> Idle] /\ deploys = 0
  BY DEF Init
<1> HIDE DEF Idle
<1>4. ASSUME NEW t \in Threads PROVE ThreadOK(t, threads[t])
  BY <1>2, <1>3 DEF ThreadOK, Undisturbed, HasManifest, HasThreshold, HasVerified, HasModel,
     Succeeded
<1> QED BY <1>1, <1>2, <1>3, <1>4 DEF IInv

LEMMA Invariance == Spec => []IInv
BY InitHolds, NextStep, PTL DEF Spec

-----------------------------------------------------------------------------
\* The files and the locals of every thread keep their types: a thread that
\* ends with a fault ends with a reason code of the runtime or an exception.
THEOREM PipelineTypeCorrect == Spec => []TypeOK
<1>1. IInv => TypeOK
  BY DEF IInv, FilesOK, TypeOK
<1> QED BY <1>1, Invariance, PTL

LEMMA VerifiedByInv == IInv => InferenceIsVerified
<1>1. ASSUME IInv, NEW x \in Executions,
             threads[x].stage = "infer" \/ (threads[x].stage = "ended" /\ threads[x].fault = None)
      PROVE  LET run == threads[x]
                 pinned == RequestFromManifest(run.manifest)
             IN /\ run.manifest.form = "published" /\ run.manifest.compatible
                /\ \A field \in DOMAIN pinned : run.input[field] = pinned[field]
                /\ \A k \in DOMAIN run.input.values : run.input.values[k] = "valid"
                /\ run.since = deploys =>
                     /\ run.loaded = run.input.modelArtifactDigest
                     /\ thresholds.value[run.input.thresholdVersion] = "in_unit_interval"
  <2> DEFINE run == threads[x]
             pinned == RequestFromManifest(run.manifest)
  <2>1. ThreadOK(x, run) /\ x \in Threads /\ FilesOK
    BY <1>1 DEF IInv, Threads
  <2> HIDE DEF run
  <2>2. run.stage = "infer" \/ (run.stage = "ended" /\ run.fault = None)
    BY <1>1 DEF run
  <2>3. run.input \in Inputs /\ InputFault(run.input, run.manifest) = None
        /\ FeatureFault(run.input) = None
        /\ run.manifest.form = "published" /\ run.manifest.compatible
    BY <2>1, <2>2 DEF ThreadOK, HasManifest, HasVerified, Succeeded
  <2>4. \A k \in DOMAIN run.input.values : run.input.values[k] = "valid"
    BY <2>3, FeatureFaultIs
  <2>5. /\ run.input.modelVersion = run.manifest.modelVersion
        /\ run.input.featureSchemaVersion = run.manifest.featureSchemaVersion
        /\ run.input.preprocessingVersion = run.manifest.preprocessingVersion
        /\ run.input.thresholdVersion = run.manifest.thresholdVersion
        /\ run.input.modelArtifactDigest = run.manifest.modelBinaryArtifactDigest
    BY <2>3, InputFaultIs
  <2>6. \A field \in DOMAIN pinned : run.input[field] = pinned[field]
    BY <2>5 DEF RequestFromManifest
  <2>7. ASSUME run.since = deploys
        PROVE  /\ run.loaded = run.input.modelArtifactDigest
               /\ thresholds.value[run.input.thresholdVersion] = "in_unit_interval"
    <3>1. /\ run.manifest = manifest /\ run.loaded = artifact.digest
          /\ ThresholdFault(thresholds, manifest.thresholdVersion) = None
          /\ ArtifactFault(manifest, artifact) = None
      BY <2>1, <2>2, <2>7 DEF ThreadOK, Undisturbed, HasManifest, HasThreshold, HasVerified,
         HasModel, Succeeded
    <3>2. thresholds.value[manifest.thresholdVersion] = "in_unit_interval"
          /\ artifact.digest = manifest.modelBinaryArtifactDigest
      BY <2>1, <3>1, ThresholdFaultIs, ArtifactFaultIs DEF FilesOK
    <3> QED BY <2>5, <3>1, <3>2
  <2> QED BY <2>3, <2>4, <2>6, <2>7 DEF run
<1> QED BY <1>1 DEF InferenceIsVerified

\* Nothing is inferred on trust, whatever is deployed under a running request:
\* the checks of load_manifest(), verify_manifest_request() and
\* validate_and_prepare_features() are behind an execution that infers, and
\* unless a file was replaced the model and the threshold are those it pinned.
THEOREM InferenceIsVerifiedHolds == Spec => []InferenceIsVerified
BY VerifiedByInv, Invariance, PTL

\* readiness() and run() agree: while no file is replaced, an execution fails
\* after a successful probe only for its own request or in inference, and none
\* succeeds after a failed one.
THEOREM ReadinessAgreesHolds == Spec => []ReadinessAgrees
<1>1. ASSUME IInv, NEW p \in Probes, NEW x \in Executions,
             EndedUndisturbed(p), EndedUndisturbed(x)
      PROVE  LET i == threads[x].input
             IN IF threads[p].fault = None
                THEN threads[x].fault \in
                       {None, InputFault(i, manifest), FeatureFault(i)} \cup InferenceFaults
                ELSE threads[x].fault # None
  <2>1. /\ Undisturbed(p, threads[p]) /\ threads[p].stage = "ended"
        /\ Undisturbed(x, threads[x]) /\ threads[x].stage = "ended"
        /\ p \notin Executions
    BY <1>1, PipelineAssumption DEF IInv, Threads, ThreadOK, EndedUndisturbed
  <2>2. ASSUME NEW t \in Threads, Undisturbed(t, threads[t]), threads[t].stage = "ended",
               threads[t].fault = None
        PROVE  DeploymentOK
    BY <2>2 DEF Undisturbed, DeploymentOK, HasManifest, HasThreshold, HasVerified, HasModel,
       Succeeded
  <2>3. CASE threads[p].fault = None
    <3>1. DeploymentOK
      BY <2>1, <2>2, <2>3 DEF Threads
    <3>2. threads[x].fault = None \/ threads[x].fault \in OwnFaults(threads[x])
      BY <2>1, <3>1 DEF Undisturbed, DeploymentOK, DeploymentFaults
    <3> QED BY <2>3, <3>2 DEF OwnFaults
  <2>4. CASE threads[p].fault # None
    <3>1. ~ DeploymentOK
      BY <2>1, <2>4 DEF Undisturbed, DeploymentOK, DeploymentFaults
    <3> QED BY <2>1, <2>2, <2>4, <3>1 DEF Threads
  <2> QED BY <2>3, <2>4
<1>2. IInv => ReadinessAgrees
  BY <1>1 DEF ReadinessAgrees
<1> QED BY <1>2, Invariance, PTL

=============================================================================
