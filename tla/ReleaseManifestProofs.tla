----------------------- MODULE ReleaseManifestProofs -----------------------
(***************************************************************************)
(* Proofs about ReleaseManifest, for any models, template flaws and        *)
(* arguments, any number of materializer runs and readiness probes.        *)
(***************************************************************************)
EXTENDS ReleaseManifest, TLAPS

-----------------------------------------------------------------------------
(***************************************************************************)
(* The inductive invariant.                                                *)
(***************************************************************************)

\* A template the training script completed names a model it had completely
\* written before: the artifact is written, closed and digested first.
SoundTemplate == [model : Models, flaw : Flaws \cup {None}]

FilesOK ==
  files \in [artifact : Models \cup {Torn, None}, template : SoundTemplate \cup {Torn, None},
             thresholds : {"whole", Torn, None}]

TrainerOK ==
  /\ trainer \in [writes : 0..6, model : Models \cup {None}, digest : Models \cup {Torn, None}]
  /\ trainer.writes # 0 => trainer.model \in Models
  /\ trainer.writes > 2 => trainer.digest \in Models

Run == [stage : {"idle", "checked", "verified", "written", "ended"},
        manifest : Template \cup {None}, expected : Models \cup {None}]

\* A run holds a template that passed Check, and Verify after that.
RunOK(run) ==
  /\ run \in Run
  /\ run.stage \in {"checked", "verified", "written"} =>
       run.manifest \in SoundTemplate /\ run.manifest.flaw \in {None, "remote_reference"}
  /\ run.stage \in {"verified", "written"} => run.manifest.flaw = None

ReleasesOK == release \in [Releases -> Run] /\ \A r \in Releases : RunOK(release[r])

PublishedOK == published \in [model : Models, flaw : {None}] \cup {None}

IInv == FilesOK /\ TrainerOK /\ ReleasesOK /\ PublishedOK /\ deploys \in 0..MaxWrites

-----------------------------------------------------------------------------
(***************************************************************************)
(* The invariant is kept.                                                  *)
(***************************************************************************)
LEMMA InitHolds == Init => IInv
<1> SUFFICES ASSUME Init PROVE IInv
  OBVIOUS
<1>1. FilesOK /\ TrainerOK /\ PublishedOK /\ deploys \in 0..MaxWrites
  BY ReleaseAssumption DEF Init, FilesOK, TrainerOK, PublishedOK, SoundTemplate, Untrained
<1>2. ReleasesOK
  <2>1. Unchecked \in Run /\ Unchecked.stage = "idle"
    BY DEF Unchecked, Run
  <2> QED BY <2>1 DEF Init, ReleasesOK, RunOK
<1> QED BY <1>1, <1>2 DEF IInv

\* What a run of the materializer makes of its own state.
LEMMA RunStep ==
  ASSUME ReleasesOK, NEW r \in Releases, NEW run, RunOK(run),
         release' = [release EXCEPT ![r] = run]
  PROVE  ReleasesOK'
<1>1. run \in Run
  BY DEF RunOK
<1>2. release' \in [Releases -> Run]
  BY <1>1 DEF ReleasesOK
<1>3. ASSUME NEW s \in Releases PROVE RunOK(release'[s])
  BY DEF ReleasesOK
<1>4. ASSUME NEW s \in Releases PROVE RunOK(release[s])'
  BY <1>3 DEF RunOK
<1> QED BY <1>2, <1>4 DEF ReleasesOK

LEMMA OverStep ==
  ASSUME ReleasesOK, NEW r \in Releases, Over(r)
  PROVE  ReleasesOK'
<1> DEFINE run == [Unchecked EXCEPT !.stage = "ended"]
<1>1. RunOK(run)
  BY DEF RunOK, Run, Unchecked
<1>2. release' = [release EXCEPT ![r] = run]
  BY DEF Over
<1> HIDE DEF run
<1> QED BY <1>1, <1>2, RunStep

LEMMA CountedStep ==
  ASSUME deploys \in 0..MaxWrites, Counted
  PROVE  deploys' \in 0..MaxWrites
BY ReleaseAssumption DEF Counted

\* The digest that enters a template is taken between save_model(), which has
\* completed the artifact, and write_text() of the template.
LEMMA TrainerStepKeeps ==
  ASSUME IInv, TrainerStep
  PROVE  IInv'
<1>1. FilesOK /\ TrainerOK /\ ReleasesOK /\ PublishedOK /\ deploys \in 0..MaxWrites
  BY DEF IInv
<1>2. ASSUME NEW name, NEW content, Writes(name, content),
             \/ name = "artifact" /\ content \in Models \cup {Torn}
             \/ name = "template" /\ content \in SoundTemplate \cup {Torn}
             \/ name = "thresholds" /\ content \in {"whole", Torn},
             name = "artifact" /\ trainer.writes = 2 => content \in Models,
             name = "artifact" <=> trainer.writes \in {1, 2},
             trainer.writes \in 1..6
      PROVE  IInv'
  <2>1. FilesOK'
    BY <1>1, <1>2 DEF Writes, FilesOK
  <2>2. TrainerOK'
    <3>1. CASE trainer.writes = 6
      BY <1>2, <3>1 DEF Writes, TrainerOK, Untrained
    <3>2. CASE trainer.writes \in 1..5
      <4> DEFINE digest == IF name = "artifact" THEN content ELSE trainer.digest
      <4>1. trainer' = [trainer EXCEPT !.writes = @ + 1, !.digest = digest]
        BY <1>2, <3>2 DEF Writes
      <4>2. digest \in Models \cup {Torn, None} /\ (trainer.writes \in 2..5 => digest \in Models)
        BY <1>1, <1>2, <3>2 DEF TrainerOK
      <4>3. trainer.model \in Models
        BY <1>1, <3>2 DEF TrainerOK
      <4> HIDE DEF digest
      <4>4. trainer' = [writes |-> trainer.writes + 1, model |-> trainer.model,
                        digest |-> digest]
        BY <1>1, <4>1 DEF TrainerOK
      <4>5. trainer.writes + 1 \in 0..6 /\ (trainer.writes + 1 > 2 => trainer.writes \in 2..5)
        BY <3>2
      <4> QED BY <4>2, <4>3, <4>4, <4>5 DEF TrainerOK
    <3> QED BY <1>2, <3>1, <3>2
  <2>3. deploys' \in 0..MaxWrites
    BY <1>1, <1>2, CountedStep DEF Writes
  <2> QED BY <1>1, <1>2, <2>1, <2>2, <2>3
       DEF Writes, IInv, ReleasesOK, RunOK, PublishedOK
<1>3. trainer.writes # 0 => trainer.model \in Models
  BY <1>1 DEF TrainerOK
<1>4. trainer.writes = 4 => [model |-> trainer.digest, flaw |-> None] \in SoundTemplate
  BY <1>1 DEF TrainerOK, SoundTemplate
<1> QED BY <1>2, <1>3, <1>4 DEF TrainerStep

LEMMA CheckStep ==
  ASSUME IInv, NEW r \in Releases, NEW argument \in Arguments, Check(r, argument)
  PROVE  IInv'
<1> DEFINE run == [stage |-> "checked", manifest |-> files.template,
                   expected |-> argument.expectedDigest]
<1>1. ReleasesOK'
  <2>1. CASE Refused(files.template, argument)
    BY <2>1, OverStep DEF Check, IInv
  <2>2. CASE ~ Refused(files.template, argument)
    <3>1. files.template \in SoundTemplate /\ files.template.flaw \in {None, "remote_reference"}
      BY <2>2 DEF Refused, IInv, FilesOK
    <3>2. files.template \in Template
      BY <3>1 DEF SoundTemplate, Template
    <3>3. RunOK(run)
      BY <3>1, <3>2, ReleaseAssumption DEF RunOK, Run
    <3>4. release' = [release EXCEPT ![r] = run]
      BY <2>2 DEF Check
    <3> HIDE DEF run
    <3> QED BY <3>3, <3>4, RunStep DEF IInv
  <2> QED BY <2>1, <2>2
<1> QED BY <1>1 DEF Check, IInv, FilesOK, TrainerOK, PublishedOK

\* Verify lets no remote reference pass.
LEMMA VerifyStep ==
  ASSUME IInv, NEW r \in Releases, Verify(r)
  PROVE  IInv'
<1> DEFINE run == [release[r] EXCEPT !.stage = "verified"]
<1>1. ReleasesOK'
  <2>1. CASE Over(r)
    BY <2>1, OverStep DEF IInv
  <2>2. CASE ArtifactVerified(r) /\ release' = [release EXCEPT ![r].stage = "verified"]
    <3>1. release' = [release EXCEPT ![r] = run]
      BY <2>2 DEF IInv, ReleasesOK
    <3>2. RunOK(release[r]) /\ release[r].stage = "checked"
      BY DEF IInv, ReleasesOK, Verify
    <3>3. RunOK(run)
      BY <2>2, <3>2 DEF RunOK, Run, ArtifactVerified
    <3> HIDE DEF run
    <3> QED BY <3>1, <3>3, RunStep DEF IInv
  <2> QED BY <2>1, <2>2 DEF Verify
<1> QED BY <1>1 DEF Verify, IInv, FilesOK, TrainerOK, PublishedOK

LEMMA WriteTemporaryStep ==
  ASSUME IInv, NEW r \in Releases, WriteTemporary(r)
  PROVE  IInv'
<1> DEFINE run == [release[r] EXCEPT !.stage = "written"]
<1>1. release' = [release EXCEPT ![r] = run]
  BY DEF IInv, ReleasesOK, WriteTemporary
<1>2. RunOK(release[r]) /\ release[r].stage = "verified"
  BY DEF IInv, ReleasesOK, WriteTemporary
<1>3. RunOK(run)
  BY <1>2 DEF RunOK, Run
<1> HIDE DEF run
<1>4. ReleasesOK'
  BY <1>1, <1>3, RunStep DEF IInv
<1> QED BY <1>4 DEF WriteTemporary, IInv, FilesOK, TrainerOK, PublishedOK

LEMMA ReplaceStep ==
  ASSUME IInv, NEW r \in Releases, Replace(r)
  PROVE  IInv'
<1>1. ReleasesOK'
  BY OverStep DEF IInv, Replace
<1>2. RunOK(release[r]) /\ release[r].stage = "written"
  BY DEF IInv, ReleasesOK, Replace
<1>3. release[r].manifest \in [model : Models, flaw : {None}]
  BY <1>2 DEF RunOK, SoundTemplate
<1>4. PublishedOK'
  BY <1>3 DEF Replace, PublishedOK
<1>5. deploys' \in 0..MaxWrites
  BY CountedStep DEF IInv, Replace
<1> QED BY <1>1, <1>4, <1>5 DEF Replace, IInv, FilesOK, TrainerOK

LEMMA NextStep ==
  ASSUME IInv, [Next]_vars
  PROVE  IInv'
<1>1. ASSUME NEW m \in Models, Train(m) PROVE IInv'
  BY <1>1 DEF Train, IInv, FilesOK, TrainerOK, ReleasesOK, RunOK, PublishedOK
<1>2. CASE TrainerStep
  BY <1>2, TrainerStepKeeps
<1>3. CASE TrainerDies
  BY <1>3 DEF TrainerDies, Untrained, IInv, FilesOK, TrainerOK, ReleasesOK, RunOK, PublishedOK
<1>4. ASSUME NEW flaw \in Flaws \cup {None}, Edit(flaw) PROVE IInv'
  <2>1. files.template \in SoundTemplate
    BY <1>4 DEF Edit, IInv, FilesOK
  <2>2. files' = [files EXCEPT !.template = [files.template EXCEPT !.flaw = flaw]]
    BY <1>4 DEF Edit, IInv, FilesOK
  <2>3. [files.template EXCEPT !.flaw = flaw] \in SoundTemplate
    BY <2>1 DEF SoundTemplate
  <2>4. FilesOK'
    BY <2>2, <2>3 DEF IInv, FilesOK
  <2> QED BY <1>4, <2>4 DEF Edit, IInv, TrainerOK, ReleasesOK, RunOK, PublishedOK
<1>5. ASSUME NEW r \in Releases, ReleaseDies(r) PROVE IInv'
  BY <1>5, OverStep DEF ReleaseDies, IInv, FilesOK, TrainerOK, PublishedOK
<1>6. ASSUME NEW p \in Probes, Probe(p) PROVE IInv'
  BY <1>6 DEF Probe, scripts, Pipeline!Start, Pipeline!Read, Pipeline!LoadManifest,
     Pipeline!Threshold, Pipeline!Verify, Pipeline!LoadModel, Pipeline!files,
     IInv, FilesOK, TrainerOK, ReleasesOK, RunOK, PublishedOK
<1>7. CASE UNCHANGED vars
  BY <1>7 DEF vars, IInv, FilesOK, TrainerOK, ReleasesOK, RunOK, PublishedOK
<1> QED BY <1>1, <1>2, <1>3, <1>4, <1>5, <1>6, <1>7, CheckStep, VerifyStep,
        WriteTemporaryStep, ReplaceStep DEF Next

LEMMA Invariance == Spec => []IInv
BY InitHolds, NextStep, PTL DEF Spec

-----------------------------------------------------------------------------
\* The files, the scripts' locals and what is published keep their types.
THEOREM ReleaseTypeCorrect == Spec => []TypeOK
<1>1. IInv => TypeOK
  BY DEF IInv, FilesOK, TrainerOK, ReleasesOK, Run, PublishedOK, TypeOK, Template, SoundTemplate
<1> QED BY <1>1, Invariance, PTL

\* os.replace() publishes nothing but what _materialize() has verified: never a
\* torn file, a flawed template or a model that was not completely written,
\* whichever script dies when and however many run at once.
THEOREM OnlySoundManifestsHolds == Spec => []OnlySoundManifests
<1>1. [model : Models, flaw : {None}] \subseteq Template
  BY DEF Template
<1>2. IInv => OnlySoundManifests
  BY <1>1, ReleaseAssumption DEF IInv, PublishedOK, OnlySoundManifests
<1> QED BY <1>2, Invariance, PTL

-----------------------------------------------------------------------------
(***************************************************************************)
(* To the Runtime a script replaces at most one file per step.             *)
(***************************************************************************)
LEMMA Parts ==
  /\ Pipeline!Threads = Probes
  /\ IInv =>
       /\ ManifestSeen(published) \in {ManifestSeen(c) : c \in Template \cup {Torn, None}}
       /\ ThresholdsSeen(files.thresholds) \in {ThresholdsSeen(c) : c \in {"whole", Torn, None}}
       /\ ArtifactSeen(files.artifact) \in {ArtifactSeen(c) : c \in Models \cup {Torn, None}}
<1>1. Pipeline!Threads = Probes
  BY DEF Pipeline!Threads
<1>2. ASSUME IInv
      PROVE  /\ published \in Template \cup {Torn, None}
             /\ files.thresholds \in {"whole", Torn, None}
             /\ files.artifact \in Models \cup {Torn, None}
  BY <1>2 DEF IInv, PublishedOK, FilesOK, Template
<1> QED BY <1>1, <1>2

\* One file of the three has changed, or none, and that is counted.
LEMMA DeployOrStutter ==
  ASSUME IInv, IInv', Counted, UNCHANGED threads,
         \/ UNCHANGED <<ThresholdsSeen(files.thresholds), ArtifactSeen(files.artifact)>>
         \/ UNCHANGED <<ManifestSeen(published), ArtifactSeen(files.artifact)>>
         \/ UNCHANGED <<ManifestSeen(published), ThresholdsSeen(files.thresholds)>>
  PROVE  [Pipeline!Next]_(Pipeline!vars)
<1>1. CASE seen' = seen
  BY <1>1 DEF Counted, seen, Pipeline!vars
<1>2. CASE seen' # seen
  <2>1. deploys < MaxWrites /\ deploys' = deploys + 1
    <3>1. deploys' = deploys + 1 /\ deploys' <= MaxWrites
      BY <1>2 DEF Counted
    <3>2. deploys \in 0..MaxWrites
      BY DEF IInv
    <3> QED BY <3>1, <3>2, ReleaseAssumption
  <2>2. /\ ManifestSeen(published)' \in {ManifestSeen(c) : c \in Template \cup {Torn, None}}
        /\ ThresholdsSeen(files.thresholds)' \in
             {ThresholdsSeen(c) : c \in {"whole", Torn, None}}
        /\ ArtifactSeen(files.artifact)' \in {ArtifactSeen(c) : c \in Models \cup {Torn, None}}
    <3>1. /\ published' \in Template \cup {Torn, None}
          /\ files'.thresholds \in {"whole", Torn, None}
          /\ files'.artifact \in Models \cup {Torn, None}
      BY DEF IInv, PublishedOK, FilesOK, Template
    <3> QED BY <3>1 DEF ManifestSeen, ThresholdsSeen, ArtifactSeen
  <2>3. \/ ManifestSeen(published)' # ManifestSeen(published)
        \/ ThresholdsSeen(files.thresholds)' # ThresholdsSeen(files.thresholds)
        \/ ArtifactSeen(files.artifact)' # ArtifactSeen(files.artifact)
    BY <1>2 DEF seen
  <2>4. Pipeline!Deploy
    BY <2>1, <2>2, <2>3 DEF Pipeline!Deploy
  <2> QED BY <2>4 DEF Pipeline!Next
<1> QED BY <1>1, <1>2

LEMMA InitImplemented == Init => Pipeline!Init
<1> SUFFICES ASSUME Init PROVE Pipeline!Init
  OBVIOUS
<1>1. threads = [t \in Pipeline!Threads |-> Pipeline!Idle] /\ deploys = 0
  BY Parts DEF Init, Pipeline!Idle
<1>2. IInv
  BY InitHolds
<1> QED BY <1>1, <1>2, Parts DEF Pipeline!Init

LEMMA StepImplemented ==
  ASSUME IInv, IInv', [Next]_vars
  PROVE  [Pipeline!Next]_(Pipeline!vars)
<1>1. ASSUME UNCHANGED <<files, published, deploys, threads>>
      PROVE  UNCHANGED Pipeline!vars
  BY <1>1 DEF Pipeline!vars, ManifestSeen, ThresholdsSeen, ArtifactSeen
<1>2. ASSUME NEW name, NEW content, Writes(name, content), name \in {"artifact", "template", "thresholds"}
      PROVE  [Pipeline!Next]_(Pipeline!vars)
  <2>1. Counted /\ UNCHANGED <<published, threads>>
    BY <1>2 DEF Writes
  <2>2. files'.artifact = files.artifact \/ files'.thresholds = files.thresholds
    BY <1>2 DEF Writes, IInv, FilesOK
  <2>3. UNCHANGED ManifestSeen(published)
    BY <2>1 DEF ManifestSeen
  <2>4. UNCHANGED ArtifactSeen(files.artifact) \/ UNCHANGED ThresholdsSeen(files.thresholds)
    BY <2>2 DEF ArtifactSeen, ThresholdsSeen
  <2> QED BY <2>1, <2>3, <2>4, DeployOrStutter
<1>3. CASE TrainerStep
  BY <1>2, <1>3 DEF TrainerStep
<1>4. ASSUME NEW r \in Releases, Replace(r) PROVE [Pipeline!Next]_(Pipeline!vars)
  <2>1. Counted /\ UNCHANGED <<files, threads>>
    BY <1>4 DEF Replace
  <2>2. UNCHANGED <<ThresholdsSeen(files.thresholds), ArtifactSeen(files.artifact)>>
    BY <2>1 DEF ThresholdsSeen, ArtifactSeen
  <2> QED BY <2>1, <2>2, DeployOrStutter
<1>5. ASSUME NEW flaw \in Flaws \cup {None}, Edit(flaw) PROVE UNCHANGED Pipeline!vars
  <2>1. files'.artifact = files.artifact /\ files'.thresholds = files.thresholds
    BY <1>5 DEF Edit, IInv, FilesOK
  <2> QED BY <1>5, <2>1 DEF Edit, Pipeline!vars, ManifestSeen, ThresholdsSeen, ArtifactSeen
<1>6. ASSUME NEW p \in Probes, Probe(p) PROVE Pipeline!Next
  BY <1>6, Parts DEF Probe, Pipeline!Next
<1>7. ASSUME NEW r \in Releases,
             Verify(r) \/ WriteTemporary(r) \/ ReleaseDies(r)
               \/ (\E argument \in Arguments : Check(r, argument))
      PROVE  UNCHANGED Pipeline!vars
  BY <1>1, <1>7 DEF Verify, WriteTemporary, ReleaseDies, Check
<1>8. CASE TrainerDies \/ (\E m \in Models : Train(m)) \/ UNCHANGED vars
  BY <1>1, <1>8 DEF TrainerDies, Train, vars
<1> QED BY <1>3, <1>4, <1>5, <1>6, <1>7, <1>8 DEF Next

\* Training and releasing implement the replaced files of ModelPipeline: what
\* the Runtime is proved to do with any deployment it does with these.
THEOREM ReleaseImplementsPipeline == Spec => KeepsPipeline
<1>1. IInv /\ IInv' /\ [Next]_vars => [Pipeline!Next]_(Pipeline!vars)
  BY StepImplemented
<1> QED BY <1>1, InitImplemented, Invariance, PTL DEF Spec, KeepsPipeline, Pipeline!Spec

-----------------------------------------------------------------------------
(***************************************************************************)
(* What is proved of ModelPipeline, for the files the scripts leave.       *)
(***************************************************************************)
Facts == INSTANCE ModelPipelineProofs WITH
  Executions <- {}, Inputs <- {}, InferenceFaults <- {}, MaxDeploys <- MaxWrites,
  Manifests <- {ManifestSeen(c) : c \in Template \cup {Torn, None}},
  ThresholdFiles <- {ThresholdsSeen(c) : c \in {"whole", Torn, None}},
  Artifacts <- {ArtifactSeen(c) : c \in Models \cup {Torn, None}},
  manifest <- ManifestSeen(published),
  thresholds <- ThresholdsSeen(files.thresholds),
  artifact <- ArtifactSeen(files.artifact)

\* Whatever is at its place, the Runtime takes it for one of the forms of
\* ModelPipeline.
LEMMA PipelineMet ==
  /\ {} \cap Probes = {}
  /\ MaxWrites \in Nat
  /\ None \notin Facts!PipelineFaults \cup {} \cup {Facts!Raises}
  /\ \A m \in {ManifestSeen(c) : c \in Template \cup {Torn, None}} :
       m.form \in Facts!ManifestForms
  /\ \A f \in {ThresholdsSeen(c) : c \in {"whole", Torn, None}} :
       f.form \in {"missing", "unreadable", "not_json", "not_object", "object"}
  /\ \A a \in {ArtifactSeen(c) : c \in Models \cup {Torn, None}} :
       a.content \in DOMAIN Facts!LoadFault
  /\ \A i \in {} : i.values \in Seq(DOMAIN Facts!ValueFault)
BY ReleaseAssumption, FaultAssumption
   DEF Pipeline!Raises, Facts!Raises, Pipeline!PipelineFaults, Facts!PipelineFaults,
       Facts!ManifestForms, Facts!LoadFault, ManifestSeen, ThresholdsSeen, ArtifactSeen

LEMMA SameChecks ==
  /\ \A checks : Pipeline!FirstFault(checks) = Facts!FirstFault(checks)
  /\ \A m : Pipeline!ManifestFault(m) = Facts!ManifestFault(m)
  /\ \A f, version : Pipeline!ThresholdFault(f, version) = Facts!ThresholdFault(f, version)
  /\ \A i, m : Pipeline!InputFault(i, m) = Facts!InputFault(i, m)
  /\ \A m, a : Pipeline!ArtifactFault(m, a) = Facts!ArtifactFault(m, a)
  /\ \A i : Pipeline!FeatureFault(i) = Facts!FeatureFault(i)
  /\ Pipeline!LoadFault = Facts!LoadFault
<1>1. \A checks : Pipeline!FirstFault(checks) = Facts!FirstFault(checks)
  BY DEF Pipeline!FirstFault, Facts!FirstFault
<1>2. /\ Pipeline!Raises = Facts!Raises /\ Pipeline!ValueFault = Facts!ValueFault
      /\ Pipeline!LoadFault = Facts!LoadFault
  BY DEF Pipeline!Raises, Facts!Raises, Pipeline!ValueFault, Facts!ValueFault,
     Pipeline!LoadFault, Facts!LoadFault
<1> QED BY <1>1, <1>2
     DEF Pipeline!ManifestFault, Facts!ManifestFault, Pipeline!ThresholdFault,
         Facts!ThresholdFault, Pipeline!InputFault, Facts!InputFault, Pipeline!ArtifactFault,
         Facts!ArtifactFault, Pipeline!FeatureFault, Facts!FeatureFault,
         Pipeline!FEATURE_SCHEMA_VERSION, Facts!FEATURE_SCHEMA_VERSION,
         Pipeline!PREPROCESSING_VERSION, Facts!PREPROCESSING_VERSION

LEMMA SameStep == [Pipeline!Next]_(Pipeline!vars) => [Facts!Next]_(Facts!vars)
<1>1. UNCHANGED Pipeline!files <=> UNCHANGED Facts!files
  BY DEF Pipeline!files, Facts!files
<1>2. \A t, fault, next : Pipeline!Advance(t, fault, next) <=> Facts!Advance(t, fault, next)
  BY DEF Pipeline!Advance, Facts!Advance
<1>3. Pipeline!Threads = Facts!Threads
  BY DEF Pipeline!Threads, Facts!Threads
<1>4. ASSUME NEW p \in Probes, Pipeline!Start(p, None) PROVE Facts!Next
  <2>1. Facts!Start(p, None)
    BY <1>1, <1>4 DEF Pipeline!Start, Facts!Start
  <2> QED BY <2>1 DEF Facts!Next
<1>5. ASSUME NEW t \in Pipeline!Threads, Pipeline!Read(t) PROVE Facts!Next
  <2>1. Facts!Read(t)
    <3>1. CASE Pipeline!LoadManifest(t)
      BY <1>1, <1>2, <3>1, SameChecks DEF Pipeline!LoadManifest, Facts!LoadManifest, Facts!Read
    <3>2. CASE Pipeline!Threshold(t)
      BY <1>1, <1>2, <3>2, SameChecks DEF Pipeline!Threshold, Facts!Threshold, Facts!Read
    <3>3. CASE Pipeline!Verify(t)
      <4>1. Facts!Verify(t)
        BY <1>1, <1>2, <3>3, SameChecks, Zenon
           DEF Pipeline!Verify, Facts!Verify, Pipeline!RequestFromManifest,
               Facts!RequestFromManifest
      <4> QED BY <4>1 DEF Facts!Read
    <3>4. CASE Pipeline!LoadModel(t)
      BY <1>1, <1>2, <3>4, SameChecks DEF Pipeline!LoadModel, Facts!LoadModel, Facts!Read
    <3> QED BY <1>5, <3>1, <3>2, <3>3, <3>4 DEF Pipeline!Read
  <2> QED BY <1>3, <2>1 DEF Facts!Next
<1>6. Pipeline!Deploy => Facts!Next
  BY DEF Pipeline!Deploy, Facts!Deploy, Facts!Next
<1>7. UNCHANGED Pipeline!vars => UNCHANGED Facts!vars
  BY DEF Pipeline!vars, Facts!vars
<1> QED BY <1>4, <1>5, <1>6, <1>7 DEF Pipeline!Next, Pipeline!Terminating

\* The pipeline's invariant holds of the probes and of what they see.
LEMMA ProbesInvariance == Spec => []Facts!IInv
<1>1. Init => Facts!IInv
  <2>1. Pipeline!Init => Facts!Init
    BY DEF Pipeline!Init, Facts!Init, Pipeline!Threads, Facts!Threads, Pipeline!Idle, Facts!Idle
  <2> QED BY <2>1, InitImplemented, Facts!InitHolds, PipelineMet
<1>2. IInv /\ IInv' /\ [Next]_vars /\ Facts!IInv => Facts!IInv'
  BY StepImplemented, SameStep, Facts!NextStep, PipelineMet
<1> QED BY <1>1, <1>2, Invariance, PTL DEF Spec

\* What the materializer lets pass fails no check of the manifest and of the
\* artifact.
LEMMA PublishedPasses ==
  ASSUME IInv, SameUser, published # None,
         files.artifact = published.model, published.model \in CompatibleModels
  PROVE  LET m == ManifestSeen(published)
             a == ArtifactSeen(files.artifact)
         IN /\ Facts!ManifestFault(m) = None /\ Facts!ArtifactFault(m, a) = None
            /\ Facts!LoadFault[a.content] = None
<1>1. /\ published \in Template /\ published # Torn /\ published.flaw = None
      /\ published.model \in Models /\ files.artifact # None
  BY ReleaseAssumption DEF IInv, PublishedOK, Template
<1>2. /\ ManifestSeen(published).form = "published" /\ ManifestSeen(published).compatible
      /\ ManifestSeen(published).localReference /\ ManifestSeen(published).xgboostJson
      /\ ManifestSeen(published).modelBinaryArtifactDigest = published.model
  BY <1>1, ReleaseAssumption DEF ManifestSeen
<1>3. /\ ArtifactSeen(files.artifact).form \notin {"missing", "unreadable"}
      /\ Facts!LoadFault[ArtifactSeen(files.artifact).content] = None
      /\ ArtifactSeen(files.artifact).digest = published.model
  BY <1>1 DEF ArtifactSeen, Facts!LoadFault
<1>4. ManifestSeen(published) \in {ManifestSeen(c) : c \in Template \cup {Torn, None}}
  BY <1>1
<1> QED BY <1>2, <1>3, <1>4, Facts!ManifestFaultIs, Facts!ArtifactFaultIs, PipelineMet

\* The Runtime accepts what the materializer published: the checks of the two
\* agree, so that a probe that no write disturbs fails at most for the
\* thresholds while the pinned artifact is in place and its libraries are there.
THEOREM PublishedIsAcceptedHolds == Spec => []PublishedIsAccepted
<1>1. ASSUME IInv, Facts!IInv, NEW p \in Probes,
             EndedUndisturbed(p), SameUser, published # None,
             files.artifact = published.model, published.model \in CompatibleModels
      PROVE  threads[p].fault \in
               {None, Pipeline!ThresholdFault(ThresholdsSeen(files.thresholds),
                                              "threshold.v1.0.0")}
  <2>1. Facts!Undisturbed(p, threads[p])
    BY <1>1 DEF Facts!IInv, Facts!Threads, Facts!ThreadOK, EndedUndisturbed
  <2>2. threads[p].fault # None => threads[p].fault \in Facts!DeploymentFaults
    BY <2>1 DEF Facts!Undisturbed
  <2>3. ManifestSeen(published).thresholdVersion = "threshold.v1.0.0"
    BY DEF ManifestSeen
  <2> QED BY <1>1, <2>2, <2>3, PublishedPasses, SameChecks DEF Facts!DeploymentFaults
<1>2. IInv /\ Facts!IInv => PublishedIsAccepted
  BY <1>1 DEF PublishedIsAccepted
<1> QED BY <1>2, Invariance, ProbesInvariance, PTL

=============================================================================
