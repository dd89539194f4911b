-------------------------- MODULE ReleaseManifest --------------------------
(***************************************************************************)
(* The way a model reaches the Runtime: train_baseline_model.py writes     *)
(* artifact, manifest template and thresholds under artifacts/, in place   *)
(* and one by one; materialize_release_model_manifest.py turns template    *)
(* and artifact into the published manifest, which it renames into place;  *)
(* readiness probes of the Runtime (ModelPipeline) read what is there.     *)
(* Any of the scripts can die between two of its steps.                    *)
(*                                                                         *)
(* A model stands for its artifact file and that file's digest.            *)
(***************************************************************************)
EXTENDS Naturals, Sequences

CONSTANTS
  Models,            \* what training can produce
  CompatibleModels,  \* trained with the XGBoost and SHAP the Runtime has
  Flaws,             \* what an edited template can have wrong with it
  Releases,          \* runs of the materializer
  Arguments,         \* the arguments each can get
  Probes,            \* readiness probes of the Runtime
  ThresholdsBeside,  \* the output directory is that of the thresholds file
  SameUser,          \* the Runtime runs as the user who materialized
  MaxWrites,         \* bound on changes the Runtime can see
  Torn,              \* a file opened for writing, and not yet or never written
  None

VARIABLES
  files,     \* artifact, template and thresholds under artifacts/
  published, \* what is at MODEL_MANIFEST_PATH
  trainer,   \* the training script
  release,   \* each run of the materializer
  deploys, threads  \* of ModelPipeline

scripts == <<files, published, trainer, release>>
vars == <<files, published, trainer, release, deploys, threads>>

Template == [model : Models \cup {Torn}, flaw : Flaws \cup {None}]

ASSUME ReleaseAssumption ==
  /\ CompatibleModels \subseteq Models /\ Torn \notin Models /\ None \notin Models \cup {Torn}
  /\ Torn \notin Template /\ None \notin Template \cup Flaws \cup {"remote_reference"}
  /\ ThresholdsBeside \in BOOLEAN /\ SameUser \in BOOLEAN /\ MaxWrites \in Nat
  /\ \A argument \in Arguments : argument.expectedDigest \in Models \cup {None}

TypeOK ==
  /\ files.artifact \in Models \cup {Torn, None}
  /\ files.template \in Template \cup {Torn, None}
  /\ files.thresholds \in {"whole", Torn, None}
  /\ published \in Template \cup {Torn, None}
  /\ trainer \in [writes : 0..6, model : Models \cup {None}, digest : Models \cup {Torn, None}]
  /\ release \in [Releases ->
       [stage : {"idle", "checked", "verified", "written", "ended"},
        manifest : Template \cup {None}, expected : Models \cup {None}]]

Untrained == [writes |-> 0, model |-> None, digest |-> None]
Unchecked == [stage |-> "idle", manifest |-> None, expected |-> None]

Init ==
  /\ \E m \in Models :
       files = [artifact |-> m, template |-> [model |-> m, flaw |-> None], thresholds |-> "whole"]
  /\ published = None
  /\ trainer = Untrained
  /\ release = [r \in Releases |-> Unchecked]
  /\ deploys = 0
  /\ threads = [p \in Probes |->
       [stage |-> "idle", input |-> None, manifest |-> None, loaded |-> None,
        since |-> 0, fault |-> None]]

-----------------------------------------------------------------------------
(***************************************************************************)
(* What the Runtime sees of the files.  os.replace() keeps the mode of the *)
(* temporary file, which only its owner may read.                          *)
(***************************************************************************)
ManifestSeen(content) ==
  [form |-> IF content = None THEN "missing"
            ELSE IF ~ SameUser THEN "unreadable"
            ELSE IF content = Torn THEN "not_json" ELSE "published",
   compatible |-> content \notin {Torn, None} /\ content.model \in CompatibleModels,
   localReference |-> content \notin {Torn, None} /\ content.flaw # "remote_reference",
   xgboostJson |-> TRUE,
   modelVersion |-> "loan-model.v1.0.0",
   featureSchemaVersion |-> "phase-2-loan-features.v1.0.0",
   preprocessingVersion |-> "preprocess.v1.0.0", thresholdVersion |-> "threshold.v1.0.0",
   modelBinaryArtifactDigest |-> IF content \in {Torn, None} THEN None ELSE content.model]

ThresholdsSeen(content) ==
  [form |-> IF content = None \/ ~ ThresholdsBeside THEN "missing"
            ELSE IF content = Torn THEN "not_json" ELSE "object",
   value |-> [v \in {"threshold.v1.0.0"} |-> "in_unit_interval"]]

ArtifactSeen(content) ==
  [form |-> IF content = None THEN "missing" ELSE "present",
   digest |-> content, content |-> IF content \in Models THEN "model" ELSE "no_model"]

Pipeline == INSTANCE ModelPipeline WITH
  Executions <- {}, Inputs <- {}, InferenceFaults <- {}, MaxDeploys <- MaxWrites,
  Manifests <- {ManifestSeen(c) : c \in Template \cup {Torn, None}},
  ThresholdFiles <- {ThresholdsSeen(c) : c \in {"whole", Torn, None}},
  Artifacts <- {ArtifactSeen(c) : c \in Models \cup {Torn, None}},
  manifest <- ManifestSeen(published),
  thresholds <- ThresholdsSeen(files.thresholds),
  artifact <- ArtifactSeen(files.artifact)

ASSUME FaultAssumption == None \notin Pipeline!PipelineFaults \cup {Pipeline!Raises}

seen == <<ManifestSeen(published), ThresholdsSeen(files.thresholds), ArtifactSeen(files.artifact)>>

\* Counts the changes the Runtime can see.
Counted ==
  /\ deploys' = IF seen' = seen THEN deploys ELSE deploys + 1
  /\ deploys' <= MaxWrites

-----------------------------------------------------------------------------
(***************************************************************************)
(* train_baseline_model.py                                                 *)
(***************************************************************************)
Train(m) ==
  /\ trainer.writes = 0
  /\ trainer' = [writes |-> 1, model |-> m, digest |-> None]
  /\ UNCHANGED <<files, published, release, deploys, threads>>

\* One open or one write of a file; file_digest() follows the artifact's.
Writes(name, content) ==
  /\ files' = [files EXCEPT ![name] = content]
  /\ trainer' = IF trainer.writes = 6 THEN Untrained
                ELSE [trainer EXCEPT !.writes = @ + 1,
                                     !.digest = IF name = "artifact" THEN content ELSE @]
  /\ UNCHANGED <<published, release, threads>>
  /\ Counted

\* save_model() and two write_text() truncate each file before they write it.
TrainerStep ==
  \/ trainer.writes = 1 /\ Writes("artifact", Torn)
  \/ trainer.writes = 2 /\ Writes("artifact", trainer.model)
  \/ trainer.writes = 3 /\ Writes("template", Torn)
  \/ trainer.writes = 4 /\ Writes("template", [model |-> trainer.digest, flaw |-> None])
  \/ trainer.writes = 5 /\ Writes("thresholds", Torn)
  \/ trainer.writes = 6 /\ Writes("thresholds", "whole")

TrainerDies ==
  /\ trainer.writes # 0
  /\ trainer' = Untrained
  /\ UNCHANGED <<files, published, release, deploys, threads>>

\* The template is under source control, where it can be edited.
Edit(flaw) ==
  /\ files.template \notin {Torn, None}
  /\ files' = [files EXCEPT !.template.flaw = flaw]
  /\ UNCHANGED <<published, trainer, release, deploys, threads>>

-----------------------------------------------------------------------------
(***************************************************************************)
(* materialize_release_model_manifest.py                                   *)
(***************************************************************************)
\* Mutant: a template that is missing or half written is taken as it is read.
RefusedIfRead(content, argument) ==
  /\ content \notin {Torn, None}
  /\ \/ content.flaw \notin {None, "remote_reference"}
     \/ argument.imageDigest \in {"malformed", "placeholder", "source_commit"}
     \/ argument.platform \notin {"linux/amd64", "linux/arm64"}
     \/ argument.expectedVersion \notin {None, "loan-model.v1.0.0"}

\* _load_object(), then the template contract, the TEMPLATE marker and the
\* absence of an image digest (Flaws, but for the reference), the arguments.
Refused(content, argument) ==
  \/ content \in {Torn, None}
  \/ content.flaw \notin {None, "remote_reference"}
  \/ argument.imageDigest \in {"malformed", "placeholder", "source_commit"}
  \/ argument.platform \notin {"linux/amd64", "linux/arm64"}
  \/ argument.expectedVersion \notin {None, "loan-model.v1.0.0"}

Over(r) == release' = [release EXCEPT ![r] = [Unchecked EXCEPT !.stage = "ended"]]

Check(r, argument) ==
  /\ release[r].stage = "idle"
  /\ IF Refused(files.template, argument) THEN Over(r)
     ELSE release' = [release EXCEPT ![r] =
            [stage |-> "checked", manifest |-> files.template,
             expected |-> argument.expectedDigest]]
  /\ UNCHANGED <<files, published, trainer, deploys, threads>>

\* Mutant: any reference is taken for a file's.
ArtifactVerifiedAnywhere(r) ==
  /\ files.artifact # None
  /\ files.artifact = release[r].manifest.model
  /\ release[r].expected \in {None, files.artifact}

\* _verify_model_artifact_digest() and the expected digest.
ArtifactVerified(r) ==
  /\ release[r].manifest.flaw # "remote_reference"
  /\ files.artifact # None
  /\ files.artifact = release[r].manifest.model
  /\ release[r].expected \in {None, files.artifact}

\* The published contract, validated last, may refuse what the template's took.
Verify(r) ==
  /\ release[r].stage = "checked"
  /\ \/ Over(r)
     \/ ArtifactVerified(r) /\ release' = [release EXCEPT ![r].stage = "verified"]
  /\ UNCHANGED <<files, published, trainer, deploys, threads>>

WriteTemporary(r) ==
  /\ release[r].stage = "verified"
  /\ release' = [release EXCEPT ![r].stage = "written"]
  /\ UNCHANGED <<files, published, trainer, deploys, threads>>

\* Mutant: the manifest is written at its place.
ReplaceInPlace(r) ==
  /\ release[r].stage = "written"
  /\ published' \in {Torn, release[r].manifest}
  /\ Over(r)
  /\ UNCHANGED <<files, trainer, threads>>
  /\ Counted

\* os.replace()
Replace(r) ==
  /\ release[r].stage = "written"
  /\ published' = release[r].manifest
  /\ Over(r)
  /\ UNCHANGED <<files, trainer, threads>>
  /\ Counted

\* A run that dies after WriteTemporary leaves its temporary file behind.
ReleaseDies(r) ==
  /\ release[r].stage \in {"checked", "verified", "written"}
  /\ Over(r)
  /\ UNCHANGED <<files, published, trainer, deploys, threads>>

-----------------------------------------------------------------------------
\* Mutant: readiness() does not verify the artifact.
ProbeUnverified(p) ==
  /\ UNCHANGED <<scripts, deploys>>
  /\ \/ Pipeline!Start(p, None) \/ Pipeline!Read(p)
     \/ /\ threads[p].stage = "verify"
        /\ threads' = [threads EXCEPT ![p].stage = "load_model"]

\* readiness() of a Runtime that finds the files the scripts have left.
Probe(p) ==
  /\ UNCHANGED scripts
  /\ Pipeline!Start(p, None) \/ Pipeline!Read(p)

Next ==
  \/ \E m \in Models : Train(m)
  \/ TrainerStep
  \/ TrainerDies
  \/ \E flaw \in Flaws \cup {None} : Edit(flaw)
  \/ \E r \in Releases, argument \in Arguments : Check(r, argument)
  \/ \E r \in Releases : Verify(r) \/ WriteTemporary(r) \/ Replace(r) \/ ReleaseDies(r)
  \/ \E p \in Probes : Probe(p)

Spec == Init /\ [][Next]_vars

-----------------------------------------------------------------------------
\* To the Runtime all of this is one file after the other being replaced: what
\* holds of ModelPipeline holds while models are trained and released.
KeepsPipeline == Pipeline!Spec

\* At MODEL_MANIFEST_PATH there is nothing or the whole manifest, made of a sound
\* template, of a model that was completely written, whichever script died when
\* and whatever it was doing to the files meanwhile.
OnlySoundManifests ==
  published # None => published # Torn /\ published.model \in Models /\ published.flaw = None

EndedUndisturbed(p) == threads[p].stage = "ended" /\ threads[p].since = deploys

\* What the materializer has let pass the Runtime accepts: while the artifact is
\* the one the manifest pins, an undisturbed probe of a Runtime that may read it
\* fails at most for the thresholds, which no script verifies, or for libraries the Runtime does not have.
PublishedIsAccepted ==
  \A p \in Probes :
    /\ EndedUndisturbed(p) /\ SameUser /\ published # None
    /\ files.artifact = published.model /\ published.model \in CompatibleModels
    => threads[p].fault \in
         {None, Pipeline!ThresholdFault(ThresholdsSeen(files.thresholds), "threshold.v1.0.0")}

=============================================================================
