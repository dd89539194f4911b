-------------------------- MODULE MCModelPipeline --------------------------
EXTENDS ModelPipeline

Published ==
  [form |-> "published", compatible |-> TRUE, localReference |-> TRUE, xgboostJson |-> TRUE,
   modelVersion |-> "m1", featureSchemaVersion |-> FEATURE_SCHEMA_VERSION,
   preprocessingVersion |-> PREPROCESSING_VERSION, thresholdVersion |-> "t1",
   modelBinaryArtifactDigest |-> "d1"]

\* The published manifest, those that cannot be used, and published ones that
\* disagree with the requests or with the artifact in one respect.
MCManifests ==
  {[Published EXCEPT !.form = f] :
     f \in {"missing", "unreadable", "not_json", "not_object", "not_contract", "placeholder"}}
  \cup {Published,
        [Published EXCEPT !.compatible = FALSE],
        [Published EXCEPT !.localReference = FALSE],
        [Published EXCEPT !.xgboostJson = FALSE],
        [Published EXCEPT !.modelVersion = "m2"],
        [Published EXCEPT !.featureSchemaVersion = "v2"],
        [Published EXCEPT !.thresholdVersion = "t2"],
        [Published EXCEPT !.modelBinaryArtifactDigest = "d2"]}

MCThresholdFiles ==
  {[form |-> f, value |-> [v \in {"t1", "t2"} |-> "in_unit_interval"]] :
     f \in {"missing", "unreadable", "not_json", "not_object", "object"}}
  \cup {[form |-> "object", value |-> [t1 |-> "in_unit_interval", t2 |-> "absent"]],
        [form |-> "object", value |-> [t1 |-> "overflows", t2 |-> "invalid"]]}

MCArtifacts ==
  {[form |-> "present", digest |-> d, content |-> "model"] : d \in {"d1", "d2"}}
  \cup {[form |-> "present", digest |-> "d1", content |-> c] : c \in {"no_model", "no_explainer"}}
  \cup {[form |-> f, digest |-> None, content |-> "no_model"] : f \in {"missing", "unreadable"}}

MatchingInput ==
  [modelVersion |-> "m1", featureSchemaVersion |-> FEATURE_SCHEMA_VERSION,
   preprocessingVersion |-> PREPROCESSING_VERSION, thresholdVersion |-> "t1",
   modelArtifactDigest |-> "d1", payloadSchemaVersion |-> FEATURE_SCHEMA_VERSION,
   hasFeatures |-> TRUE, unknownFeature |-> FALSE, values |-> <<"valid", "valid">>]

MCInputs ==
  {MatchingInput,
   [MatchingInput EXCEPT !.featureSchemaVersion = "v2"],
   [MatchingInput EXCEPT !.modelArtifactDigest = "d2"],
   [MatchingInput EXCEPT !.payloadSchemaVersion = "v2", !.hasFeatures = FALSE],
   [MatchingInput EXCEPT !.hasFeatures = FALSE],
   [MatchingInput EXCEPT !.unknownFeature = TRUE],
   [MatchingInput EXCEPT !.values = <<"valid", "absent">>],
   [MatchingInput EXCEPT !.values = <<"out_of_range", "mistyped">>],
   [MatchingInput EXCEPT !.values = <<"valid", "overflows">>]}

=============================================================================
