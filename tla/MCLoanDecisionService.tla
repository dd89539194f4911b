----------------------- MODULE MCLoanDecisionService -----------------------
EXTENDS LoanDecisionService

Published ==
  [form |-> "published", compatible |-> TRUE, localReference |-> TRUE, xgboostJson |-> TRUE,
   modelVersion |-> "m1", featureSchemaVersion |-> "phase-2-loan-features.v1.0.0",
   preprocessingVersion |-> "preprocess.v1.0.0", thresholdVersion |-> "t1",
   modelBinaryArtifactDigest |-> "d1"]

MCManifests == {Published, [Published EXCEPT !.form = "missing"], [Published EXCEPT !.form = "not_contract"]}
PublishedOnly == {Published}

MCThresholdFiles == {[form |-> "object", value |-> [t1 |-> "in_unit_interval"]]}

RightArtifact == [form |-> "present", digest |-> "d1", content |-> "model"]
WrongArtifact == [form |-> "present", digest |-> "d2", content |-> "model"]
MissingArtifact == [form |-> "missing", digest |-> None, content |-> "no_model"]

MCArtifacts == {RightArtifact, WrongArtifact, MissingArtifact}
RightOrMissing == {RightArtifact, MissingArtifact}
RightOrWrong == {RightArtifact, WrongArtifact}
RightOnly == {RightArtifact}

MatchingInput ==
  [modelVersion |-> "m1", featureSchemaVersion |-> "phase-2-loan-features.v1.0.0",
   preprocessingVersion |-> "preprocess.v1.0.0", thresholdVersion |-> "t1",
   modelArtifactDigest |-> "d1",
   payloadSchemaVersion |-> "phase-2-loan-features.v1.0.0", hasFeatures |-> TRUE,
   unknownFeature |-> FALSE, values |-> <<"valid">>]

MCIdentities == {MatchingInput, [MatchingInput EXCEPT !.values = <<"overflows">>]}
MatchingOnly == {MatchingInput}

Timely == [form |-> "valid", snapshotCreatedAt |-> 0, requestedAt |-> 0, deadlineAt |-> 9]
Tight == [Timely EXCEPT !.deadlineAt = 1]

MCDeliveries ==
  {Timely, Tight, [Timely EXCEPT !.form = "payload_not_object"],
   [Timely EXCEPT !.form = "digest_mismatch"], [Timely EXCEPT !.form = "schema_invalid"],
   [Timely EXCEPT !.snapshotCreatedAt = 1]}
TimelyOrTight == {Timely, Tight}

=============================================================================
