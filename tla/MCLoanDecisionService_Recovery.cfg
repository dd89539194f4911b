SPECIFICATION FairServiceSpec
CONSTANTS
  Calls = {c1, c2}
  Runs = {r1}
  Identities <- MatchingOnly
  EarlyReasons = {"AGENT_TIMEOUT", "FEATURE_REQUIRED_MISSING", "FEATURE_TYPE_INVALID", "SNAPSHOT_DIGEST_MISMATCH"}
  PipelineReasons = {"AGENT_RUNTIME_TEMPORARY_FAILURE", "AGENT_TIMEOUT", "CONTRACT_VALIDATION_FAILED", "MODEL_ARTIFACT_DIGEST_MISMATCH", "MODEL_ARTIFACT_NOT_FOUND", "MODEL_MANIFEST_NOT_FOUND", "MODEL_VERSION_UNSUPPORTED"}
  ContractReasons = {"AGENT_RUN_INPUT_CONFLICT", "FEATURE_REQUIRED_MISSING", "FEATURE_TYPE_INVALID", "SNAPSHOT_DIGEST_MISMATCH", "AGENT_RUNTIME_TEMPORARY_FAILURE", "AGENT_TIMEOUT", "CONTRACT_VALIDATION_FAILED", "MODEL_ARTIFACT_DIGEST_MISMATCH", "MODEL_ARTIFACT_NOT_FOUND", "MODEL_MANIFEST_NOT_FOUND", "MODEL_VERSION_UNSUPPORTED"}
  None = None
  Deliveries <- TimelyOrTight
  Manifests <- MCManifests
  ThresholdFiles <- MCThresholdFiles
  Artifacts <- RightOrMissing
  InferenceFaults = {}
  MaxDeploys = 2
  ResultAccepted = {TRUE}
  MaxTime = 1
PROPERTIES RecoversAfterRepair
