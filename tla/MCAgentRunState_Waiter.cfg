SPECIFICATION FairSpec
CONSTANTS
  Calls = {c1, c2, c3}
  Runs = {r1}
  Identities = {i1, i2}
  EarlyReasons = {"AGENT_TIMEOUT"}
  PipelineReasons = {"MODEL_ARTIFACT_DIGEST_MISMATCH", "SHAP_CALCULATION_FAILED"}
  ContractReasons = {"AGENT_RUN_INPUT_CONFLICT", "AGENT_TIMEOUT", "MODEL_ARTIFACT_DIGEST_MISMATCH", "SHAP_CALCULATION_FAILED"}
  None = None
PROPERTIES WaiterReturnsSameResult
