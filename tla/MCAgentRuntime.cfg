SPECIFICATION FairRuntimeSpec
CONSTANTS
  Calls = {c1, c2}
  Runs <- MCRuns
  Identities = {i1}
  EarlyReasons = {}
  PipelineReasons = {"SHAP_CALCULATION_FAILED"}
  ContractReasons = {"AGENT_RUN_INPUT_CONFLICT", "SHAP_CALCULATION_FAILED"}
  None = None
  RunIds = {r1}
  Probes = {p1}
  HealthChecks = {h1}
  Environments <- MCEnvironments
  Workers = 2
  MaxRestarts = 1
INVARIANTS RuntimeTypeOK LiveRunsAreExecuted GatedRunsAgree PoolNeverAllAsleep
PROPERTIES EveryRequestAnswered
