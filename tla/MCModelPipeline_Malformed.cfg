SPECIFICATION Spec
CONSTANTS
  Executions = {x1}
  Probes = {p1}
  Inputs <- MCInputs
  Manifests <- MCManifests
  ThresholdFiles <- MCThresholdFiles
  Artifacts <- MCArtifacts
  InferenceFaults = {"AGENT_RUNTIME_TEMPORARY_FAILURE", "SHAP_CALCULATION_FAILED", "AGENT_TIMEOUT", "raises"}
  MaxDeploys = 1
  None = None
INVARIANTS MalformedManifestReported
