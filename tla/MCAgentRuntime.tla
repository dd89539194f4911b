--------------------------- MODULE MCAgentRuntime ---------------------------
EXTENDS AgentRuntime

MCRuns == (Calls \cup Probes) \X RunIds

Local ==
  [APP_ENV |-> "unset", CONTRACTS_ROOT |-> "valid", MODEL_MANIFEST_PATH |-> "valid",
   MODEL_ARTIFACT_ROOT |-> "valid", LOG_LEVEL |-> "unset", HOST |-> "valid", PORT |-> "unset"]
MCEnvironments == {Local, [Local EXCEPT !.MODEL_MANIFEST_PATH = "floating"]}
=============================================================================
