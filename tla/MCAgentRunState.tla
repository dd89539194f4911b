-------------------------- MODULE MCAgentRunState --------------------------
EXTENDS AgentRunState
=============================================================================
