---------------------------- MODULE MCAgentLoop ----------------------------
EXTENDS AgentLoop
=============================================================================
