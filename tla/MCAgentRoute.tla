---------------------------- MODULE MCAgentRoute -----------------------------
\* Instance of AgentRoute for TLC.
EXTENDS AgentRoute, TLC
=============================================================================
