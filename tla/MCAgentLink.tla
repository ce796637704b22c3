------------------------------ MODULE MCAgentLink ------------------------------
EXTENDS AgentLink

\* The clock of the host is at most a window off.
WithinWindow == -Window..Window
=============================================================================
