--------------------------- MODULE MCAgentControl ---------------------------
(* Instances of AgentControl for TLC.  The constants of the code (capacity *)
(* 4, budget 32, 65536 messages) are scaled down with the bounds.          *)
EXTENDS AgentControl
=============================================================================
