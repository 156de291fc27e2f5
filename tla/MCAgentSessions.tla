-------------------------- MODULE MCAgentSessions --------------------------
(***************************************************************************)
(* The sessions of one agent on the instances given in the cfg files.      *)
(***************************************************************************)
EXTENDS AgentSessions, TLC

SessionSymmetry == Permutations(Sessions)
=============================================================================
