--------------------------- MODULE MCAgentDownlink ----------------------------
(* Small instances of AgentDownlink for TLC. *)
EXTENDS AgentDownlink, TLC

ReplicaSymmetry == Permutations(Replicas)
=============================================================================
