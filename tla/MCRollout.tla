------------------------------ MODULE MCRollout -------------------------------
(* Small instances of Rollout for TLC. *)
EXTENDS Rollout, TLC

\* Every region has a host; with one region, every host is in it.
Spread == CHOOSE f \in [Hosts -> Regions] : \A g \in Regions : \E h \in Hosts : f[h] = g

Symmetry == Permutations(Replicas) \cup Permutations(Hosts)
ReplicaSymmetry == Permutations(Replicas)
=============================================================================
