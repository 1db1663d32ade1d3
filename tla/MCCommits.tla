------------------------------ MODULE MCCommits -------------------------------
(* Small instances of Commits for TLC. *)
EXTENDS Commits

\* Every region, with one number for all.
WholeRequests == {[g \in Regions |-> n] : n \in 1 .. 2}
=============================================================================
