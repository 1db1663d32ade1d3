------------------------------ MODULE MCVolumes -------------------------------
(* Small instances of Volumes for TLC. *)
EXTENDS Volumes
=============================================================================
