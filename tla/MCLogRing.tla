------------------------------ MODULE MCLogRing -------------------------------
(* Small instances of LogRing for TLC. *)
EXTENDS LogRing
=============================================================================
