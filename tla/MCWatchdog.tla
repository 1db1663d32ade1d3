------------------------------ MODULE MCWatchdog ------------------------------
(* Small instances of Watchdog for TLC. *)
EXTENDS Watchdog
=============================================================================
