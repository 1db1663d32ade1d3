---------------------------- MODULE MCVolumeLease -----------------------------
(* Small instances of VolumeLease for TLC. *)
EXTENDS VolumeLease

\* Every host is in the volume's region.
OneRegion == [h \in Hosts |-> CHOOSE g \in Regions : TRUE]
=============================================================================
