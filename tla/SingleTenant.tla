----------------------------- MODULE SingleTenant -----------------------------
(***************************************************************************)
(* What the lease of a volume promises: the volume is let to one replica   *)
(* at a time, and it is free before it is let to another.  Whatever the    *)
(* engine, the watchdog and the operator do to rows, a volume that changes *)
(* hands is seen free in between.                                          *)
(***************************************************************************)
CONSTANTS Replicas, None      \* None is no replica

VARIABLE tenant

Init == tenant \in Replicas \cup {None}

Let(r)  == tenant = None /\ tenant' = r
Vacate  == tenant # None /\ tenant' = None

Next == Vacate \/ \E r \in Replicas : Let(r)

Spec == Init /\ [][Next]_tenant
=============================================================================
