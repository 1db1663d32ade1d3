------------------------------ MODULE VolumeLease ------------------------------
(***************************************************************************)
(* A stateful service: the rows of Rollout, the single-writer lease of the *)
(* volume they are bound to, and the containers its host's agent runs.     *)
(*                                                                         *)
(* The volume has its host already (module Volumes) and never moves, so    *)
(* every replica of the slot lands on that host and the only thing between *)
(* two of them is the recreate cascade, which retires before it creates,   *)
(* and the lease, which is taken in the transaction that binds the host.   *)
(*                                                                         *)
(* A lease's expiry is kept as live; expiry is a step of the clock.  A     *)
(* container writes to the volume for as long as it runs.                  *)
(***************************************************************************)
EXTENDS Rollout

CONSTANT VolumeHost      \* the host the volume is on

ASSUME LeaseAssumption == VolumeHost \in Hosts

VARIABLES
    lease,     \* the row of volume_leases, or NoLease
    wire,      \* the state on its way to the agent, or NoState
    running    \* the agent's containers

leaseVars == <<lease, wire, running>>
allVars   == <<vars, leaseVars>>

NoLease == [holder |-> None, live |-> FALSE]
NoState == {None}

-----------------------------------------------------------------------------
(* Deciding: the recreate cascade, and placement onto the volume's host.   *)

\* Seeded fault: a replica with a volume leaves with its draining host.
StatefulGroupLeaving == Group(HostRegion[VolumeHost])

\* The slot as the snapshot shows it: a replica with a volume never leaves with
\* its host.
StatefulGroup == [Group(HostRegion[VolumeHost]) EXCEPT !.leaving = {}]

recreateCascade ==
    << "deploymentFrozen", "crashLooping", "trimHostlessExcess",
       "anyHostlessReplicas", "newHealthOpenPastDeadline", "notAllHealthy",
       "drainOutgoing", "reapDrained", "reapFailedOutgoing",
       "recreateRampUp", "rollingScaleDown", "rolloutComplete" >>

recreateWhen(rule, g) ==
    IF rule = "recreateRampUp" THEN g.outgoing = {} /\ heldSlots(g) < g.want ELSE When(rule, g)

\* A trimmed row never bound the lease: its destroy does not release it.
recreateThen(rule, g) ==
    CASE rule = "recreateRampUp" ->
            {{Intent("create", g, None, i) : i \in 1 .. g.want - heldSlots(g)}}
      [] rule = "trimHostlessExcess" ->
            {{[i EXCEPT !.kind = "trim"] : i \in its} : its \in TrimHostless(g)}
      [] OTHER -> Then(rule, g)

recreateRules(g) ==
    LET cascade == IF g.dep = NoDeployment THEN orphanCascade ELSE recreateCascade
        first   == {k \in DOMAIN cascade : /\ recreateWhen(cascade[k], g)
                                           /\ \A j \in 1 .. k - 1 : ~recreateWhen(cascade[j], g)}
    IN  IF first = {} THEN {{}} ELSE UNION {recreateThen(cascade[k], g) : k \in first}

\* No filter and no score: the volume's host, if it is alive.
placePinned(its) ==
    {[i EXCEPT !.host = IF i.kind = "assign" THEN VolumeHost ELSE @] :
        i \in {j \in its : j.kind = "assign" => hosts[VolumeHost].healthy}}

ReconcileStateful ==
    /\ intents = {}
    /\ \E its \in recreateRules(StatefulGroup) : intents' = placePinned(its)
    /\ intents' # {}
    /\ Bump({})
    /\ UNCHANGED <<dbVars, ops, faults, leaseVars>>

-----------------------------------------------------------------------------
(* Acting.                                                                 *)

\* A new row has an id no agent has heard of.
CreateStateful(i) ==
    /\ CreateReplica(i)
    /\ \A r \in running \cup wire : r \in Replicas => replicas'[r] = replicas[r]
    /\ UNCHANGED leaseVars

\* ReserveReplicaOnHost for a row with a volume: a cordoned or draining host
\* takes it back.
PinnedReservable(i) ==
    /\ i.replica \in Live
    /\ hosts[i.host].healthy
    /\ Cardinality(Occupants(i.host)) + 1 <= Capacity

\* Seeded fault: a lease is never taken over, not even one's own.
AcquireFree(r) == lease = NoLease

\* AcquireVolumeLease's upsert: free, run out, or one's own.
Acquirable(r) == lease = NoLease \/ ~lease.live \/ lease.holder = r

\* One transaction: the host and the lease, or neither.
AssignStateful(i) ==
    /\ i.kind = "assign"
    /\ intents' = intents \ {i}
    /\ IF PinnedReservable(i) /\ Acquirable(i.replica)
       THEN /\ Write({i.replica}, LAMBDA row : [row EXCEPT !.host = i.host, !.phase = "scheduling"])
            /\ lease' = [holder |-> i.replica, live |-> TRUE]
       ELSE UNCHANGED <<replicas, lease>>
    /\ Bump({})
    /\ UNCHANGED <<deployments, current, hosts, served, ops, faults, wire, running>>

\* Deleting a row takes the lease it holds with it.
CascadeDelete(r) == lease' = IF lease.holder = r THEN NoLease ELSE lease

\* A destroy releases by volume, whoever holds the lease.
DestroyStateful(i) ==
    /\ DestroyReplica(i)
    /\ lease' = NoLease
    /\ UNCHANGED <<wire, running>>

TrimReplica(i) ==
    /\ i.kind = "trim"
    /\ intents' = intents \ {i}
    /\ replicas' = [replicas EXCEPT ![i.replica] = NoRow]
    /\ Bump({i.replica})
    /\ CascadeDelete(i.replica)
    /\ UNCHANGED <<deployments, current, hosts, served, ops, faults, wire, running>>

CommitStateful ==
    \/ \E i \in intents : \/ CreateStateful(i) \/ AssignStateful(i)
                          \/ DestroyStateful(i) \/ TrimReplica(i)
    \/ /\ \/ \E i \in intents : \/ DrainReplica(i) \/ FreezeReplica(i)
                                \/ FailDeployment(i) \/ CompleteDeployment(i)
          \/ \E g \in Regions : SwitchTraffic(g)
       /\ UNCHANGED leaseVars

-----------------------------------------------------------------------------
(* The agent of the volume's host.                                         *)

\* ListReplicasByHost, less the retiring rows, which it only stops.
HostState == {r \in Live : replicas[r].host = VolumeHost /\ replicas[r].phase \notin {"draining", "failed"}}

\* Latest wins.
PushState ==
    /\ wire # HostState /\ (wire # NoState \/ running # HostState)
    /\ wire' = HostState
    /\ UNCHANGED <<vars, lease, running>>

\* applyState: what is listed runs, what is absent or draining is stopped.
ApplyState ==
    /\ wire # NoState
    /\ running' = wire
    /\ wire' = NoState
    /\ UNCHANGED <<vars, lease>>

RenewVolumeLease(r, o) ==
    lease' = IF o.phase = "active" /\ lease.holder = r THEN [lease EXCEPT !.live = TRUE] ELSE lease

\* A healthy report that lands renews its own lease.
ObserveStateful(r, o) ==
    /\ r \in running
    /\ ObserveReplica(r, o)
    /\ RenewVolumeLease(r, o)
    /\ UNCHANGED <<wire, running>>

\* No healthy report has landed within the lease's ttl, also for a holder that
\* is still on the host.
LeaseExpires ==
    /\ lease.live
    /\ lease' = [lease EXCEPT !.live = FALSE]
    /\ UNCHANGED <<vars, wire, running>>

-----------------------------------------------------------------------------
(* The watchdog and the operator.                                          *)

\* CompleteDrainedHosts passes over stateful rows; what else is on the host
\* keeps its drain open.
DrainedButStateful ==
    /\ hosts[VolumeHost].status = "draining"
    /\ hosts' = [hosts EXCEPT ![VolumeHost].status = "cordoned"]
    /\ UNCHANGED <<deployments, current, replicas, served, intents, moved, ops, faults, leaseVars>>

DeleteStateful(r) == DeleteReplica(r) /\ CascadeDelete(r) /\ UNCHANGED <<wire, running>>

\* Cordoning is left out, a pinned row goes back to a cordoned host as to an
\* open one; so is the progress deadline, a rollout fails by crash-looping.
OtherWriters ==
    \/ AbandonPass
    \/ \E h \in Hosts : RecordHeartbeat(h) \/ MarkStaleHostUnhealthy(h) \/ MarkHostDown(h)
                        \/ UncordonHost(h) \/ DrainHost(h)
    \/ \E want \in [Regions -> Counts] : Deploy(want)
    \/ \E v \in Versions : Rollback(v)
    \/ \E g \in Regions, n \in Counts : Scale(g, n)
    \/ \E r \in Replicas : RestartReplica(r) \/ DrainWindowElapses(r)

-----------------------------------------------------------------------------
InitStateful == Init /\ lease = NoLease /\ wire = NoState /\ running = {}

\* A converged service: version 1 active, its replica healthy on the volume's
\* host and holding the lease.
SteadyStateful ==
    /\ deployments = [v \in Versions |->
           IF v = 1 THEN [status |-> "active",
                          want |-> [g \in Regions |-> IF g = HostRegion[VolumeHost] THEN 1 ELSE Absent]]
                    ELSE NoCommit]
    /\ current = 1 /\ 1 \in Versions /\ 1 \in Counts
    /\ served = [g \in Regions |-> IF g = HostRegion[VolumeHost] THEN 1 ELSE NoDeployment]
    /\ \E r \in Replicas :
          /\ replicas = [q \in Replicas |->
                 IF q = r THEN [NewRow(1, HostRegion[VolumeHost]) EXCEPT
                                   !.host = VolumeHost, !.phase = "active",
                                   !.healthy = TRUE, !.gate = "passed"]
                          ELSE NoRow]
          /\ running = {r}
          /\ lease = [holder |-> r, live |-> TRUE]
    /\ wire = NoState
    /\ hosts = [h \in Hosts |-> [healthy |-> TRUE, status |-> "open"]]
    /\ intents = {} /\ moved = {}
    /\ ops = 0 /\ faults = 0

NextStateful ==
    \/ ReconcileStateful \/ CommitStateful
    \/ PushState \/ ApplyState \/ LeaseExpires \/ DrainedButStateful
    \/ \E r \in Replicas : DeleteStateful(r) \/ \E o \in Reports : ObserveStateful(r, o)
    \/ OtherWriters /\ UNCHANGED leaseVars

\* The engine ticks, the agent is sent what changed, applies it and finds its
\* container healthy; windows elapse; a silent host comes back or is swept.
StatefulFairness ==
    /\ WF_allVars(ReconcileStateful) /\ WF_allVars(CommitStateful)
    /\ SF_allVars(/\ \/ \E i \in intents : DrainLands(i)
                     \/ \E g \in Regions : SwitchLands(g)
                  /\ UNCHANGED leaseVars)
    /\ WF_allVars(PushState) /\ WF_allVars(ApplyState)
    /\ WF_allVars(\E r \in Replicas : ObserveStateful(r, [phase |-> "active", looping |-> FALSE]))
    /\ WF_allVars(/\ \/ \E r \in Replicas : DrainWindowElapses(r)
                     \/ RecordHeartbeat(VolumeHost)
                  /\ UNCHANGED leaseVars)

StatefulSpec == InitStateful /\ [][NextStateful]_allVars

FairStatefulSpec == StatefulSpec /\ StatefulFairness

SteadyStatefulSpec == SteadyStateful /\ [][NextStateful]_allVars

SteadyStatefulFairSpec == SteadyStatefulSpec /\ StatefulFairness

-----------------------------------------------------------------------------
(* Properties.                                                             *)

\* Never two writers: at no time does the host run two containers on the
\* volume, although its agent acts on states older than the rows, rows are
\* freed, frozen, restarted and deleted under it, and the lease runs out.
SingleWriter == Cardinality(running) <= 1

\* The row the volume is let to: placed, and to be run.
Tenants == HostState
tenantOf == IF Tenants = {} THEN None ELSE CHOOSE r \in Tenants : TRUE

Tenancy == INSTANCE SingleTenant WITH tenant <- tenantOf

\* The lease and the recreate cascade implement single tenancy: the volume is
\* never let to a replica while another has it, and is free in between.
LetsOneAtATime == /\ [](Cardinality(Tenants) <= 1)
                  /\ Tenancy!Spec

\* The service is wanted, its rollout has not failed, and no row waits for the
\* operator.
Wanted ==
    /\ current # NoDeployment
    /\ deployments[current].status # "failed"
    /\ deployments[current].want[HostRegion[VolumeHost]] = 1
    /\ \A r \in Live : replicas[r].phase # "failed"

\* The lease never locks the service out: while the service stays wanted, a
\* replica of the current version runs again and again, whoever held the lease
\* before and however it lost the host.
VolumeIsServed ==
    <>[]Wanted => []<>(\E r \in running : r \in Live /\ replicas[r].dep = current)
=============================================================================
