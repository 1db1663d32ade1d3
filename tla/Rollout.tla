------------------------------- MODULE Rollout --------------------------------
(***************************************************************************)
(* One stateless environment service of the fleet: its deployments, its    *)
(* replica rows, the hosts they land on and the traffic pointer of each    *)
(* region, as the database holds them, and every writer of those rows:     *)
(* the engine pass (internal/engine), the agents' reports and the          *)
(* watchdog's sweep (db/queries/sensor.sql), and the operator              *)
(* (internal/project, db/queries/controlplane.sql).                        *)
(*                                                                         *)
(* The engine reads one frozen snapshot, decides, and then commits each    *)
(* intent in a transaction of its own; any other writer may land between   *)
(* two of those transactions.                                              *)
(*                                                                         *)
(* Data abstractions.  Every replica demands one slot of a host.  A clock  *)
(* value is kept only as the verdict the rules draw from it: a row's       *)
(* health gate is "open", "late" (open past progress_deadline) or "passed" *)
(* (health_checks_passed_at is stamped), its drain window "none",          *)
(* "bleeding" or "elapsed".  restart_count is kept as looping, i.e.        *)
(* restart_count > restart_max.  The revision column is kept as the set    *)
(* moved of the replicas whose revision has changed since the snapshot the *)
(* pending intents were decided on, which is all a revision CAS can see.   *)
(***************************************************************************)
EXTENDS Reconciler

CONSTANTS
    Replicas,     \* replica ids; bounds the rows alive at once
    Hosts,
    Regions,
    HostRegion,   \* the region of each host
    Capacity,     \* replicas a host has room for
    Headroom,     \* slots of a host kept back from fresh replicas
    MaxVersion,   \* bound: deployments ever created
    MaxCount,     \* bound: replicas wanted in a region
    OperatorOps,  \* the operator commands this instance allows
    MaxOps,       \* bound: operator commands
    Faults,       \* the kinds of fault this instance allows
    MaxFaults,    \* bound: faults of those kinds
    Stalls        \* whether a health gate may stay open past progress_deadline

ASSUME ConstantsAssumption ==
    /\ None \notin Hosts /\ None \notin Replicas
    /\ HostRegion \in [Hosts -> Regions]
    /\ IsFiniteSet(Replicas)
    /\ Capacity \in Nat /\ Headroom \in Nat
    /\ MaxVersion \in Nat /\ MaxCount \in Nat
    /\ MaxOps \in Nat /\ MaxFaults \in Nat
    /\ Stalls \in BOOLEAN
    /\ Faults \subseteq {"crash", "loop", "regress", "silence", "lostpass"}

VARIABLES
    deployments,  \* version -> status and replica target per region
    current,      \* the version with is_current, or NoDeployment
    replicas,     \* replica id -> its row, or NoRow
    hosts,        \* host -> observed health and operator status
    served,       \* region -> the deployment traffic points at
    intents,      \* the engine's intents not yet committed
    moved,        \* replicas whose revision changed since the snapshot
    ops, faults   \* how much of MaxOps and MaxFaults is spent

dbVars == <<deployments, current, replicas, hosts, served>>
vars   == <<deployments, current, replicas, hosts, served, intents, moved, ops, faults>>

-----------------------------------------------------------------------------
(* Rows.                                                                   *)

Versions == 1 .. MaxVersion
Absent   == -1       \* the deployment does not declare the region
Counts   == 0 .. MaxCount
Statuses == {"none", "pending", "active", "failed", "superseded", "rolledback"}
Phases   == {"pending", "scheduling", "starting", "active",
             "draining", "failed", "replacing"}

Deployment == [status : Statuses, want : [Regions -> Counts \cup {Absent}]]

Row == [dep : Versions, slot : Regions, host : Hosts \cup {None}, phase : Phases,
        healthy : BOOLEAN, looping : BOOLEAN,
        gate : {"open", "late", "passed"}, drained : {"none", "bleeding", "elapsed"}]

NoRow == [dep |-> NoDeployment]

NoCommit == [status |-> "none", want |-> [g \in Regions |-> Absent]]

Live == {r \in Replicas : replicas[r] # NoRow}

InSlot(v, g) == {r \in Live : replicas[r].dep = v /\ replicas[r].slot = g}

Undrained(S) == {r \in S : replicas[r].drained = "none"}

\* What ReserveReplicaOnHost sums: every row bound to the host but the failed.
Occupants(h) == {r \in Live : replicas[r].host = h /\ replicas[r].phase # "failed"}

\* What an intent names depends on its kind: a deployment, or a replica.
Intents ==
    {i \in [kind : {"create", "assign", "drain", "switch", "destroy", "freeze",
                     "fail", "complete"},
             slot : Regions, dep : Versions \cup {NoDeployment},
             replica : Replicas \cup {None}, host : Hosts \cup {None}, ord : 0 .. MaxCount] :
        /\ i.kind \in {"create", "fail", "complete"} => i.dep # NoDeployment
        /\ i.kind \notin {"create", "fail", "complete"} => i.replica # None
        /\ i.kind = "assign" => i.host # None}

\* Seeded fault: a retiring row still listens to its agent.
OwnedButDraining(p) == p \in {"failed", "replacing"}

\* Whether an agent holds no say over the row any more.
OrchestratorOwned(p) == p \in {"draining", "failed", "replacing"}

\* Every write that bumps revision names the rows it bumps.
Bump(S) == moved' = {r \in moved \cup S : \E i \in intents' : i.replica = r}

Write(S, f(_)) == replicas' = [r \in Replicas |-> IF r \in S THEN f(replicas[r]) ELSE replicas[r]]

-----------------------------------------------------------------------------
(* The engine pass: snapshot, decide, place.                               *)

\* buildReplicaGroups for one slot.
Group(g) ==
    LET rows     == {r \in Live : replicas[r].slot = g}
        staying  == {r \in rows : replicas[r].dep = current /\ replicas[r].drained = "none"}
        declared == current # NoDeployment /\ deployments[current].want[g] # Absent
    IN  [slot     |-> g,
         dep      |-> IF declared THEN current ELSE NoDeployment,
         status   |-> IF declared THEN deployments[current].status ELSE "none",
         want     |-> IF declared THEN deployments[current].want[g] ELSE 0,
         row      |-> replicas,
         leaving  |-> {r \in rows : \E h \in Hosts : /\ replicas[r].host = h
                                                     /\ hosts[h].status = "draining"},
         target   |-> {r \in staying : replicas[r].phase # "failed"},
         frozen   |-> {r \in staying : replicas[r].phase = "failed"},
         outgoing |-> rows \ staying]

\* One alternative per slot, joined.
Decisions ==
    LET firing(g) == UNION {fireRules(x) : x \in {Group(g)}}
    IN  {UNION {c[g] : g \in Regions} :
            c \in {f \in [Regions -> UNION {firing(g) : g \in Regions}] :
                      \A g \in Regions : f[g] \in firing(g)}}

\* The in-pass ledger counts the failed rows too.
Load(h) == Cardinality({r \in Live : replicas[r].host = h})

isReplacement(r) == replicas[r].phase = "replacing"

\* pick's constraint filter and fits: alive, open, of the region, with room.
\* Replacements pack first and skip the headroom.
Fits(r, h, placed) ==
    LET ahead == {q \in DOMAIN placed \ {r} : placed[q] = h /\ (isReplacement(q) \/ ~isReplacement(r))}
    IN  /\ hosts[h].healthy /\ hosts[h].status = "open"
        /\ HostRegion[h] = replicas[r].slot
        /\ Load(h) + Cardinality(ahead) + 1
              + (IF isReplacement(r) THEN 0 ELSE Headroom) <= Capacity

\* Seeded fault: an intent no host fits is passed on unplaced.
placeKeepsUnplaced(its) ==
    LET asking == {i.replica : i \in {j \in its : j.kind = "assign"}}
        plans  == {p \in [asking -> Hosts \cup {None}] :
                      \A r \in asking :
                          IF p[r] = None THEN \A h \in Hosts : ~Fits(r, h, p)
                                         ELSE Fits(r, p[r], p)}
    IN  {{i \in its : i.kind # "assign"}
            \cup {[i EXCEPT !.host = p[i.replica]] :
                     i \in {j \in its : j.kind = "assign"}} : p \in plans}

\* placeHostless: which of the feasible hosts wins (the score) is left open; a
\* replica no host fits keeps no intent.
placeHostless(its) ==
    LET asking == {i.replica : i \in {j \in its : j.kind = "assign"}}
        plans  == {p \in [asking -> Hosts \cup {None}] :
                      \A r \in asking :
                          IF p[r] = None THEN \A h \in Hosts : ~Fits(r, h, p)
                                         ELSE Fits(r, p[r], p)}
    IN  {{i \in its : i.kind # "assign"}
            \cup {[i EXCEPT !.host = p[i.replica]] :
                     i \in {j \in its : j.kind = "assign" /\ p[j.replica] # None}} : p \in plans}

Reconcile ==
    /\ intents = {}
    /\ \E its \in Decisions : intents' \in placeHostless(its)
    /\ intents' # {}
    /\ Bump({})
    /\ UNCHANGED <<dbVars, ops, faults>>

-----------------------------------------------------------------------------
(* The actuator: one transaction per intent, the switch batches last.  A   *)
(* lost race drops the intent and changes nothing else.                    *)

Fresh(r) == replicas[r] = NoRow /\ \A i \in intents : i.replica # r

NewRow(v, g) ==
    [dep |-> v, slot |-> g, host |-> None, phase |-> "pending", healthy |-> FALSE,
     looping |-> FALSE, gate |-> "open", drained |-> "none"]

\* Seeded fault: the row is minted onto a host, past the reservation.
CreateBound(i) ==
    /\ i.kind = "create"
    /\ intents' = intents \ {i}
    /\ \E r \in Replicas, h \in Hosts :
          /\ Fresh(r)
          /\ replicas' = [replicas EXCEPT ![r] =
                 [NewRow(i.dep, i.slot) EXCEPT !.host = h, !.phase = "scheduling"]]
    /\ Bump({})
    /\ UNCHANGED <<deployments, current, hosts, served, ops, faults>>

CreateReplica(i) ==
    /\ i.kind = "create"
    /\ intents' = intents \ {i}
    /\ \E r \in Replicas : /\ Fresh(r)
                           /\ replicas' = [replicas EXCEPT ![r] = NewRow(i.dep, i.slot)]
    /\ Bump({})
    /\ UNCHANGED <<deployments, current, hosts, served, ops, faults>>

\* ReserveReplicaOnHost's predicate, at commit time.
Reservable(i) ==
    /\ i.replica \in Live
    /\ hosts[i.host].healthy
    /\ hosts[i.host].status = "open"
    /\ Cardinality(Occupants(i.host)) + 1 <= Capacity

AssignReplicaHost(i) ==
    /\ i.kind = "assign"
    /\ intents' = intents \ {i}
    /\ IF Reservable(i)
       THEN Write({i.replica}, LAMBDA row : [row EXCEPT !.host = i.host, !.phase = "scheduling"])
       ELSE UNCHANGED replicas
    /\ Bump({})
    /\ UNCHANGED <<deployments, current, hosts, served, ops, faults>>

Drain(row) == [row EXCEPT !.phase = "draining", !.drained = "bleeding"]

\* SetReplicaPhase under the revision the intent carries.
CASHolds(r) == r \in Live /\ r \notin moved

DrainReplica(i) ==
    /\ i.kind = "drain"
    /\ intents' = intents \ {i}
    /\ IF CASHolds(i.replica) THEN Write({i.replica}, Drain) ELSE UNCHANGED replicas
    /\ Bump({i.replica})
    /\ UNCHANGED <<deployments, current, hosts, served, ops, faults>>

FreezeReplica(i) ==
    /\ i.kind = "freeze"
    /\ intents' = intents \ {i}
    /\ IF i.replica \in Live /\ ~OrchestratorOwned(replicas[i.replica].phase)
       THEN Write({i.replica}, LAMBDA row : [row EXCEPT !.phase = "failed", !.healthy = FALSE])
       ELSE UNCHANGED replicas
    /\ Bump({i.replica})
    /\ UNCHANGED <<deployments, current, hosts, served, ops, faults>>

DestroyReplica(i) ==
    /\ i.kind = "destroy"
    /\ intents' = intents \ {i}
    /\ replicas' = [replicas EXCEPT ![i.replica] = NoRow]
    /\ Bump({i.replica})
    /\ UNCHANGED <<deployments, current, hosts, served, ops, faults>>

FailDeployment(i) ==
    /\ i.kind = "fail"
    /\ intents' = intents \ {i}
    /\ deployments' = [deployments EXCEPT ![i.dep].status = "failed"]
    /\ Bump({})
    /\ UNCHANGED <<current, replicas, hosts, served, ops, faults>>

\* Seeded fault: the status flips, the traffic pointer is forgotten.
CompleteUnserved(i) ==
    /\ i.kind = "complete"
    /\ intents' = intents \ {i}
    /\ deployments' = [deployments EXCEPT ![i.dep].status = "active"]
    /\ Bump({})
    /\ UNCHANGED <<current, replicas, hosts, served, ops, faults>>

CompleteDeployment(i) ==
    /\ i.kind = "complete"
    /\ intents' = intents \ {i}
    /\ deployments' = [deployments EXCEPT ![i.dep].status = "active"]
    /\ served' = [served EXCEPT ![i.slot] = i.dep]
    /\ Bump({})
    /\ UNCHANGED <<current, replicas, hosts, ops, faults>>

\* applySwitchBatch: every drain of the slot and the pointer, or none of it.
\* An orphan slot's batch carries NoDeployment, which clears the pointer.
SwitchBatch(g) == {i \in intents : i.kind = "switch" /\ i.slot = g}

\* Seeded fault: a drain that lost its race is skipped, the pointer flips all
\* the same.
SwitchPartial(g) ==
    LET retiring == {i.replica : i \in SwitchBatch(g)}
    IN  /\ SwitchBatch(g) # {}
        /\ \A i \in intents : i.kind = "switch"
        /\ intents' = intents \ SwitchBatch(g)
        /\ Write({r \in retiring : CASHolds(r)}, Drain)
        /\ \E i \in SwitchBatch(g) : served' = [served EXCEPT ![g] = i.dep]
        /\ Bump(retiring)
        /\ UNCHANGED <<deployments, current, hosts, ops, faults>>

SwitchTraffic(g) ==
    LET retiring == {i.replica : i \in SwitchBatch(g)}
    IN  /\ SwitchBatch(g) # {}
        /\ \A i \in intents : i.kind = "switch"
        /\ intents' = intents \ SwitchBatch(g)
        /\ IF \A r \in retiring : CASHolds(r)
           THEN /\ Write(retiring, Drain)
                /\ \E i \in SwitchBatch(g) : served' = [served EXCEPT ![g] = i.dep]
           ELSE UNCHANGED <<replicas, served>>
        /\ Bump(retiring)
        /\ UNCHANGED <<deployments, current, hosts, ops, faults>>

\* A storage error ends the pass; a crash of the engine loses it.
AbandonPass ==
    /\ intents # {}
    /\ "lostpass" \in Faults /\ faults < MaxFaults
    /\ intents' = {}
    /\ faults' = faults + 1
    /\ Bump({})
    /\ UNCHANGED <<dbVars, ops>>

Commit ==
    \/ \E i \in intents :
        \/ CreateReplica(i) \/ AssignReplicaHost(i) \/ DrainReplica(i)
        \/ FreezeReplica(i) \/ DestroyReplica(i)
        \/ FailDeployment(i) \/ CompleteDeployment(i)
    \/ \E g \in Regions : SwitchTraffic(g)

Engine == Reconcile \/ Commit

-----------------------------------------------------------------------------
(* The agents.  A report overwrites phase, health and restart count, and   *)
(* bumps the revision even when it says nothing new; the row trigger       *)
(* stamps health_checks_passed_at once.  "starting" stands for every       *)
(* reportable phase short of healthy, "active" for healthy and active.     *)

Reports == {[phase |-> p, looping |-> l] : p \in {"starting", "active"}, l \in BOOLEAN}
              \cup {[phase |-> "failed", looping |-> FALSE]}

\* A crash, a blown restart budget or lost health; everything else is progress.
FaultsOf(r, o) ==
    {k \in {"crash", "loop", "regress"} :
        \/ k = "crash"   /\ o.phase = "failed"
        \/ k = "loop"    /\ o.looping # replicas[r].looping
        \/ k = "regress" /\ o.phase = "starting" /\ replicas[r].healthy}

Observed(row, o) ==
    [row EXCEPT !.phase   = o.phase,
                !.healthy = (o.phase = "active"),
                !.looping = o.looping,
                !.gate    = IF o.phase = "active" THEN "passed" ELSE @]

\* A row that was ever bound to a host may be reported by the agent that
\* learned of it, also by one the row has since left: no host is checked.
ObserveReplica(r, o) ==
    /\ r \in Live
    /\ replicas[r].host # None
    /\ ~OrchestratorOwned(replicas[r].phase)
    /\ FaultsOf(r, o) \subseteq Faults
    /\ FaultsOf(r, o) # {} => faults < MaxFaults
    /\ faults' = IF FaultsOf(r, o) # {} THEN faults + 1 ELSE faults
    /\ replicas' = [replicas EXCEPT ![r] = Observed(@, o)]
    /\ UNCHANGED intents
    /\ Bump({r})
    /\ UNCHANGED <<deployments, current, hosts, served, ops>>

RecordHeartbeat(h) ==
    /\ ~hosts[h].healthy
    /\ hosts' = [hosts EXCEPT ![h].healthy = TRUE]
    /\ UNCHANGED <<deployments, current, replicas, served, intents, moved, ops, faults>>

-----------------------------------------------------------------------------
(* The watchdog.                                                           *)

MarkStaleHostUnhealthy(h) ==
    /\ hosts[h].healthy
    /\ "silence" \in Faults /\ faults < MaxFaults
    /\ hosts' = [hosts EXCEPT ![h].healthy = FALSE]
    /\ faults' = faults + 1
    /\ UNCHANGED <<deployments, current, replicas, served, intents, moved, ops>>

\* Seeded fault: the retiring rows are freed too.
MarkHostDownDraining(h) ==
    LET freed == Occupants(h)
    IN  /\ ~hosts[h].healthy
        /\ freed # {}
        /\ Write(freed, LAMBDA row : [row EXCEPT !.host = None, !.healthy = FALSE, !.phase = "replacing"])
        /\ UNCHANGED intents
        /\ Bump(freed)
        /\ UNCHANGED <<deployments, current, hosts, served, ops, faults>>

\* A silent host past the death threshold frees its live, undrained rows.
MarkHostDown(h) ==
    LET freed == Undrained(Occupants(h))
    IN  /\ ~hosts[h].healthy
        /\ freed # {}
        /\ Write(freed, LAMBDA row : [row EXCEPT !.host = None, !.healthy = FALSE, !.phase = "replacing"])
        /\ UNCHANGED intents
        /\ Bump(freed)
        /\ UNCHANGED <<deployments, current, hosts, served, ops, faults>>

Evacuated(h) == hosts[h].status = "draining" /\ Occupants(h) = {}

CompleteDrainedHosts ==
    /\ \E h \in Hosts : Evacuated(h)
    /\ hosts' = [h \in Hosts |-> IF Evacuated(h) THEN [hosts[h] EXCEPT !.status = "cordoned"]
                                                 ELSE hosts[h]]
    /\ UNCHANGED <<deployments, current, replicas, served, intents, moved, ops, faults>>

-----------------------------------------------------------------------------
(* The clock.                                                              *)

ProgressDeadlinePasses(r) ==
    /\ Stalls
    /\ r \in Live /\ replicas[r].gate = "open"
    /\ replicas' = [replicas EXCEPT ![r].gate = "late"]
    /\ UNCHANGED <<deployments, current, hosts, served, intents, moved, ops, faults>>

DrainWindowElapses(r) ==
    /\ r \in Live /\ replicas[r].drained = "bleeding"
    /\ replicas' = [replicas EXCEPT ![r].drained = "elapsed"]
    /\ UNCHANGED <<deployments, current, hosts, served, intents, moved, ops, faults>>

-----------------------------------------------------------------------------
(* The operator.                                                           *)

Op(name) == name \in OperatorOps /\ ops < MaxOps /\ ops' = ops + 1

Known == {v \in Versions : deployments[v].status # "none"}

\* deploy: the next version becomes current, the old one is superseded.
Deploy(want) ==
    /\ Op("deploy")
    /\ \E g \in Regions : want[g] # Absent
    /\ LET v == Cardinality(Known) + 1
       IN  /\ v \in Versions
           /\ deployments' = [w \in Versions |->
                  IF w = v THEN [status |-> "pending", want |-> want]
                  ELSE IF w = current THEN [deployments[w] EXCEPT !.status = "superseded"]
                  ELSE deployments[w]]
           /\ current' = v
    /\ UNCHANGED <<replicas, hosts, served, intents, moved, faults>>

\* carryRegionCounts: the rollback keeps the scale; a region only the older
\* version declares goes to zero.
CarriedCounts(from, to) ==
    [g \in Regions |-> IF deployments[from].want[g] # Absent THEN deployments[from].want[g]
                       ELSE IF deployments[to].want[g] # Absent THEN 0 ELSE Absent]

Rollback(v) ==
    /\ Op("rollback")
    /\ current # NoDeployment
    /\ v \in Known \ {current}
    /\ deployments' = [deployments EXCEPT ![current].status = "rolledback",
                                          ![v] = [status |-> "pending", want |-> CarriedCounts(current, v)]]
    /\ current' = v
    /\ UNCHANGED <<replicas, hosts, served, intents, moved, faults>>

Scale(g, n) ==
    /\ Op("scale")
    /\ current # NoDeployment
    /\ deployments[current].want[g] # n
    /\ deployments' = [deployments EXCEPT ![current].want[g] = n]
    /\ UNCHANGED <<current, replicas, hosts, served, intents, moved, faults>>

\* ZeroDeploymentRegions.
Down ==
    /\ Op("down")
    /\ current # NoDeployment
    /\ deployments' = [deployments EXCEPT ![current].want =
                          [g \in Regions |-> IF @[g] = Absent THEN Absent ELSE 0]]
    /\ UNCHANGED <<current, replicas, hosts, served, intents, moved, faults>>

SetHostStatus(name, h, from, to) ==
    /\ Op(name)
    /\ hosts[h].status \in from
    /\ hosts' = [hosts EXCEPT ![h].status = to]
    /\ UNCHANGED <<deployments, current, replicas, served, intents, moved, faults>>

CordonHost(h)   == SetHostStatus("cordon", h, {"open"}, "cordoned")
UncordonHost(h) == SetHostStatus("uncordon", h, {"cordoned", "draining"}, "open")
DrainHost(h)    == SetHostStatus("drain", h, {"open", "cordoned"}, "draining")

DeleteReplica(r) ==
    /\ Op("delete")
    /\ r \in Live
    /\ replicas' = [replicas EXCEPT ![r] = NoRow]
    /\ UNCHANGED intents
    /\ Bump({r})
    /\ UNCHANGED <<deployments, current, hosts, served, faults>>

\* Seeded fault: the replica is restarted where it failed.
RestartInPlace(r) ==
    /\ Op("restart")
    /\ r \in Live /\ replicas[r].phase = "failed"
    /\ Write({r}, LAMBDA row : [row EXCEPT !.phase = "replacing", !.healthy = FALSE, !.looping = FALSE])
    /\ UNCHANGED intents
    /\ Bump({r})
    /\ UNCHANGED <<deployments, current, hosts, served, faults>>

RestartReplica(r) ==
    /\ Op("restart")
    /\ r \in Live /\ replicas[r].phase = "failed"
    /\ Write({r}, LAMBDA row : [row EXCEPT !.phase = "replacing", !.host = None,
                                           !.healthy = FALSE, !.looping = FALSE])
    /\ UNCHANGED intents
    /\ Bump({r})
    /\ UNCHANGED <<deployments, current, hosts, served, faults>>

-----------------------------------------------------------------------------
Agent    == \E r \in Replicas, o \in Reports : ObserveReplica(r, o)
Watchdog == \/ \E h \in Hosts : MarkStaleHostUnhealthy(h) \/ MarkHostDown(h)
            \/ CompleteDrainedHosts
Clock    == \E r \in Replicas : ProgressDeadlinePasses(r) \/ DrainWindowElapses(r)
Operator == \/ \E want \in [Regions -> Counts \cup {Absent}] : Deploy(want)
            \/ \E v \in Versions : Rollback(v)
            \/ \E g \in Regions, n \in Counts : Scale(g, n)
            \/ Down
            \/ \E h \in Hosts : CordonHost(h) \/ UncordonHost(h) \/ DrainHost(h)
            \/ \E r \in Replicas : DeleteReplica(r) \/ RestartReplica(r)

Init ==
    /\ deployments = [v \in Versions |-> NoCommit]
    /\ current = NoDeployment
    /\ replicas = [r \in Replicas |-> NoRow]
    /\ hosts = [h \in Hosts |-> [healthy |-> TRUE, status |-> "open"]]
    /\ served = [g \in Regions |-> NoDeployment]
    /\ intents = {} /\ moved = {}
    /\ ops = 0 /\ faults = 0

Next == \/ Engine \/ AbandonPass \/ Agent \/ Watchdog \/ Clock \/ Operator
        \/ \E h \in Hosts : RecordHeartbeat(h)

Spec == Init /\ [][Next]_vars

\* A converged service: version 1 active and served in region g, its n
\* replicas S healthy on the hosts p.
Converged(g, n, S, p) ==
    /\ deployments = [v \in Versions |->
           IF v = 1 THEN [status |-> "active",
                          want |-> [x \in Regions |-> IF x = g THEN n ELSE Absent]]
                    ELSE NoCommit]
    /\ replicas = [r \in Replicas |->
           IF r \in S THEN [NewRow(1, g) EXCEPT !.host = p[r], !.phase = "active",
                                                !.healthy = TRUE, !.gate = "passed"]
                      ELSE NoRow]
    /\ served = [x \in Regions |-> IF x = g THEN 1 ELSE NoDeployment]

Steady ==
    /\ \E g \in Regions, n \in Counts \ {0} :
          \E S \in kSubset(n, Replicas) : \E p \in [S -> Hosts] :
            /\ \A h \in Hosts : Cardinality({r \in S : p[r] = h}) <= Capacity
            /\ Converged(g, n, S, p)
    /\ current = 1 /\ 1 \in Versions
    /\ hosts = [h \in Hosts |-> [healthy |-> TRUE, status |-> "open"]]
    /\ intents = {} /\ moved = {}
    /\ ops = 0 /\ faults = 0

SteadySpec == Steady /\ [][Next]_vars

-----------------------------------------------------------------------------
(* Fairness.  The engine ticks for ever and its transactions end; a drain  *)
(* window elapses; a revision CAS that is retried every tick is not lost   *)
(* every time, although the reports it races never stop.                   *)

DrainLands(i)  == DrainReplica(i) /\ CASHolds(i.replica)
SwitchLands(g) == SwitchTraffic(g) /\ \A i \in SwitchBatch(g) : CASHolds(i.replica)

EngineFairness ==
    /\ WF_vars(Reconcile) /\ WF_vars(Commit)
    /\ SF_vars(\E i \in intents : DrainLands(i))
    /\ \A g \in Regions : SF_vars(SwitchLands(g))

ClockFairness ==
    \A r \in Replicas : WF_vars(ProgressDeadlinePasses(r)) /\ WF_vars(DrainWindowElapses(r))

\* A running container answers its health check in the end.
AgentFairness ==
    \A r \in Replicas : WF_vars(ObserveReplica(r, [phase |-> "active", looping |-> FALSE]))

\* A silent host comes back or is swept.
HostFairness ==
    /\ \A h \in Hosts : WF_vars(RecordHeartbeat(h)) /\ WF_vars(MarkHostDown(h))
    /\ WF_vars(CompleteDrainedHosts)

\* No agent need ever report a replica.
DeadlineSpec == Spec /\ EngineFairness /\ ClockFairness /\ HostFairness

FairSpec == DeadlineSpec /\ AgentFairness

SteadyFairSpec == SteadySpec /\ EngineFairness /\ ClockFairness /\ AgentFairness /\ HostFairness

-----------------------------------------------------------------------------
(* Properties.                                                             *)

\* Every column holds a value of its type, and every pending intent names
\* what the transaction of its kind dereferences.
TypeOK ==
    /\ deployments \in [Versions -> Deployment]
    /\ current \in Versions \cup {NoDeployment}
    /\ replicas \in [Replicas -> Row \cup {NoRow}]
    /\ hosts \in [Hosts -> [healthy : BOOLEAN, status : {"open", "cordoned", "draining"}]]
    /\ served \in [Regions -> Versions \cup {NoDeployment}]
    /\ intents \subseteq Intents
    /\ moved \subseteq Replicas
    /\ ops \in 0 .. MaxOps /\ faults \in 0 .. MaxFaults

\* A host is never overcommitted: the rows are the ledger, and no writer that
\* runs between a placement and its reservation can make the sum of the
\* reserved, not failed rows exceed the host (ReserveReplicaOnHost).
NoOvercommit == \A h \in Hosts : Cardinality(Occupants(h)) <= Capacity

\* The columns of one row, which five writers set piecemeal, stay consistent:
\* drained_at is stamped exactly on draining rows, a row waiting for a host
\* has none, a row without a host waits or retires and is not healthy, a row
\* never placed has not restarted, and a healthy row has its gate stamped.
RowConsistent ==
    \A r \in Live :
        LET row == replicas[r]
        IN  /\ row.drained # "none" <=> row.phase = "draining"
            /\ row.phase \in {"pending", "replacing"} => row.host = None
            /\ row.phase = "pending" => ~row.looping
            /\ row.host = None => /\ row.phase \in {"pending", "replacing", "draining"}
                                  /\ ~row.healthy
            /\ row.healthy => row.gate = "passed"

\* What may be destroyed: bled dry, failed, or with no container anywhere.
Spare(row) == row.drained = "elapsed" \/ row.phase = "failed" \/ row.host = None

\* A decision outlives its snapshot.  The intents that commit without a
\* compare-and-set (assign, freeze, destroy) still fit the row they name
\* whatever was written since; those with one do until the revision moves;
\* and no two pending intents ever name the same replica.
IntentsSound ==
    /\ \A i, j \in intents : i.replica # None /\ i.replica = j.replica => i = j
    /\ \A i \in intents : i.replica \in Live =>
          LET row == replicas[i.replica]
          IN  /\ i.kind = "assign"  => row.host = None /\ row.drained = "none"
              /\ i.kind = "freeze"  => row.phase # "pending"
              /\ i.kind = "destroy" => Spare(row)
              /\ i.kind \in {"drain", "switch"} /\ i.replica \notin moved
                     => row.phase \notin {"draining", "failed"}

\* A row that began to drain is never un-drained: no late report, host death
\* or operator command moves it anywhere but out of the table.
DrainIsFinal ==
    [][\A r \in Live : replicas[r].drained # "none" =>
          replicas'[r] = NoRow \/ (replicas'[r] # NoRow /\ replicas'[r].phase = "draining")]_vars

\* The engine never destroys a container that may still be doing work: the
\* row it deletes has bled its drain window, or has failed, or has no host,
\* also when the row moved after the snapshot the decision was made on.
DestroySpares ==
    [][\A r \in Live : replicas'[r] = NoRow /\ ops' = ops => Spare(replicas[r])]_vars

\* No tick serves both sides: when a region's traffic pointer leaves a
\* version, every replica of that version there is draining, failed or not on
\* a host once the same transaction has committed.
SwitchRetiresOldSide ==
    [][\A g \in Regions : served[g] # NoDeployment /\ served'[g] # served[g] =>
          \A r \in InSlot(served[g], g) :
              \/ replicas'[r] = NoRow
              \/ replicas'[r].phase \in {"draining", "failed"}
              \/ replicas'[r].host = None]_vars

\* Canary first: a second live replica of a version is created in a region
\* only when one there has passed its health checks.
CanaryFirst ==
    [][\A r \in Replicas \ Live : replicas'[r] # NoRow =>
          LET side == Undrained(InSlot(replicas'[r].dep, replicas'[r].slot))
          IN  \/ \A q \in side : replicas[q].phase = "failed"
              \/ \E q \in side : replicas[q].gate = "passed"]_vars

\* Failed is terminal for the reconciler: only an operator's command takes a
\* deployment out of it.
FailedIsTerminal ==
    [][\A v \in Versions : deployments[v].status = "failed" /\ deployments'[v].status # "failed" =>
          ops' # ops]_vars

\* An active deployment is the one its regions serve, once the region's
\* replicas are healthy and the engine has nothing left to do for it.
ActiveIsServed ==
    \A g \in Regions :
        LET grp == Group(g)
        IN  /\ grp.status = "active" /\ grp.want > 0
            /\ \A r \in grp.target : replicas[r].healthy
            /\ intents = {} /\ fireRules(grp) = {{}}
            => served[g] = grp.dep

Serving(v, g) == {r \in Undrained(InSlot(v, g)) : replicas[r].healthy}

\* While hosts are cordoned, drained and reopened, and no replica fails of its
\* own, the group never dips below its desired count (healthyTargets).
EvacuationKeepsCapacity ==
    \A g \in Regions : Group(g).dep # NoDeployment =>
        Cardinality(Serving(current, g)) >= Group(g).want

\* Traffic moves only to a version that passed its health checks in the region.
HealthyBeforeSwitch ==
    [][\A g \in Regions :
          LET v == served'[g]
          IN  v \notin {NoDeployment, served[g]} /\ deployments[v].want[g] > 0 =>
                \E r \in InSlot(v, g) : replicas[r].gate = "passed"]_vars

\* Every rollout settles: it turns active or failed, or is superseded.
RolloutSettles ==
    \A v \in Versions :
        (current = v /\ deployments[v].status = "pending")
            ~> (current # v \/ deployments[v].status \in {"active", "failed"})

\* No row of an old version leaks: it leaves the table unless its version
\* becomes current again or the rollout that replaces it fails and holds.
OldSideIsReaped ==
    \A r \in Replicas :
        (r \in Live /\ replicas[r].dep # current)
            ~> \/ r \notin Live \/ replicas[r].dep = current
               \/ deployments[current].status = "failed"

\* A host being drained ends up cordoned, or the operator reopened it.
DrainCompletes == \A h \in Hosts : hosts[h].status = "draining" ~> hosts[h].status # "draining"
=============================================================================
