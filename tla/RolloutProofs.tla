----------------------------- MODULE RolloutProofs ----------------------------
(***************************************************************************)
(* Theorems about Rollout, for every number of replicas, hosts, regions,   *)
(* versions, operator commands and faults.                                 *)
(***************************************************************************)
EXTENDS Rollout, FiniteSetTheorems, TLAPS

Rules ==
    {"deploymentFrozen", "crashLooping", "trimHostlessExcess",
     "anyHostlessReplicas", "newHealthOpenPastDeadline", "notAllHealthy",
     "rollingRampUp", "rollingScaleDown", "rolloutComplete",
     "drainOutgoing", "reapDrained", "reapFailedOutgoing"}

\* An intent as a rule emits it: no host is chosen yet.
RawIntents ==
    {i \in [kind : {"create", "assign", "drain", "switch", "destroy", "freeze",
                    "fail", "complete"},
            slot : Regions, dep : Versions \cup {NoDeployment},
            replica : Replicas \cup {None}, host : {None}, ord : 0 .. MaxCount] :
        /\ i.kind \in {"create", "fail", "complete"} => i.dep # NoDeployment
        /\ i.kind \notin {"create", "fail", "complete"} => i.replica # None}

\* What buildReplicaGroups guarantees of a group.
GroupOK(g) ==
    /\ g.slot \in Regions
    /\ g.dep \in Versions \cup {NoDeployment}
    /\ g.want \in Counts
    /\ g.target \subseteq Replicas /\ g.frozen \subseteq Replicas /\ g.outgoing \subseteq Replicas

-----------------------------------------------------------------------------
(* The decision half.                                                      *)

\* A cascade only names rules.
LEMMA CascadeRules ==
    ASSUME NEW g, NEW k \in DOMAIN cascadeOf(g)
    PROVE  cascadeOf(g)[k] \in Rules
BY DEF cascadeOf, rollingCascade, orphanCascade, Rules

\* The counts of a group are naturals.
LEMMA HeldIsNat ==
    ASSUME NEW g, GroupOK(g)
    PROVE  healthyTargets(g) \in Nat /\ heldSlots(g) \in Nat
<1>1. /\ {r \in g.target \ g.leaving : g.row[r].healthy} \in SUBSET Replicas
      /\ g.frozen \in SUBSET Replicas
    BY DEF GroupOK
<1>2. /\ Cardinality({r \in g.target \ g.leaving : g.row[r].healthy}) \in Nat
      /\ Cardinality(g.frozen) \in Nat
    BY <1>1, ConstantsAssumption, FS_Subset, FS_CardinalityType
<1> QED
    BY <1>2 DEF healthyTargets, heldSlots

\* Intents about replicas of a group are well formed.
LEMMA PerReplicaRaw ==
    ASSUME NEW g, GroupOK(g), NEW S, S \subseteq Replicas,
           NEW kind \in {"assign", "drain", "switch", "destroy", "freeze"}
    PROVE  PerReplica(kind, g, S) \subseteq RawIntents
BY ConstantsAssumption DEF PerReplica, Intent, RawIntents, GroupOK

\* Intents about the current deployment are well formed.
LEMMA DeploymentRaw ==
    ASSUME NEW g, GroupOK(g), g.dep # NoDeployment, NEW n \in 0 .. MaxCount,
           NEW kind \in {"create", "fail", "complete"}
    PROVE  Intent(kind, g, None, n) \in RawIntents
BY DEF Intent, RawIntents, GroupOK

\* Every rule that fires emits well formed intents.
LEMMA ThenRaw ==
    ASSUME NEW g, GroupOK(g), NEW rule \in Rules, When(rule, g),
           g.dep = NoDeployment => rule \in {"drainOutgoing", "reapDrained", "reapFailedOutgoing"},
           NEW its \in Then(rule, g)
    PROVE  its \subseteq RawIntents
<1> USE DEF GroupOK
<1>1. CASE rule = "deploymentFrozen"
    BY <1>1, PerReplicaRaw DEF Then
<1>2. CASE rule = "crashLooping"
    <2>1. overRestartBudget(g) \subseteq Replicas
        BY DEF overRestartBudget
    <2>2. its = CrashVerdict(g)
        BY <1>2 DEF Then
    <2>3. 0 \in 0 .. MaxCount
        BY ConstantsAssumption
    <2> QED
        BY <1>2, <2>1, <2>2, <2>3, PerReplicaRaw, DeploymentRaw DEF CrashVerdict
<1>3. CASE rule = "trimHostlessExcess"
    <2>1. its \in TrimHostless(g)
        BY <1>3 DEF Then
    <2>2. PICK S \in SUBSET hostless(g) : its = PerReplica("destroy", g, S)
        BY <2>1 DEF TrimHostless, kSubset
    <2>3. S \subseteq Replicas
        BY DEF hostless
    <2> QED
        BY <2>2, <2>3, PerReplicaRaw
<1>4. CASE rule = "anyHostlessReplicas"
    <2>1. hostless(g) \subseteq Replicas
        BY DEF hostless
    <2> QED
        BY <1>4, <2>1, PerReplicaRaw DEF Then
<1>5. CASE rule = "newHealthOpenPastDeadline"
    <2>1. its = {Intent("fail", g, None, 0)}
        BY <1>5 DEF Then
    <2> QED
        BY <1>5, <2>1, ConstantsAssumption, DeploymentRaw
<1>6. CASE rule = "notAllHealthy"
    BY <1>6 DEF Then
<1>7. CASE rule = "rollingRampUp"
    <2>1. its = RampUp(g)
        BY <1>7 DEF Then
    <2>2. heldSlots(g) < g.want
        BY <1>7 DEF When
    <2> DEFINE n == IF healthyTargets(g) = 0 THEN 1 ELSE g.want - heldSlots(g)
    <2>3. n \in 0 .. MaxCount
        BY <2>2, HeldIsNat, ConstantsAssumption DEF Counts
    <2>4. \A i \in 1 .. n : i \in 0 .. MaxCount
        BY <2>3, ConstantsAssumption
    <2>5. g.dep # NoDeployment
        BY <1>7
    <2>6. \A i \in 1 .. n : Intent("create", g, None, i) \in RawIntents
        BY <2>4, <2>5, DeploymentRaw
    <2> QED
        BY <2>1, <2>6 DEF RampUp
<1>8. CASE rule = "rollingScaleDown"
    <2>1. its \in ScaleDown(g)
        BY <1>8 DEF Then
    <2>2. PICK F \in SUBSET g.frozen, D \in SUBSET g.target :
              its = PerReplica("destroy", g, F) \cup PerReplica("drain", g, D)
        BY <2>1 DEF ScaleDown, kSubset
    <2>3. F \subseteq Replicas /\ D \subseteq Replicas
        OBVIOUS
    <2>4. PerReplica("destroy", g, F) \subseteq RawIntents
        BY <2>3, PerReplicaRaw
    <2>5. PerReplica("drain", g, D) \subseteq RawIntents
        BY <2>3, PerReplicaRaw
    <2> QED
        BY <2>2, <2>4, <2>5
<1>9. CASE rule = "rolloutComplete"
    <2>1. its = {Intent("complete", g, None, 0)}
        BY <1>9 DEF Then
    <2> QED
        BY <1>9, <2>1, ConstantsAssumption, DeploymentRaw
<1>10. CASE rule = "drainOutgoing"
    <2>1. drainable(g) \subseteq Replicas
        BY DEF drainable
    <2> QED
        BY <1>10, <2>1, PerReplicaRaw DEF Then
<1>11. CASE rule = "reapDrained"
    <2>1. drainWindowElapsed(g) \subseteq Replicas
        BY DEF drainWindowElapsed
    <2> QED
        BY <1>11, <2>1, PerReplicaRaw DEF Then
<1>12. CASE rule = "reapFailedOutgoing"
    <2>1. failedOutgoing(g) \subseteq Replicas
        BY DEF failedOutgoing
    <2> QED
        BY <1>12, <2>1, PerReplicaRaw DEF Then
<1> QED
    BY <1>1, <1>2, <1>3, <1>4, <1>5, <1>6, <1>7, <1>8, <1>9, <1>10, <1>11, <1>12 DEF Rules

\* Whatever rule a group's cascade fires, its intents are well formed.
LEMMA FireRulesRaw ==
    ASSUME NEW g, GroupOK(g), NEW its \in fireRules(g)
    PROVE  its \subseteq RawIntents
<1> DEFINE cascade == cascadeOf(g)
           first   == {k \in DOMAIN cascade : /\ When(cascade[k], g)
                                              /\ \A j \in 1 .. k - 1 : ~When(cascade[j], g)}
<1>1. CASE first = {}
    BY <1>1 DEF fireRules
<1>2. CASE first # {}
    <2>1. PICK k \in first : its \in Then(cascade[k], g)
        BY <1>2 DEF fireRules
    <2>2. cascade[k] \in Rules /\ When(cascade[k], g)
        BY CascadeRules
    <2>3. g.dep = NoDeployment => cascade[k] \in {"drainOutgoing", "reapDrained", "reapFailedOutgoing"}
        BY DEF cascadeOf, orphanCascade
    <2> QED
        BY <2>1, <2>2, <2>3, ThenRaw
<1> QED
    BY <1>1, <1>2

\* buildReplicaGroups hands the rules a well formed group.
LEMMA GroupIsOK ==
    ASSUME TypeOK, NEW g \in Regions
    PROVE  GroupOK(Group(g))
<1>1. Live \subseteq Replicas
    BY DEF Live
<1>2. current # NoDeployment /\ deployments[current].want[g] # Absent =>
          deployments[current].want[g] \in Counts
    BY DEF TypeOK, Deployment
<1>3. 0 \in Counts
    BY ConstantsAssumption DEF Counts
<1> QED
    BY <1>1, <1>2, <1>3 DEF GroupOK, Group, TypeOK

\* A whole pass decides on well formed intents.
LEMMA DecisionsRaw ==
    ASSUME TypeOK, NEW its \in Decisions
    PROVE  its \subseteq RawIntents
<1> DEFINE firing(g) == UNION {fireRules(x) : x \in {Group(g)}}
<1>1. PICK c \in [Regions -> UNION {firing(g) : g \in Regions}] :
          /\ \A g \in Regions : c[g] \in firing(g)
          /\ its = UNION {c[g] : g \in Regions}
    BY DEF Decisions
<1>2. \A g \in Regions : c[g] \in fireRules(Group(g))
    BY <1>1
<1>3. \A g \in Regions : c[g] \subseteq RawIntents
    BY <1>2, GroupIsOK, FireRulesRaw
<1> QED
    BY <1>1, <1>3

\* The placer turns well formed decisions into well formed intents.
LEMMA PlaceTyped ==
    ASSUME NEW its, its \subseteq RawIntents, NEW out \in placeHostless(its)
    PROVE  out \subseteq Intents
<1> DEFINE asking == {i.replica : i \in {j \in its : j.kind = "assign"}}
<1>1. PICK p \in [asking -> Hosts \cup {None}] :
          out = {i \in its : i.kind # "assign"}
                  \cup {[i EXCEPT !.host = p[i.replica]] :
                           i \in {j \in its : j.kind = "assign" /\ p[j.replica] # None}}
    BY DEF placeHostless
<1>2. ASSUME NEW i \in its, i.kind # "assign"
      PROVE  i \in Intents
    BY <1>2 DEF RawIntents, Intents
<1>3. ASSUME NEW i \in its, i.kind = "assign", p[i.replica] # None
      PROVE  [i EXCEPT !.host = p[i.replica]] \in Intents
    <2>1. p[i.replica] \in Hosts
        BY <1>3
    <2> QED
        BY <1>3, <2>1, ConstantsAssumption DEF RawIntents, Intents
<1> QED
    BY <1>1, <1>2, <1>3

-----------------------------------------------------------------------------
(* Type correctness.                                                       *)

\* A live row is a row.
LEMMA LiveRow ==
    ASSUME TypeOK, NEW r \in Live
    PROVE  r \in Replicas /\ replicas[r] \in Row
BY DEF TypeOK, Live

\* A fresh row is a row.
LEMMA NewRowTyped ==
    ASSUME NEW v \in Versions, NEW g \in Regions
    PROVE  NewRow(v, g) \in Row
BY DEF NewRow, Row, Phases

\* Draining a row leaves a row.
LEMMA DrainTyped ==
    ASSUME NEW row \in Row
    PROVE  Drain(row) \in Row
BY DEF Drain, Row, Phases

\* The engine's own step keeps the types.
LEMMA ReconcileTyped ==
    ASSUME TypeOK, Reconcile
    PROVE  TypeOK'
<1>1. PICK its \in Decisions : intents' \in placeHostless(its)
    BY DEF Reconcile
<1>2. intents' \subseteq Intents
    BY <1>1, DecisionsRaw, PlaceTyped
<1>3. moved' \subseteq Replicas
    BY DEF Reconcile, Bump, TypeOK
<1> QED
    BY <1>2, <1>3 DEF Reconcile, TypeOK, dbVars

\* Each transaction of the actuator keeps the types.
LEMMA CommitTyped ==
    ASSUME TypeOK, Commit
    PROVE  TypeOK'
<1>1. ASSUME NEW i \in intents, CreateReplica(i)
      PROVE  TypeOK'
    <2>1. i \in Intents /\ i.dep \in Versions /\ i.slot \in Regions
        BY <1>1 DEF TypeOK, Intents, CreateReplica
    <2>2. NewRow(i.dep, i.slot) \in Row
        BY <2>1, NewRowTyped
    <2>3. replicas' \in [Replicas -> Row \cup {NoRow}]
        BY <1>1, <2>2 DEF CreateReplica, TypeOK
    <2> QED
        BY <1>1, <2>3 DEF CreateReplica, TypeOK, Bump
<1>2. ASSUME NEW i \in intents, AssignReplicaHost(i)
      PROVE  TypeOK'
    <2>1. i \in Intents /\ i.host \in Hosts
        BY <1>2 DEF TypeOK, Intents, AssignReplicaHost
    <2>2. replicas' \in [Replicas -> Row \cup {NoRow}]
        <3>1. CASE Reservable(i)
            <4>1. replicas[i.replica] \in Row
                BY <3>1, LiveRow DEF Reservable
            <4>2. [replicas[i.replica] EXCEPT !.host = i.host, !.phase = "scheduling"] \in Row
                BY <4>1, <2>1 DEF Row, Phases
            <4> QED
                BY <1>2, <3>1, <4>2 DEF AssignReplicaHost, Write, TypeOK
        <3>2. CASE ~Reservable(i)
            BY <1>2, <3>2 DEF AssignReplicaHost, TypeOK
        <3> QED BY <3>1, <3>2
    <2> QED
        BY <1>2, <2>2 DEF AssignReplicaHost, TypeOK, Bump
<1>3. ASSUME NEW i \in intents, DrainReplica(i)
      PROVE  TypeOK'
    <2>1. i.replica \in Replicas
        BY <1>3 DEF TypeOK, Intents, DrainReplica
    <2>2. replicas' \in [Replicas -> Row \cup {NoRow}]
        <3>1. CASE CASHolds(i.replica)
            <4>1. Drain(replicas[i.replica]) \in Row
                BY <3>1, LiveRow, DrainTyped DEF CASHolds
            <4> QED
                BY <1>3, <3>1, <4>1 DEF DrainReplica, Write, TypeOK
        <3>2. CASE ~CASHolds(i.replica)
            BY <1>3, <3>2 DEF DrainReplica, TypeOK
        <3> QED BY <3>1, <3>2
    <2> QED
        BY <1>3, <2>1, <2>2 DEF DrainReplica, TypeOK, Bump
<1>4. ASSUME NEW i \in intents, FreezeReplica(i)
      PROVE  TypeOK'
    <2>1. i.replica \in Replicas
        BY <1>4 DEF TypeOK, Intents, FreezeReplica
    <2>2. replicas' \in [Replicas -> Row \cup {NoRow}]
        <3>1. CASE i.replica \in Live /\ ~OrchestratorOwned(replicas[i.replica].phase)
            <4>1. [replicas[i.replica] EXCEPT !.phase = "failed", !.healthy = FALSE] \in Row
                BY <3>1, LiveRow DEF Row, Phases
            <4> QED
                BY <1>4, <3>1, <4>1 DEF FreezeReplica, Write, TypeOK
        <3>2. CASE ~(i.replica \in Live /\ ~OrchestratorOwned(replicas[i.replica].phase))
            BY <1>4, <3>2 DEF FreezeReplica, TypeOK
        <3> QED BY <3>1, <3>2
    <2> QED
        BY <1>4, <2>1, <2>2 DEF FreezeReplica, TypeOK, Bump
<1>5. ASSUME NEW i \in intents, DestroyReplica(i)
      PROVE  TypeOK'
    <2>1. i.replica \in Replicas
        BY <1>5 DEF TypeOK, Intents, DestroyReplica
    <2> QED
        BY <1>5, <2>1 DEF DestroyReplica, TypeOK, Bump
<1>6. ASSUME NEW i \in intents, FailDeployment(i)
      PROVE  TypeOK'
    <2>1. i.dep \in Versions
        BY <1>6 DEF TypeOK, Intents, FailDeployment
    <2>2. [deployments[i.dep] EXCEPT !.status = "failed"] \in Deployment
        BY <2>1 DEF TypeOK, Deployment, Statuses
    <2>3. deployments' \in [Versions -> Deployment]
        BY <1>6, <2>1, <2>2 DEF FailDeployment, TypeOK
    <2> QED
        BY <1>6, <2>3 DEF FailDeployment, TypeOK, Bump
<1>7. ASSUME NEW i \in intents, CompleteDeployment(i)
      PROVE  TypeOK'
    <2>1. i.dep \in Versions
        BY <1>7 DEF TypeOK, Intents, CompleteDeployment
    <2>2. [deployments[i.dep] EXCEPT !.status = "active"] \in Deployment
        BY <2>1 DEF TypeOK, Deployment, Statuses
    <2>3. deployments' \in [Versions -> Deployment]
        BY <1>7, <2>1, <2>2 DEF CompleteDeployment, TypeOK
    <2>4. served' \in [Regions -> Versions \cup {NoDeployment}]
        BY <1>7, <2>1 DEF CompleteDeployment, TypeOK
    <2> QED
        BY <1>7, <2>3, <2>4 DEF CompleteDeployment, TypeOK, Bump
<1>8. ASSUME NEW g \in Regions, SwitchTraffic(g)
      PROVE  TypeOK'
    <2> DEFINE retiring == {i.replica : i \in SwitchBatch(g)}
    <2>1. retiring \subseteq Replicas
        BY DEF TypeOK, Intents, SwitchBatch
    <2>2. /\ replicas' \in [Replicas -> Row \cup {NoRow}]
          /\ served' \in [Regions -> Versions \cup {NoDeployment}]
        <3>1. CASE \A r \in retiring : CASHolds(r)
            <4>1. \A r \in retiring : Drain(replicas[r]) \in Row
                BY <3>1, LiveRow, DrainTyped DEF CASHolds
            <4>2. replicas' = [r \in Replicas |-> IF r \in retiring THEN Drain(replicas[r]) ELSE replicas[r]]
                BY <1>8, <3>1 DEF SwitchTraffic, Write
            <4>3. replicas' \in [Replicas -> Row \cup {NoRow}]
                BY <4>1, <4>2 DEF TypeOK
            <4>4. PICK i \in SwitchBatch(g) : served' = [served EXCEPT ![g] = i.dep]
                BY <1>8, <3>1 DEF SwitchTraffic
            <4>5. i.dep \in Versions \cup {NoDeployment}
                BY DEF SwitchBatch, TypeOK, Intents
            <4> QED
                BY <4>3, <4>4, <4>5 DEF TypeOK
        <3>2. CASE ~(\A r \in retiring : CASHolds(r))
            BY <1>8, <3>2 DEF SwitchTraffic, TypeOK
        <3> QED BY <3>1, <3>2
    <2>3. intents' \subseteq Intents /\ moved' \subseteq Replicas
        BY <1>8, <2>1 DEF SwitchTraffic, TypeOK, Bump
    <2> QED
        BY <1>8, <2>2, <2>3 DEF SwitchTraffic, TypeOK
<1> QED
    BY <1>1, <1>2, <1>3, <1>4, <1>5, <1>6, <1>7, <1>8 DEF Commit

\* A report keeps the types.
LEMMA AgentTyped ==
    ASSUME TypeOK, Agent
    PROVE  TypeOK'
<1>1. PICK r \in Replicas, o \in Reports : ObserveReplica(r, o)
    BY DEF Agent
<1>2. Observed(replicas[r], o) \in Row
    <2>1. replicas[r] \in Row
        BY <1>1, LiveRow DEF ObserveReplica
    <2>2. CASE o = [phase |-> "failed", looping |-> FALSE]
        BY <2>1, <2>2 DEF Observed, Row, Phases
    <2>3. ASSUME NEW p \in {"starting", "active"}, NEW l \in BOOLEAN,
                 o = [phase |-> p, looping |-> l]
          PROVE  Observed(replicas[r], o) \in Row
        BY <2>1, <2>3 DEF Observed, Row, Phases
    <2> QED
        BY <2>2, <2>3 DEF Reports
<1>3. replicas' \in [Replicas -> Row \cup {NoRow}]
    BY <1>1, <1>2 DEF ObserveReplica, TypeOK
<1>4. faults' \in 0 .. MaxFaults
    BY <1>1, ConstantsAssumption DEF ObserveReplica, TypeOK
<1>5. moved' \subseteq Replicas
    BY <1>1 DEF ObserveReplica, TypeOK, Bump
<1> QED
    BY <1>1, <1>3, <1>4, <1>5 DEF ObserveReplica, TypeOK

\* The host rows keep their type when a health or a status is overwritten.
LEMMA HostTyped ==
    ASSUME TypeOK, NEW h \in Hosts, NEW b \in BOOLEAN, NEW s \in {"open", "cordoned", "draining"}
    PROVE  /\ [hosts EXCEPT ![h].healthy = b] \in [Hosts -> [healthy : BOOLEAN, status : {"open", "cordoned", "draining"}]]
           /\ [hosts EXCEPT ![h].status = s] \in [Hosts -> [healthy : BOOLEAN, status : {"open", "cordoned", "draining"}]]
BY DEF TypeOK

\* The watchdog's sweep keeps the types.
LEMMA WatchdogTyped ==
    ASSUME TypeOK, Watchdog
    PROVE  TypeOK'
<1>1. ASSUME NEW h \in Hosts, MarkStaleHostUnhealthy(h)
      PROVE  TypeOK'
    <2>1. faults' \in 0 .. MaxFaults
        BY <1>1, ConstantsAssumption DEF MarkStaleHostUnhealthy, TypeOK
    <2>2. hosts' \in [Hosts -> [healthy : BOOLEAN, status : {"open", "cordoned", "draining"}]]
        BY <1>1, HostTyped DEF MarkStaleHostUnhealthy
    <2> QED
        BY <1>1, <2>1, <2>2 DEF MarkStaleHostUnhealthy, TypeOK
<1>2. ASSUME NEW h \in Hosts, MarkHostDown(h)
      PROVE  TypeOK'
    <2> DEFINE freed == Undrained(Occupants(h))
    <2>1. freed \subseteq Live /\ freed \subseteq Replicas
        BY DEF Undrained, Occupants, Live
    <2>2. \A r \in freed : [replicas[r] EXCEPT !.host = None, !.healthy = FALSE, !.phase = "replacing"] \in Row
        BY <2>1, LiveRow DEF Row, Phases
    <2>3. replicas' \in [Replicas -> Row \cup {NoRow}]
        BY <1>2, <2>2 DEF MarkHostDown, Write, TypeOK
    <2>4. moved' \subseteq Replicas
        BY <1>2, <2>1 DEF MarkHostDown, TypeOK, Bump
    <2> QED
        BY <1>2, <2>3, <2>4 DEF MarkHostDown, TypeOK
<1>3. CASE CompleteDrainedHosts
    <2>1. hosts' \in [Hosts -> [healthy : BOOLEAN, status : {"open", "cordoned", "draining"}]]
        BY <1>3 DEF CompleteDrainedHosts, TypeOK
    <2> QED
        BY <1>3, <2>1 DEF CompleteDrainedHosts, TypeOK
<1> QED
    BY <1>1, <1>2, <1>3 DEF Watchdog

\* Time passing keeps the types.
LEMMA ClockTyped ==
    ASSUME TypeOK, Clock
    PROVE  TypeOK'
<1>1. ASSUME NEW r \in Replicas, ProgressDeadlinePasses(r)
      PROVE  TypeOK'
    <2>1. [replicas[r] EXCEPT !.gate = "late"] \in Row
        BY <1>1, LiveRow DEF ProgressDeadlinePasses, Row
    <2>2. replicas' \in [Replicas -> Row \cup {NoRow}]
        BY <1>1, <2>1 DEF ProgressDeadlinePasses, TypeOK
    <2> QED
        BY <1>1, <2>2 DEF ProgressDeadlinePasses, TypeOK
<1>2. ASSUME NEW r \in Replicas, DrainWindowElapses(r)
      PROVE  TypeOK'
    <2>1. [replicas[r] EXCEPT !.drained = "elapsed"] \in Row
        BY <1>2, LiveRow DEF DrainWindowElapses, Row
    <2>2. replicas' \in [Replicas -> Row \cup {NoRow}]
        BY <1>2, <2>1 DEF DrainWindowElapses, TypeOK
    <2> QED
        BY <1>2, <2>2 DEF DrainWindowElapses, TypeOK
<1> QED
    BY <1>1, <1>2 DEF Clock

\* Every operator command keeps the types.
LEMMA OperatorTyped ==
    ASSUME TypeOK, Operator
    PROVE  TypeOK'
<1>1. \A name : Op(name) => ops' \in 0 .. MaxOps
    BY ConstantsAssumption DEF Op, TypeOK
<1>2. ASSUME NEW want \in [Regions -> Counts \cup {Absent}], Deploy(want)
      PROVE  TypeOK'
    <2> DEFINE v == Cardinality(Known) + 1
    <2>1. v \in Versions /\ current' = v
        BY <1>2 DEF Deploy
    <2>2. [status |-> "pending", want |-> want] \in Deployment
        BY DEF Deployment, Statuses
    <2>3. \A w \in Versions : [deployments[w] EXCEPT !.status = "superseded"] \in Deployment
        BY DEF TypeOK, Deployment, Statuses
    <2>4. deployments' \in [Versions -> Deployment]
        BY <1>2, <2>2, <2>3 DEF Deploy, TypeOK
    <2> QED
        BY <1>1, <1>2, <2>1, <2>4 DEF Deploy, TypeOK
<1>3. ASSUME NEW v \in Versions, Rollback(v)
      PROVE  TypeOK'
    <2>1. current \in Versions
        BY <1>3 DEF Rollback, TypeOK
    <2>2. CarriedCounts(current, v) \in [Regions -> Counts \cup {Absent}]
        <3>1. deployments[current].want \in [Regions -> Counts \cup {Absent}]
            BY <2>1 DEF TypeOK, Deployment
        <3>2. 0 \in Counts
            BY ConstantsAssumption DEF Counts
        <3> QED
            BY <3>1, <3>2 DEF CarriedCounts
    <2>3. [status |-> "pending", want |-> CarriedCounts(current, v)] \in Deployment
        BY <2>2 DEF Deployment, Statuses
    <2>4. [deployments[current] EXCEPT !.status = "rolledback"] \in Deployment
        BY <2>1 DEF TypeOK, Deployment, Statuses
    <2>5. deployments' \in [Versions -> Deployment]
        BY <1>3, <2>1, <2>3, <2>4 DEF Rollback, TypeOK
    <2> QED
        BY <1>1, <1>3, <2>5 DEF Rollback, TypeOK
<1>4. ASSUME NEW g \in Regions, NEW n \in Counts, Scale(g, n)
      PROVE  TypeOK'
    <2>1. current \in Versions
        BY <1>4 DEF Scale, TypeOK
    <2>2. [deployments[current] EXCEPT !.want[g] = n] \in Deployment
        BY <2>1 DEF TypeOK, Deployment
    <2>3. deployments' \in [Versions -> Deployment]
        BY <1>4, <2>1, <2>2 DEF Scale, TypeOK
    <2> QED
        BY <1>1, <1>4, <2>3 DEF Scale, TypeOK
<1>5. CASE Down
    <2>1. current \in Versions
        BY <1>5 DEF Down, TypeOK
    <2> DEFINE zeroed == [g \in Regions |->
                   IF deployments[current].want[g] = Absent THEN Absent ELSE 0]
    <2>2. zeroed \in [Regions -> Counts \cup {Absent}]
        BY ConstantsAssumption DEF Counts
    <2>3. [deployments[current] EXCEPT !.want = zeroed] \in Deployment
        BY <2>1, <2>2 DEF TypeOK, Deployment
    <2>4. deployments' \in [Versions -> Deployment]
        BY <1>5, <2>1, <2>3 DEF Down, TypeOK
    <2> QED
        BY <1>1, <1>5, <2>4 DEF Down, TypeOK
<1>6. ASSUME NEW h \in Hosts, CordonHost(h) \/ UncordonHost(h) \/ DrainHost(h)
      PROVE  TypeOK'
    <2>1. PICK name \in {"cordon", "uncordon", "drain"},
               from \in SUBSET {"open", "cordoned", "draining"},
               to \in {"open", "cordoned", "draining"} : SetHostStatus(name, h, from, to)
        <3>1. CASE CordonHost(h)
            BY <3>1 DEF CordonHost
        <3>2. CASE UncordonHost(h)
            BY <3>2 DEF UncordonHost
        <3>3. CASE DrainHost(h)
            BY <3>3 DEF DrainHost
        <3> QED BY <1>6, <3>1, <3>2, <3>3
    <2>2. hosts' \in [Hosts -> [healthy : BOOLEAN, status : {"open", "cordoned", "draining"}]]
        BY <2>1, HostTyped DEF SetHostStatus
    <2> QED
        BY <1>1, <2>1, <2>2 DEF SetHostStatus, TypeOK
<1>7. ASSUME NEW r \in Replicas, DeleteReplica(r)
      PROVE  TypeOK'
    BY <1>1, <1>7 DEF DeleteReplica, TypeOK, Bump
<1>8. ASSUME NEW r \in Replicas, RestartReplica(r)
      PROVE  TypeOK'
    <2>1. [replicas[r] EXCEPT !.phase = "replacing", !.host = None,
                              !.healthy = FALSE, !.looping = FALSE] \in Row
        BY <1>8, LiveRow DEF RestartReplica, Row, Phases
    <2>2. replicas' \in [Replicas -> Row \cup {NoRow}]
        BY <1>8, <2>1 DEF RestartReplica, Write, TypeOK
    <2> QED
        BY <1>1, <1>8, <2>2 DEF RestartReplica, TypeOK, Bump
<1> QED
    BY <1>2, <1>3, <1>4, <1>5, <1>6, <1>7, <1>8 DEF Operator

\* Every step keeps the types.
LEMMA NextTyped ==
    ASSUME TypeOK, [Next]_vars
    PROVE  TypeOK'
<1>1. CASE Engine
    BY <1>1, ReconcileTyped, CommitTyped DEF Engine
<1>2. CASE AbandonPass
    BY <1>2, ConstantsAssumption DEF AbandonPass, TypeOK, Bump, dbVars
<1>3. CASE Agent
    BY <1>3, AgentTyped
<1>4. CASE Watchdog
    BY <1>4, WatchdogTyped
<1>5. CASE Clock
    BY <1>5, ClockTyped
<1>6. CASE Operator
    BY <1>6, OperatorTyped
<1>7. ASSUME NEW h \in Hosts, RecordHeartbeat(h)
      PROVE  TypeOK'
    <2>1. hosts' \in [Hosts -> [healthy : BOOLEAN, status : {"open", "cordoned", "draining"}]]
        BY <1>7, HostTyped DEF RecordHeartbeat
    <2> QED
        BY <1>7, <2>1 DEF RecordHeartbeat, TypeOK
<1>8. CASE UNCHANGED vars
    BY <1>8 DEF vars, TypeOK
<1> QED
    BY <1>1, <1>2, <1>3, <1>4, <1>5, <1>6, <1>7, <1>8 DEF Next

\* Type correctness: whatever the interleaving of engine, agents, watchdog
\* and operator, every column keeps its type and every pending intent names
\* what its transaction dereferences (the actuator's commit).
THEOREM TypeCorrect == Spec => []TypeOK
<1>1. Init => TypeOK
    BY ConstantsAssumption DEF Init, TypeOK, Deployment, NoCommit, Statuses
<1>2. TypeOK /\ [Next]_vars => TypeOK'
    BY NextTyped
<1> QED
    BY <1>1, <1>2, PTL DEF Spec

-----------------------------------------------------------------------------
(***************************************************************************)
(* Safety.  None of these properties is inductive: what a transaction may  *)
(* do to a row depends on what the decision behind it still guarantees, so *)
(* they are proved together with IntentsSound.                             *)
(***************************************************************************)

\* The inductive invariant.
Inv == TypeOK /\ RowConsistent /\ IntentsSound

\* RowConsistent for one row.
RowOK(row) ==
    /\ row.drained # "none" <=> row.phase = "draining"
    /\ row.phase \in {"pending", "replacing"} => row.host = None
    /\ row.phase = "pending" => ~row.looping
    /\ row.host = None => /\ row.phase \in {"pending", "replacing", "draining"}
                          /\ ~row.healthy
    /\ row.healthy => row.gate = "passed"

\* IntentsSound for one intent.
IntentOK(i) ==
    i.replica \in Live =>
        LET row == replicas[i.replica]
        IN  /\ i.kind = "assign"  => row.host = None /\ row.drained = "none"
            /\ i.kind = "freeze"  => row.phase # "pending"
            /\ i.kind = "destroy" => Spare(row)
            /\ i.kind \in {"drain", "switch"} /\ i.replica \notin moved
                   => row.phase \notin {"draining", "failed"}

\* The same as the snapshot shows it, when no revision has moved yet.
Apt(i) ==
    LET row == replicas[i.replica]
    IN  /\ i.kind = "assign"  => row.host = None /\ row.drained = "none"
        /\ i.kind = "freeze"  => row.phase # "pending"
        /\ i.kind = "destroy" => Spare(row)
        /\ i.kind \in {"drain", "switch"} => row.phase \notin {"draining", "failed"}
        /\ i.replica # None => i.replica \in Live /\ row.slot = i.slot

\* No two intents of a set name the same replica.
Distinct(its) == \A i, j \in its : i.replica # None /\ i.replica = j.replica => i = j

\* The two invariants, one row and one intent at a time.
LEMMA InvParts ==
    /\ RowConsistent <=> \A r \in Live : RowOK(replicas[r])
    /\ IntentsSound <=> Distinct(intents) /\ \A i \in intents : IntentOK(i)
BY DEF RowConsistent, RowOK, IntentsSound, IntentOK, Distinct

-----------------------------------------------------------------------------
(* What a rule decides about the rows of its group.                        *)

\* The rows of a group that an intent of each kind may name.
Decided(i, g) ==
    /\ i.slot = g.slot
    /\ i.kind = "assign"  => i.replica \in hostless(g)
    /\ i.kind = "drain"   => i.replica \in g.target
    /\ i.kind = "switch"  => i.replica \in drainable(g)
    /\ i.kind = "freeze"  => i.replica \in overRestartBudget(g)
    /\ i.kind = "destroy" => \/ i.replica \in g.frozen \/ i.replica \in hostless(g)
                             \/ i.replica \in drainWindowElapsed(g)
                             \/ i.replica \in failedOutgoing(g)
    /\ i.kind \in {"create", "fail", "complete"} => i.replica = None

\* A batch of intents of one kind names each replica once.
LEMMA PerReplicaDistinct ==
    ASSUME NEW kind, NEW g, NEW S
    PROVE  /\ Distinct(PerReplica(kind, g, S))
           /\ \A i \in PerReplica(kind, g, S) : i.kind = kind /\ i.slot = g.slot /\ i.replica \in S
BY DEF Distinct, PerReplica, Intent

\* Every rule names rows of the bucket its When looked at, each once.
LEMMA ThenDecided ==
    ASSUME NEW g, GroupOK(g), g.target \cap g.frozen = {},
           NEW rule \in Rules, NEW its \in Then(rule, g)
    PROVE  Distinct(its) /\ \A i \in its : Decided(i, g)
<1>1. ASSUME NEW n, NEW kind \in {"fail", "complete"}
      PROVE  /\ Distinct({Intent(kind, g, None, n)})
             /\ \A i \in {Intent(kind, g, None, n)} : Decided(i, g)
    BY DEF Intent, Decided, Distinct
<1>2. CASE rule = "deploymentFrozen"
    BY <1>2, PerReplicaDistinct DEF Then, Decided
<1>3. CASE rule = "crashLooping"
    <2>1. CASE g.status = "active"
        BY <1>3, <2>1, PerReplicaDistinct DEF Then, CrashVerdict, Decided
    <2>2. CASE g.status # "active"
        BY <1>1, <1>3, <2>2 DEF Then, CrashVerdict
    <2> QED BY <2>1, <2>2
<1>4. CASE rule = "trimHostlessExcess"
    <2>1. PICK S \in SUBSET hostless(g) : its = PerReplica("destroy", g, S)
        BY <1>4 DEF Then, TrimHostless, kSubset
    <2> QED
        BY <2>1, PerReplicaDistinct DEF Decided
<1>5. CASE rule = "anyHostlessReplicas"
    BY <1>5, PerReplicaDistinct DEF Then, Decided
<1>6. CASE rule \in {"newHealthOpenPastDeadline", "rolloutComplete"}
    BY <1>1, <1>6 DEF Then
<1>7. CASE rule = "notAllHealthy"
    BY <1>7 DEF Then, Distinct
<1>8. CASE rule = "rollingRampUp"
    BY <1>8 DEF Then, RampUp, Intent, Distinct, Decided
<1>9. CASE rule = "rollingScaleDown"
    <2>1. PICK F \in SUBSET g.frozen, D \in SUBSET g.target :
              its = PerReplica("destroy", g, F) \cup PerReplica("drain", g, D)
        BY <1>9 DEF Then, ScaleDown, kSubset
    <2>2. \A i \in its : Decided(i, g)
        BY <2>1, PerReplicaDistinct DEF Decided
    <2>3. Distinct(its)
        BY <2>1, PerReplicaDistinct DEF Distinct
    <2> QED
        BY <2>2, <2>3
<1>10. CASE rule = "drainOutgoing"
    BY <1>10, PerReplicaDistinct DEF Then, Decided
<1>11. CASE rule = "reapDrained"
    BY <1>11, PerReplicaDistinct DEF Then, Decided
<1>12. CASE rule = "reapFailedOutgoing"
    BY <1>12, PerReplicaDistinct DEF Then, Decided
<1> QED
    BY <1>2, <1>3, <1>4, <1>5, <1>6, <1>7, <1>8, <1>9, <1>10, <1>11, <1>12 DEF Rules

\* Whatever a group fires names its own rows, each once.
LEMMA FireRulesDecided ==
    ASSUME NEW g, GroupOK(g), g.target \cap g.frozen = {}, NEW its \in fireRules(g)
    PROVE  Distinct(its) /\ \A i \in its : Decided(i, g)
<1> DEFINE cascade == cascadeOf(g)
           first   == {k \in DOMAIN cascade : /\ When(cascade[k], g)
                                              /\ \A j \in 1 .. k - 1 : ~When(cascade[j], g)}
<1>1. CASE first = {}
    BY <1>1 DEF fireRules, Distinct
<1>2. CASE first # {}
    <2>1. PICK k \in first : its \in Then(cascade[k], g)
        BY <1>2 DEF fireRules
    <2>2. cascade[k] \in Rules
        BY CascadeRules
    <2> QED
        BY <2>1, <2>2, ThenDecided
<1> QED
    BY <1>1, <1>2

\* A decision about a slot is sound for the rows it was made on.
LEMMA DecidedSound ==
    ASSUME TypeOK, RowConsistent, NEW g \in Regions, NEW i, Decided(i, Group(g)), i \in RawIntents
    PROVE  Apt(i)
<1> DEFINE grp == Group(g)
<1>1. /\ grp.row = replicas /\ grp.slot = g
      /\ \A r \in grp.target : /\ r \in Live /\ replicas[r].slot = g
                               /\ replicas[r].drained = "none" /\ replicas[r].phase # "failed"
      /\ \A r \in grp.frozen : /\ r \in Live /\ replicas[r].slot = g
                               /\ replicas[r].phase = "failed"
      /\ \A r \in grp.outgoing : r \in Live /\ replicas[r].slot = g
    BY DEF Group
<1>2. \A r \in Live : RowOK(replicas[r])
    BY InvParts
<1>3. /\ \A r \in hostless(grp) : r \in grp.target /\ replicas[r].host = None
      /\ \A r \in overRestartBudget(grp) : r \in grp.target /\ replicas[r].looping
      /\ \A r \in drainable(grp) : r \in grp.outgoing /\ replicas[r].phase \notin {"draining", "failed"}
      /\ \A r \in drainWindowElapsed(grp) : r \in grp.outgoing /\ replicas[r].drained = "elapsed"
      /\ \A r \in failedOutgoing(grp) : r \in grp.outgoing /\ replicas[r].phase = "failed"
    BY <1>1 DEF hostless, overRestartBudget, drainable, drainWindowElapsed, failedOutgoing
<1> HIDE DEF grp
<1>4. i.kind \in {"create", "assign", "drain", "switch", "destroy", "freeze", "fail", "complete"}
    BY DEF RawIntents
<1>5. Decided(i, grp)
    BY DEF grp
<1> QED
    BY <1>1, <1>2, <1>3, <1>4, <1>5, ConstantsAssumption DEF Decided, Apt, RowOK, Spare

\* A whole pass decides soundly and names each replica once, across slots.
LEMMA DecisionsSound ==
    ASSUME TypeOK, RowConsistent, NEW its \in Decisions
    PROVE  Distinct(its) /\ \A i \in its : Apt(i)
<1> DEFINE firing(g) == UNION {fireRules(x) : x \in {Group(g)}}
<1>1. PICK c \in [Regions -> UNION {firing(g) : g \in Regions}] :
          /\ \A g \in Regions : c[g] \in firing(g)
          /\ its = UNION {c[g] : g \in Regions}
    BY DEF Decisions
<1>2. \A g \in Regions : c[g] \in fireRules(Group(g))
    BY <1>1
<1>3. ASSUME NEW g \in Regions
      PROVE  Group(g).target \cap Group(g).frozen = {} /\ Group(g).slot = g
    BY DEF Group
<1>4. \A g \in Regions : Distinct(c[g]) /\ \A i \in c[g] : Decided(i, Group(g))
    BY <1>2, <1>3, GroupIsOK, FireRulesDecided
<1>5. \A g \in Regions : \A i \in c[g] : Apt(i) /\ i.slot = g
    <2>1. its \subseteq RawIntents
        BY DecisionsRaw
    <2> QED
        BY <1>1, <1>3, <1>4, <2>1, DecidedSound DEF Decided
<1>6. ASSUME NEW i \in its, NEW j \in its, i.replica # None, i.replica = j.replica
      PROVE  i = j
    <2>1. PICK g \in Regions, h \in Regions : i \in c[g] /\ j \in c[h]
        BY <1>1
    <2>2. g = h
        BY <1>5, <1>6, <2>1 DEF Apt
    <2> QED
        BY <1>4, <1>6, <2>1, <2>2 DEF Distinct
<1> QED
    BY <1>1, <1>5, <1>6 DEF Distinct

\* Placing keeps the decisions sound: it adds hosts and drops intents.
LEMMA PlaceSound ==
    ASSUME NEW its, Distinct(its), its \subseteq RawIntents, \A i \in its : Apt(i),
           NEW out \in placeHostless(its)
    PROVE  Distinct(out) /\ \A i \in out : Apt(i)
<1> DEFINE asking == {i.replica : i \in {j \in its : j.kind = "assign"}}
<1>1. PICK p \in [asking -> Hosts \cup {None}] :
          out = {i \in its : i.kind # "assign"}
                  \cup {[i EXCEPT !.host = p[i.replica]] :
                           i \in {j \in its : j.kind = "assign" /\ p[j.replica] # None}}
    BY DEF placeHostless
<1>2. ASSUME NEW i \in out
      PROVE  \E k \in its : /\ i = k \/ i = [k EXCEPT !.host = p[k.replica]]
                            /\ i.kind = k.kind /\ i.replica = k.replica /\ i.slot = k.slot
                            /\ k.kind = "assign" => i = [k EXCEPT !.host = p[k.replica]]
                            /\ k.kind # "assign" => i = k
    BY <1>1 DEF RawIntents
<1>3. Distinct(out)
    BY <1>2 DEF Distinct
<1>4. \A i \in out : Apt(i)
    BY <1>2 DEF Apt
<1> QED
    BY <1>3, <1>4

-----------------------------------------------------------------------------
(* What one step does to one row.                                          *)

\* It leaves it, deletes it with cause, mints it, or rewrites it without
\* undoing a drain.
RowMove(r) ==
    \/ replicas'[r] = replicas[r]
    \/ r \in Live /\ replicas'[r] = NoRow /\ (ops' = ops => Spare(replicas[r]))
    \/ r \notin Live /\ RowOK(replicas'[r])
    \/ /\ r \in Live /\ replicas'[r] # NoRow /\ RowOK(replicas'[r])
       /\ replicas[r].drained # "none" => replicas'[r].phase = "draining"

\* It takes up no room the row did not have.
NoNewLoad(r) ==
    replicas'[r] # NoRow /\ replicas'[r].host # None /\ replicas'[r].phase # "failed" =>
        /\ r \in Live /\ replicas[r].phase # "failed"
        /\ replicas[r].host = replicas'[r].host

Reserves(i) == AssignReplicaHost(i) /\ Reservable(i)

RowStep(r) == RowMove(r) /\ (NoNewLoad(r) \/ \E i \in intents : Reserves(i) /\ i.replica = r)

\* A row is not the absence of one.
LEMMA RowIsRow ==
    ASSUME NEW row \in Row
    PROVE  row # NoRow
BY ConstantsAssumption DEF Row, NoRow, Versions, NoDeployment

\* A row nobody writes.
LEMMA SameRow ==
    ASSUME TypeOK, NEW r \in Replicas, replicas'[r] = replicas[r]
    PROVE  RowStep(r)
BY DEF RowStep, RowMove, NoNewLoad, Live

\* Draining a consistent row that had not failed.
LEMMA DrainStep ==
    ASSUME TypeOK, NEW r \in Live, RowOK(replicas[r]), replicas[r].phase # "failed",
           replicas'[r] = Drain(replicas[r])
    PROVE  RowStep(r)
<1>1. replicas[r] \in Row
    BY LiveRow
<1>2. replicas'[r] \in Row
    BY <1>1, DrainTyped
<1>3. /\ replicas'[r].phase = "draining" /\ replicas'[r].drained = "bleeding"
      /\ replicas'[r].host = replicas[r].host /\ replicas'[r].healthy = replicas[r].healthy
      /\ replicas'[r].gate = replicas[r].gate
    BY <1>1 DEF Drain, Row
<1> QED
    BY <1>2, <1>3, RowIsRow DEF RowStep, RowMove, NoNewLoad, RowOK

\* A transaction of the actuator.
LEMMA CommitRowStep ==
    ASSUME Inv, Commit, NEW r \in Replicas
    PROVE  RowStep(r)
<1> USE DEF Inv
<1>1. /\ \A q \in Live : RowOK(replicas[q]) /\ replicas[q] \in Row /\ replicas[q] # NoRow
      /\ \A i \in intents : i \in Intents /\ IntentOK(i)
    BY InvParts, LiveRow, RowIsRow DEF TypeOK
<1>2. ASSUME NEW i \in intents, CreateReplica(i)
      PROVE  RowStep(r)
    <2>1. PICK q \in Replicas : Fresh(q) /\ replicas' = [replicas EXCEPT ![q] = NewRow(i.dep, i.slot)]
        BY <1>2 DEF CreateReplica
    <2>2. CASE r # q
        BY <2>1, <2>2, SameRow DEF TypeOK
    <2>3. CASE r = q
        <3>1. replicas'[r] = NewRow(i.dep, i.slot) /\ r \notin Live
            BY <2>1, <2>3 DEF TypeOK, Fresh, Live
        <3> QED
            BY <3>1 DEF RowStep, RowMove, NoNewLoad, NewRow, RowOK
    <2> QED BY <2>2, <2>3
<1>3. ASSUME NEW i \in intents, AssignReplicaHost(i)
      PROVE  RowStep(r)
    <2>1. CASE ~Reservable(i) \/ r # i.replica
        <3>1. replicas'[r] = replicas[r]
            BY <1>3, <2>1 DEF AssignReplicaHost, Write
        <3> QED BY <3>1, SameRow
    <2>2. CASE Reservable(i) /\ r = i.replica
        <3>1. r \in Live /\ i.kind = "assign" /\ i.host \in Hosts
            BY <1>1, <1>3, <2>2 DEF AssignReplicaHost, Reservable, Intents
        <3>2. replicas'[r] = [replicas[r] EXCEPT !.host = i.host, !.phase = "scheduling"]
            BY <1>3, <2>2 DEF AssignReplicaHost, Write
        <3>3. replicas[r].drained = "none"
            BY <1>1, <2>2, <3>1 DEF IntentOK
        <3>4. replicas'[r] \in Row
            BY <1>1, <3>1, <3>2 DEF Row, Phases
        <3>5. /\ replicas'[r].phase = "scheduling" /\ replicas'[r].host # None
              /\ replicas'[r].drained = "none" /\ replicas'[r].healthy = replicas[r].healthy
              /\ replicas'[r].gate = replicas[r].gate
            BY <1>1, <3>1, <3>2, <3>3, ConstantsAssumption DEF Row
        <3>6. RowMove(r)
            BY <1>1, <3>1, <3>3, <3>4, <3>5, RowIsRow DEF RowMove, RowOK
        <3> QED
            BY <1>3, <2>2, <3>6 DEF RowStep, Reserves
    <2> QED BY <2>1, <2>2
<1>4. ASSUME NEW i \in intents, DrainReplica(i)
      PROVE  RowStep(r)
    <2>1. CASE ~CASHolds(i.replica) \/ r # i.replica
        <3>1. replicas'[r] = replicas[r]
            BY <1>4, <2>1 DEF DrainReplica, Write
        <3> QED BY <3>1, SameRow
    <2>2. CASE CASHolds(i.replica) /\ r = i.replica
        <3>1. r \in Live /\ replicas[r].phase # "failed"
            BY <1>1, <1>4, <2>2 DEF CASHolds, IntentOK, DrainReplica
        <3>2. replicas'[r] = Drain(replicas[r])
            BY <1>4, <2>2 DEF DrainReplica, Write
        <3> QED BY <1>1, <3>1, <3>2, DrainStep
    <2> QED BY <2>1, <2>2
<1>5. ASSUME NEW i \in intents, FreezeReplica(i)
      PROVE  RowStep(r)
    <2> DEFINE freezes == i.replica \in Live /\ ~OrchestratorOwned(replicas[i.replica].phase)
    <2>1. CASE ~freezes \/ r # i.replica
        <3>1. replicas'[r] = replicas[r]
            BY <1>5, <2>1 DEF FreezeReplica, Write
        <3> QED BY <3>1, SameRow
    <2>2. CASE freezes /\ r = i.replica
        <3>1. replicas'[r] = [replicas[r] EXCEPT !.phase = "failed", !.healthy = FALSE]
            BY <1>5, <2>2 DEF FreezeReplica, Write
        <3>2. r \in Live /\ replicas[r].phase \notin {"draining", "failed", "replacing", "pending"}
            BY <1>1, <1>5, <2>2 DEF FreezeReplica, IntentOK, OrchestratorOwned
        <3>3. replicas'[r] \in Row
            BY <1>1, <3>1, <3>2 DEF Row, Phases
        <3>4. replicas'[r].phase = "failed" /\ replicas'[r].healthy = FALSE
              /\ replicas'[r].host = replicas[r].host /\ replicas'[r].drained = replicas[r].drained
            BY <1>1, <3>1, <3>2 DEF Row
        <3> QED
            BY <1>1, <3>2, <3>3, <3>4, RowIsRow DEF RowStep, RowMove, NoNewLoad, RowOK
    <2> QED BY <2>1, <2>2
<1>6. ASSUME NEW i \in intents, DestroyReplica(i)
      PROVE  RowStep(r)
    <2>1. CASE r # i.replica \/ r \notin Live
        <3>1. replicas'[r] = replicas[r]
            BY <1>6, <2>1 DEF DestroyReplica, TypeOK, Live
        <3> QED BY <3>1, SameRow
    <2>2. CASE r = i.replica /\ r \in Live
        <3>1. replicas'[r] = NoRow /\ Spare(replicas[r])
            BY <1>1, <1>6, <2>2 DEF DestroyReplica, IntentOK, TypeOK
        <3> QED
            BY <2>2, <3>1 DEF RowStep, RowMove, NoNewLoad
    <2> QED BY <2>1, <2>2
<1>7. ASSUME NEW i \in intents, FailDeployment(i) \/ CompleteDeployment(i)
      PROVE  RowStep(r)
    BY <1>7, SameRow DEF FailDeployment, CompleteDeployment
<1>8. ASSUME NEW g \in Regions, SwitchTraffic(g)
      PROVE  RowStep(r)
    <2> DEFINE retiring == {i.replica : i \in SwitchBatch(g)}
    <2>1. CASE ~(\A q \in retiring : CASHolds(q)) \/ r \notin retiring
        <3>1. replicas'[r] = replicas[r]
            BY <1>8, <2>1 DEF SwitchTraffic, Write
        <3> QED BY <3>1, SameRow
    <2>2. CASE (\A q \in retiring : CASHolds(q)) /\ r \in retiring
        <3>1. PICK i \in SwitchBatch(g) : r = i.replica
            BY <2>2
        <3>2. r \in Live /\ replicas[r].phase # "failed"
            BY <1>1, <2>2, <3>1 DEF CASHolds, IntentOK, SwitchBatch
        <3>3. replicas'[r] = Drain(replicas[r])
            BY <1>8, <2>2 DEF SwitchTraffic, Write
        <3> QED BY <1>1, <3>2, <3>3, DrainStep
    <2> QED BY <2>1, <2>2
<1> QED
    BY <1>2, <1>3, <1>4, <1>5, <1>6, <1>7, <1>8 DEF Commit

\* An agent's report.
LEMMA AgentRowStep ==
    ASSUME Inv, Agent, NEW r \in Replicas
    PROVE  RowStep(r)
<1> USE DEF Inv
<1>1. PICK q \in Replicas, o \in Reports : ObserveReplica(q, o)
    BY DEF Agent
<1>2. CASE r # q
    BY <1>1, <1>2, SameRow DEF ObserveReplica, TypeOK
<1>3. CASE r = q
    <2>1. /\ r \in Live /\ replicas[r] \in Row /\ RowOK(replicas[r])
          /\ replicas[r].host # None
          /\ replicas[r].phase \notin {"draining", "failed", "replacing"}
        BY <1>1, <1>3, InvParts, LiveRow DEF ObserveReplica, OrchestratorOwned
    <2>2. replicas'[r] = Observed(replicas[r], o)
        BY <1>1, <1>3 DEF ObserveReplica, TypeOK
    <2>3. /\ replicas'[r].phase = o.phase /\ replicas'[r].host = replicas[r].host
          /\ replicas'[r].drained = replicas[r].drained
          /\ replicas'[r].healthy <=> o.phase = "active"
          /\ o.phase = "active" => replicas'[r].gate = "passed"
          /\ replicas'[r].dep = replicas[r].dep
        BY <2>1, <2>2 DEF Observed, Row
    <2>4. o.phase \in {"starting", "active", "failed"}
        BY DEF Reports
    <2>5. replicas'[r] # NoRow
        BY <2>1, <2>3, ConstantsAssumption DEF Row, NoRow, Versions, NoDeployment
    <2> QED
        BY <2>1, <2>3, <2>4, <2>5 DEF RowStep, RowMove, NoNewLoad, RowOK
<1> QED BY <1>2, <1>3

\* The watchdog's sweep.
LEMMA WatchdogRowStep ==
    ASSUME Inv, Watchdog, NEW r \in Replicas
    PROVE  RowStep(r)
<1> USE DEF Inv
<1>1. ASSUME NEW h \in Hosts, MarkHostDown(h)
      PROVE  RowStep(r)
    <2> DEFINE freed == Undrained(Occupants(h))
    <2>1. CASE r \notin freed
        BY <1>1, <2>1, SameRow DEF MarkHostDown, Write
    <2>2. CASE r \in freed
        <3>1. r \in Live /\ replicas[r] \in Row /\ RowOK(replicas[r]) /\ replicas[r].drained = "none"
            BY <2>2, InvParts, LiveRow DEF Undrained, Occupants
        <3>2. replicas'[r] = [replicas[r] EXCEPT !.host = None, !.healthy = FALSE, !.phase = "replacing"]
            BY <1>1, <2>2 DEF MarkHostDown, Write
        <3>3. replicas'[r] \in Row
            BY <3>1, <3>2 DEF Row, Phases
        <3>4. /\ replicas'[r].phase = "replacing" /\ replicas'[r].host = None
              /\ replicas'[r].drained = "none" /\ replicas'[r].healthy = FALSE
            BY <3>1, <3>2 DEF Row
        <3> QED
            BY <3>1, <3>3, <3>4, RowIsRow DEF RowStep, RowMove, NoNewLoad, RowOK
    <2> QED BY <2>1, <2>2
<1>2. ASSUME NEW h \in Hosts, MarkStaleHostUnhealthy(h)
      PROVE  RowStep(r)
    BY <1>2, SameRow DEF MarkStaleHostUnhealthy
<1>3. CASE CompleteDrainedHosts
    BY <1>3, SameRow DEF CompleteDrainedHosts
<1> QED
    BY <1>1, <1>2, <1>3 DEF Watchdog

\* Time passing.
LEMMA ClockRowStep ==
    ASSUME Inv, Clock, NEW r \in Replicas
    PROVE  RowStep(r)
<1> USE DEF Inv
<1>1. \A q \in Live : replicas[q] \in Row /\ RowOK(replicas[q])
    BY InvParts, LiveRow
<1>2. ASSUME NEW q \in Replicas, ProgressDeadlinePasses(q)
      PROVE  RowStep(r)
    <2>1. CASE r # q
        BY <1>2, <2>1, SameRow DEF ProgressDeadlinePasses, TypeOK
    <2>2. CASE r = q
        <3>1. r \in Live /\ replicas[r].gate = "open"
            BY <1>2, <2>2 DEF ProgressDeadlinePasses
        <3>2. replicas'[r] = [replicas[r] EXCEPT !.gate = "late"]
            BY <1>2, <2>2 DEF ProgressDeadlinePasses, TypeOK
        <3>3. replicas'[r] \in Row
            BY <1>1, <3>1, <3>2 DEF Row
        <3>4. /\ replicas'[r].phase = replicas[r].phase /\ replicas'[r].host = replicas[r].host
              /\ replicas'[r].drained = replicas[r].drained /\ replicas'[r].healthy = replicas[r].healthy
              /\ replicas'[r].looping = replicas[r].looping
            BY <1>1, <3>1, <3>2 DEF Row
        <3> QED
            BY <1>1, <3>1, <3>3, <3>4, RowIsRow DEF RowStep, RowMove, NoNewLoad, RowOK
    <2> QED BY <2>1, <2>2
<1>3. ASSUME NEW q \in Replicas, DrainWindowElapses(q)
      PROVE  RowStep(r)
    <2>1. CASE r # q
        BY <1>3, <2>1, SameRow DEF DrainWindowElapses, TypeOK
    <2>2. CASE r = q
        <3>1. r \in Live /\ replicas[r].drained = "bleeding"
            BY <1>3, <2>2 DEF DrainWindowElapses
        <3>2. replicas'[r] = [replicas[r] EXCEPT !.drained = "elapsed"]
            BY <1>3, <2>2 DEF DrainWindowElapses, TypeOK
        <3>3. replicas'[r] \in Row
            BY <1>1, <3>1, <3>2 DEF Row
        <3>4. /\ replicas'[r].phase = replicas[r].phase /\ replicas'[r].host = replicas[r].host
              /\ replicas'[r].drained = "elapsed" /\ replicas'[r].healthy = replicas[r].healthy
              /\ replicas'[r].looping = replicas[r].looping /\ replicas'[r].gate = replicas[r].gate
            BY <1>1, <3>1, <3>2 DEF Row
        <3> QED
            BY <1>1, <3>1, <3>3, <3>4, RowIsRow DEF RowStep, RowMove, NoNewLoad, RowOK
    <2> QED BY <2>1, <2>2
<1> QED
    BY <1>2, <1>3 DEF Clock

\* An operator's command.
LEMMA OperatorRowStep ==
    ASSUME Inv, Operator, NEW r \in Replicas
    PROVE  RowStep(r)
<1> USE DEF Inv
<1>1. ASSUME NEW q \in Replicas, DeleteReplica(q)
      PROVE  RowStep(r)
    <2>1. CASE r # q
        BY <1>1, <2>1, SameRow DEF DeleteReplica, TypeOK
    <2>2. CASE r = q
        <3>1. r \in Live /\ replicas'[r] = NoRow /\ ops' # ops
            BY <1>1, <2>2 DEF DeleteReplica, TypeOK, Op
        <3> QED
            BY <3>1 DEF RowStep, RowMove, NoNewLoad
    <2> QED BY <2>1, <2>2
<1>2. ASSUME NEW q \in Replicas, RestartReplica(q)
      PROVE  RowStep(r)
    <2>1. CASE r # q
        BY <1>2, <2>1, SameRow DEF RestartReplica, Write
    <2>2. CASE r = q
        <3>1. r \in Live /\ replicas[r] \in Row /\ RowOK(replicas[r]) /\ replicas[r].phase = "failed"
            BY <1>2, <2>2, InvParts, LiveRow DEF RestartReplica
        <3>2. replicas'[r] = [replicas[r] EXCEPT !.phase = "replacing", !.host = None,
                                                 !.healthy = FALSE, !.looping = FALSE]
            BY <1>2, <2>2 DEF RestartReplica, Write
        <3>3. replicas'[r] \in Row
            BY <3>1, <3>2 DEF Row, Phases
        <3>4. /\ replicas'[r].phase = "replacing" /\ replicas'[r].host = None
              /\ replicas'[r].drained = replicas[r].drained /\ replicas'[r].healthy = FALSE
            BY <3>1, <3>2 DEF Row
        <3> QED
            BY <3>1, <3>3, <3>4, RowIsRow DEF RowStep, RowMove, NoNewLoad, RowOK
    <2> QED BY <2>1, <2>2
<1>3. ASSUME \/ \E want \in [Regions -> Counts \cup {Absent}] : Deploy(want)
             \/ \E v \in Versions : Rollback(v)
             \/ \E g \in Regions, n \in Counts : Scale(g, n)
             \/ Down
             \/ \E h \in Hosts : CordonHost(h) \/ UncordonHost(h) \/ DrainHost(h)
      PROVE  RowStep(r)
    BY <1>3, SameRow DEF Deploy, Rollback, Scale, Down, CordonHost, UncordonHost, DrainHost, SetHostStatus
<1> QED
    BY <1>1, <1>2, <1>3 DEF Operator

\* Any step at all.
LEMMA NextRowStep ==
    ASSUME Inv, [Next]_vars, NEW r \in Replicas
    PROVE  RowStep(r)
<1>1. CASE Reconcile \/ AbandonPass \/ UNCHANGED vars \/ \E h \in Hosts : RecordHeartbeat(h)
    BY <1>1, SameRow DEF Reconcile, AbandonPass, RecordHeartbeat, vars, dbVars, Inv
<1> QED
    BY <1>1, CommitRowStep, AgentRowStep, WatchdogRowStep, ClockRowStep, OperatorRowStep DEF Next, Engine

-----------------------------------------------------------------------------
(* Pending intents stay sound.                                             *)

\* A revision that moves is remembered for as long as an intent names the row.
LEMMA BumpRemembers ==
    ASSUME NEW S, Bump(S), NEW i \in intents', i.replica \in moved \cup S
    PROVE  i.replica \in moved'
BY DEF Bump

\* An intent whose row nobody wrote.
LEMMA UntouchedIntent ==
    ASSUME NEW i, IntentOK(i), replicas'[i.replica] = replicas[i.replica],
           i.replica \in moved => i.replica \in moved'
    PROVE  IntentOK(i)'
BY DEF IntentOK, Live, Spare

\* The engine's own transactions write no row another pending intent names.
LEMMA CommitSound ==
    ASSUME Inv, Commit
    PROVE  IntentsSound'
<1> USE DEF Inv
<1>1. \A i \in intents : i \in Intents /\ IntentOK(i) /\ (i.replica = None \/ i.replica \in Replicas)
    BY InvParts DEF TypeOK, Intents
<1>2. Distinct(intents)
    BY InvParts
<1>3. None \notin Replicas
    BY ConstantsAssumption
<1>4. ASSUME intents' \subseteq intents, NEW S, Bump(S),
             \A i \in intents' : i.replica \in Replicas => replicas'[i.replica] = replicas[i.replica]
      PROVE  IntentsSound'
    <2>1. Distinct(intents')
        BY <1>2, <1>4 DEF Distinct
    <2>2. ASSUME NEW i \in intents'
          PROVE  IntentOK(i)'
        <3>1. CASE i.replica = None
            BY <1>3, <3>1 DEF IntentOK, Live
        <3>2. CASE i.replica \in Replicas
            BY <1>1, <1>4, <3>2, BumpRemembers, UntouchedIntent
        <3> QED BY <1>1, <1>4, <3>1, <3>2
    <2> QED
        BY <2>1, <2>2 DEF IntentsSound, IntentOK, Distinct
<1>5. ASSUME NEW i \in intents, CreateReplica(i)
      PROVE  IntentsSound'
    <2>1. PICK q \in Replicas : Fresh(q) /\ replicas' = [replicas EXCEPT ![q] = NewRow(i.dep, i.slot)]
        BY <1>5 DEF CreateReplica
    <2>2. \A j \in intents' : j.replica \in Replicas => replicas'[j.replica] = replicas[j.replica]
        BY <1>5, <2>1 DEF CreateReplica, Fresh, TypeOK
    <2> QED
        BY <1>4, <1>5, <2>2 DEF CreateReplica
<1>6. ASSUME NEW i \in intents, i.kind \in {"assign", "drain", "freeze", "destroy"},
             intents' = intents \ {i}, NEW S, Bump(S),
             \A r \in Replicas \ {i.replica} : replicas'[r] = replicas[r]
      PROVE  IntentsSound'
    <2>1. i.replica # None
        BY <1>1, <1>6 DEF Intents
    <2>2. \A j \in intents' : j.replica # i.replica
        BY <1>2, <1>6, <2>1 DEF Distinct
    <2> QED
        BY <1>4, <1>6, <2>2
<1>7. ASSUME NEW i \in intents, AssignReplicaHost(i)
      PROVE  IntentsSound'
    BY <1>6, <1>7 DEF AssignReplicaHost, Write
<1>8. ASSUME NEW i \in intents, DrainReplica(i)
      PROVE  IntentsSound'
    BY <1>6, <1>8 DEF DrainReplica, Write
<1>9. ASSUME NEW i \in intents, FreezeReplica(i)
      PROVE  IntentsSound'
    BY <1>6, <1>9 DEF FreezeReplica, Write
<1>10. ASSUME NEW i \in intents, DestroyReplica(i)
       PROVE  IntentsSound'
    BY <1>6, <1>10 DEF DestroyReplica, TypeOK
<1>11. ASSUME NEW i \in intents, FailDeployment(i) \/ CompleteDeployment(i)
       PROVE  IntentsSound'
    BY <1>4, <1>11 DEF FailDeployment, CompleteDeployment
<1>12. ASSUME NEW g \in Regions, SwitchTraffic(g)
       PROVE  IntentsSound'
    <2> DEFINE retiring == {i.replica : i \in SwitchBatch(g)}
    <2>1. \A i \in SwitchBatch(g) : i \in intents /\ i.replica # None
        BY <1>1 DEF SwitchBatch, Intents
    <2>2. \A j \in intents' : j.replica \notin retiring
        BY <1>2, <1>12, <2>1 DEF SwitchTraffic, Distinct
    <2>3. \A r \in Replicas \ retiring : replicas'[r] = replicas[r]
        BY <1>12 DEF SwitchTraffic, Write
    <2>4. intents' \subseteq intents /\ Bump(retiring)
        BY <1>12 DEF SwitchTraffic
    <2> QED
        BY <1>4, <2>2, <2>3, <2>4
<1> QED
    BY <1>5, <1>7, <1>8, <1>9, <1>10, <1>11, <1>12 DEF Commit

\* A new pass starts sound.
LEMMA ReconcileSound ==
    ASSUME Inv, Reconcile
    PROVE  IntentsSound'
<1> USE DEF Inv
<1>1. PICK its \in Decisions : intents' \in placeHostless(its)
    BY DEF Reconcile
<1>2. Distinct(intents') /\ \A i \in intents' : Apt(i)
    BY <1>1, DecisionsSound, DecisionsRaw, PlaceSound
<1>3. replicas' = replicas
    BY DEF Reconcile, dbVars
<1> QED
    BY <1>2, <1>3 DEF IntentsSound, Distinct, Apt, Live, Spare

\* Every other writer either bumps the revision of the rows it writes or
\* leaves them as the pending intents need them.
LEMMA OthersSound ==
    ASSUME Inv, Agent \/ Watchdog \/ Clock \/ Operator
    PROVE  IntentsSound'
<1> USE DEF Inv
<1>1. /\ \A i \in intents : IntentOK(i)
      /\ \A r \in Live : RowOK(replicas[r]) /\ replicas[r] \in Row
      /\ Distinct(intents)
    BY InvParts, LiveRow
<1>2. ASSUME intents' = intents, NEW S, Bump(S),
             \A r \in Replicas \ S : replicas'[r] = replicas[r],
             \A i \in intents : i.replica \in S => IntentOK(i)'
      PROVE  IntentsSound'
    <2>1. ASSUME NEW i \in intents
          PROVE  IntentOK(i)'
        <3>1. CASE i.replica \in S
            BY <1>2, <3>1
        <3>2. CASE i.replica \notin Replicas
            BY <3>2 DEF IntentOK, Live
        <3>3. CASE i.replica \in Replicas \ S
            <4>1. i.replica \in moved => i.replica \in moved'
                BY <1>2, BumpRemembers
            <4> QED
                BY <1>1, <1>2, <3>3, <4>1, UntouchedIntent
        <3> QED BY <3>1, <3>2, <3>3
    <2> QED
        BY <1>1, <1>2, <2>1 DEF IntentsSound, IntentOK, Distinct
<1>3. CASE replicas' = replicas /\ intents' = intents /\ moved' = moved
    BY <1>3 DEF IntentsSound, Live, Spare
<1>4. CASE Agent
    <2>1. PICK q \in Replicas, o \in Reports : ObserveReplica(q, o)
        BY <1>4 DEF Agent
    <2>2. /\ intents' = intents /\ Bump({q})
          /\ \A r \in Replicas \ {q} : replicas'[r] = replicas[r]
        BY <2>1 DEF ObserveReplica, TypeOK
    <2>3. ASSUME NEW i \in intents, i.replica \in {q}
          PROVE  IntentOK(i)'
        <3>1. /\ q \in Live /\ replicas[q].host # None
              /\ replicas[q].phase \notin {"draining", "failed", "replacing"}
            BY <2>1 DEF ObserveReplica, OrchestratorOwned
        <3>2. i.kind \notin {"assign", "destroy"}
            BY <1>1, <2>3, <3>1 DEF IntentOK, RowOK, Spare
        <3>3. q \in moved'
            BY <2>2, <2>3, BumpRemembers
        <3>4. replicas'[q].phase = o.phase
            BY <1>1, <2>1, <3>1 DEF ObserveReplica, Observed, TypeOK, Row
        <3>5. o.phase # "pending"
            BY DEF Reports
        <3> QED
            BY <2>3, <3>2, <3>3, <3>4, <3>5 DEF IntentOK
    <2> QED
        BY <1>2, <2>2, <2>3
<1>5. CASE Watchdog
    <2>1. ASSUME NEW h \in Hosts, MarkHostDown(h)
          PROVE  IntentsSound'
        <3> DEFINE freed == Undrained(Occupants(h))
        <3>1. /\ intents' = intents /\ Bump(freed)
              /\ \A r \in Replicas \ freed : replicas'[r] = replicas[r]
            BY <2>1 DEF MarkHostDown, Write
        <3>2. ASSUME NEW i \in intents, i.replica \in freed
              PROVE  IntentOK(i)'
            <4>1. /\ i.replica \in Live /\ i.replica \in Replicas /\ replicas[i.replica].host = h
                  /\ replicas[i.replica].drained = "none"
                BY <3>2 DEF Undrained, Occupants, Live
            <4>2. replicas'[i.replica] = [replicas[i.replica] EXCEPT !.host = None, !.healthy = FALSE,
                                                                     !.phase = "replacing"]
                BY <2>1, <3>2, <4>1 DEF MarkHostDown, Write
            <4>3. /\ replicas'[i.replica].host = None /\ replicas'[i.replica].phase = "replacing"
                  /\ replicas'[i.replica].drained = "none"
                BY <1>1, <4>1, <4>2 DEF Row
            <4>4. i.replica \in moved'
                BY <3>1, <3>2, BumpRemembers
            <4> QED
                BY <4>3, <4>4 DEF IntentOK, Spare
        <3> QED
            BY <1>2, <3>1, <3>2
    <2>2. ASSUME NEW h \in Hosts, MarkStaleHostUnhealthy(h)
          PROVE  IntentsSound'
        BY <1>3, <2>2 DEF MarkStaleHostUnhealthy
    <2>3. CASE CompleteDrainedHosts
        BY <1>3, <2>3 DEF CompleteDrainedHosts
    <2> QED
        BY <1>5, <2>1, <2>2, <2>3 DEF Watchdog
<1>6. CASE Clock
    <2>1. PICK q \in Replicas : ProgressDeadlinePasses(q) \/ DrainWindowElapses(q)
        BY <1>6 DEF Clock
    <2>2. /\ intents' = intents /\ moved' = moved /\ q \in Live
          /\ \A r \in Replicas \ {q} : replicas'[r] = replicas[r]
        BY <2>1 DEF ProgressDeadlinePasses, DrainWindowElapses, TypeOK
    <2>3. /\ replicas'[q].phase = replicas[q].phase /\ replicas'[q].host = replicas[q].host
          /\ \/ replicas'[q].drained = replicas[q].drained
             \/ replicas[q].drained = "bleeding" /\ replicas'[q].drained = "elapsed"
        BY <1>1, <2>1, <2>2 DEF ProgressDeadlinePasses, DrainWindowElapses, TypeOK, Row
    <2>4. ASSUME NEW i \in intents
          PROVE  IntentOK(i)'
        <3>1. CASE i.replica = q
            BY <1>1, <2>2, <2>3, <3>1 DEF IntentOK, Spare
        <3>2. CASE i.replica \notin Replicas
            BY <3>2 DEF IntentOK, Live
        <3>3. CASE i.replica \in Replicas \ {q}
            BY <1>1, <2>2, <3>3, UntouchedIntent
        <3> QED BY <3>1, <3>2, <3>3
    <2> QED
        BY <1>1, <2>2, <2>4 DEF IntentsSound, IntentOK, Distinct
<1>7. CASE Operator
    <2>1. ASSUME NEW q \in Replicas, DeleteReplica(q)
          PROVE  IntentsSound'
        <3>1. /\ intents' = intents /\ Bump({q}) /\ replicas'[q] = NoRow
              /\ \A r \in Replicas \ {q} : replicas'[r] = replicas[r]
            BY <2>1 DEF DeleteReplica, TypeOK
        <3>2. \A i \in intents : i.replica \in {q} => IntentOK(i)'
            BY <3>1 DEF IntentOK, Live
        <3> QED
            BY <1>2, <3>1, <3>2
    <2>2. ASSUME NEW q \in Replicas, RestartReplica(q)
          PROVE  IntentsSound'
        <3>1. /\ intents' = intents /\ Bump({q}) /\ q \in Live /\ replicas[q].phase = "failed"
              /\ \A r \in Replicas \ {q} : replicas'[r] = replicas[r]
            BY <2>2 DEF RestartReplica, Write
        <3>2. /\ replicas'[q].host = None /\ replicas'[q].phase = "replacing"
              /\ replicas'[q].drained = replicas[q].drained
            BY <1>1, <2>2, <3>1 DEF RestartReplica, Write, Row
        <3>3. replicas[q].drained = "none"
            BY <1>1, <3>1 DEF RowOK
        <3>4. ASSUME NEW i \in intents, i.replica \in {q}
              PROVE  IntentOK(i)'
            BY <3>1, <3>2, <3>3, <3>4, BumpRemembers DEF IntentOK, Spare
        <3> QED
            BY <1>2, <3>1, <3>4
    <2>3. ASSUME \/ \E want \in [Regions -> Counts \cup {Absent}] : Deploy(want)
                 \/ \E v \in Versions : Rollback(v)
                 \/ \E g \in Regions, n \in Counts : Scale(g, n)
                 \/ Down
                 \/ \E h \in Hosts : CordonHost(h) \/ UncordonHost(h) \/ DrainHost(h)
          PROVE  IntentsSound'
        BY <1>3, <2>3 DEF Deploy, Rollback, Scale, Down, CordonHost, UncordonHost, DrainHost, SetHostStatus
    <2> QED
        BY <1>7, <2>1, <2>2, <2>3 DEF Operator
<1> QED
    BY <1>4, <1>5, <1>6, <1>7

-----------------------------------------------------------------------------
(* The theorems.                                                           *)

\* The invariant is inductive.
LEMMA InvStep ==
    ASSUME Inv, [Next]_vars
    PROVE  Inv'
<1> USE DEF Inv
<1>1. TypeOK'
    BY NextTyped
<1>2. RowConsistent'
    <2>1. ASSUME NEW r \in Live'
          PROVE  RowOK(replicas[r])'
        <3>1. r \in Replicas /\ replicas'[r] # NoRow
            BY <2>1 DEF Live
        <3>2. RowMove(r)
            BY <3>1, NextRowStep DEF RowStep
        <3>3. RowOK(replicas'[r])
            BY <3>1, <3>2, InvParts DEF RowMove, Live
        <3> QED
            BY <3>3 DEF RowOK
    <2> QED
        BY <2>1 DEF RowConsistent, RowOK
<1>3. IntentsSound'
    <2>1. CASE AbandonPass
        BY <2>1 DEF AbandonPass, IntentsSound
    <2>2. CASE UNCHANGED vars \/ \E h \in Hosts : RecordHeartbeat(h)
        BY <2>2 DEF vars, RecordHeartbeat, IntentsSound, Live, Spare
    <2> QED
        BY <2>1, <2>2, ReconcileSound, CommitSound, OthersSound DEF Next, Engine
<1> QED
    BY <1>1, <1>2, <1>3

\* The invariant holds throughout.
LEMMA Invariance == Spec => []Inv
<1>1. Init => Inv
    <2>1. Init => TypeOK
        BY ConstantsAssumption DEF Init, TypeOK, Deployment, NoCommit, Statuses
    <2>2. Init => RowConsistent /\ IntentsSound
        BY DEF Init, RowConsistent, IntentsSound, Live
    <2> QED
        BY <2>1, <2>2 DEF Inv
<1>2. Inv /\ [Next]_vars => Inv'
    BY InvStep
<1> QED
    BY <1>1, <1>2, PTL DEF Spec

\* The columns of a row stay consistent under every interleaving of the five
\* writers that set them piecemeal.
THEOREM RowsConsistent == Spec => []RowConsistent
<1>1. Inv => RowConsistent
    BY DEF Inv
<1> QED
    BY <1>1, Invariance, PTL

\* An intent outlives its snapshot: assign, freeze and destroy need no
\* compare-and-set, and no two intents of a pass name the same replica.
THEOREM IntentsStaySound == Spec => []IntentsSound
<1>1. Inv => IntentsSound
    BY DEF Inv
<1> QED
    BY <1>1, Invariance, PTL

\* A drain is final: no report, host death, restart or late placement takes a
\* draining row anywhere but out of the table.
THEOREM DrainsAreFinal == Spec => DrainIsFinal
<1>1. Inv /\ [Next]_vars =>
          [\A r \in Live : replicas[r].drained # "none" =>
              replicas'[r] = NoRow \/ (replicas'[r] # NoRow /\ replicas'[r].phase = "draining")]_vars
    <2> SUFFICES ASSUME Inv, [Next]_vars, NEW r \in Live, replicas[r].drained # "none"
                 PROVE  replicas'[r] = NoRow \/ (replicas'[r] # NoRow /\ replicas'[r].phase = "draining")
        OBVIOUS
    <2>1. r \in Replicas /\ RowOK(replicas[r])
        BY InvParts DEF Live, Inv
    <2>2. RowMove(r)
        BY <2>1, NextRowStep DEF RowStep
    <2> QED
        BY <2>1, <2>2 DEF RowMove, RowOK
<1> QED
    BY <1>1, Invariance, PTL DEF Spec, DrainIsFinal

\* The engine destroys only what is bled dry, failed or on no host, although
\* the destroy transaction checks nothing when it commits.
THEOREM DestroysSpare == Spec => DestroySpares
<1>1. Inv /\ [Next]_vars =>
          [\A r \in Live : replicas'[r] = NoRow /\ ops' = ops => Spare(replicas[r])]_vars
    <2> SUFFICES ASSUME Inv, [Next]_vars, NEW r \in Live, replicas'[r] = NoRow, ops' = ops
                 PROVE  Spare(replicas[r])
        OBVIOUS
    <2>1. r \in Replicas /\ replicas[r] # NoRow
        BY DEF Live
    <2>2. RowMove(r)
        BY <2>1, NextRowStep DEF RowStep
    <2> QED
        BY <2>1, <2>2 DEF RowMove
<1> QED
    BY <1>1, Invariance, PTL DEF Spec, DestroySpares

\* No host is overcommitted: ReserveReplicaOnHost is the only step that adds
\* to a host's load, and it counts the rows it adds to.
THEOREM NeverOvercommitted == Spec => []NoOvercommit
<1>1. Init => NoOvercommit
    <2>1. ASSUME Init, NEW h \in Hosts PROVE Occupants(h) = {}
        BY <2>1 DEF Init, Occupants, Live
    <2> QED
        BY <2>1, FS_EmptySet, ConstantsAssumption DEF NoOvercommit
<1>2. Inv /\ NoOvercommit /\ [Next]_vars => NoOvercommit'
    <2> SUFFICES ASSUME Inv, NoOvercommit, [Next]_vars, NEW h \in Hosts
                 PROVE  Cardinality(Occupants(h)') <= Capacity
        BY DEF NoOvercommit
    <2>1. IsFiniteSet(Occupants(h)) /\ Cardinality(Occupants(h)) \in Nat
        <3>1. Occupants(h) \in SUBSET Replicas
            BY DEF Occupants, Live
        <3> QED
            BY <3>1, ConstantsAssumption, FS_Subset, FS_CardinalityType
    <2>2. h # None
        BY ConstantsAssumption
    <2>3. ASSUME NEW r \in Occupants(h)'
          PROVE  \/ r \in Occupants(h)
                 \/ \E i \in intents : Reserves(i) /\ i.replica = r
        <3>1. /\ r \in Replicas /\ replicas'[r] # NoRow /\ replicas'[r].host = h
              /\ replicas'[r].phase # "failed"
            BY <2>3 DEF Occupants, Live
        <3>2. NoNewLoad(r) \/ \E i \in intents : Reserves(i) /\ i.replica = r
            BY <3>1, NextRowStep DEF RowStep
        <3> QED
            BY <2>2, <3>1, <3>2 DEF NoNewLoad, Occupants
    <2>4. CASE Occupants(h)' \subseteq Occupants(h)
        <3>1. Occupants(h)' \in SUBSET Occupants(h)
            BY <2>4
        <3>2. Cardinality(Occupants(h)') <= Cardinality(Occupants(h)) /\ Cardinality(Occupants(h)') \in Nat
            BY <2>1, <3>1, FS_Subset, FS_CardinalityType
        <3> QED
            BY <2>1, <3>2, ConstantsAssumption DEF NoOvercommit
    <2>5. ASSUME NEW q \in Occupants(h)', q \notin Occupants(h)
          PROVE  Cardinality(Occupants(h)') <= Capacity
        <3>1. PICK i \in intents : Reserves(i) /\ i.replica = q
            BY <2>3, <2>5
        <3>2. replicas' = [r \in Replicas |-> IF r = q
                              THEN [replicas[r] EXCEPT !.host = i.host, !.phase = "scheduling"]
                              ELSE replicas[r]]
            BY <3>1 DEF Reserves, AssignReplicaHost, Write
        <3>3. q \in Live /\ replicas[q] \in Row
            BY <3>1, LiveRow DEF Reserves, Reservable, Inv
        <3>4. i.host = h
            BY <2>5, <3>2, <3>3 DEF Occupants, Live, Row
        <3>5. Cardinality(Occupants(h)) + 1 <= Capacity
            BY <3>1, <3>4 DEF Reserves, Reservable
        <3>6. Occupants(h)' \in SUBSET (Occupants(h) \cup {q})
            BY <3>2 DEF Occupants, Live
        <3>7. /\ IsFiniteSet(Occupants(h) \cup {q})
              /\ Cardinality(Occupants(h) \cup {q}) = Cardinality(Occupants(h)) + 1
            BY <2>1, <2>5, FS_AddElement
        <3>8. /\ Cardinality(Occupants(h)') <= Cardinality(Occupants(h) \cup {q})
              /\ Cardinality(Occupants(h)') \in Nat
            BY <3>6, <3>7, FS_Subset, FS_CardinalityType
        <3> QED
            BY <2>1, <3>5, <3>7, <3>8, ConstantsAssumption
    <2> QED
        BY <2>4, <2>5
<1> QED
    BY <1>1, <1>2, Invariance, PTL DEF Spec
=============================================================================
