----------------------------- MODULE RolloutSlots -----------------------------
(***************************************************************************)
(* Safety theorems about the slots of Rollout: what one pass may still do  *)
(* to a region when the rest of the world has moved since its snapshot.    *)
(* A slot has one decision at a time, and the properties rest on what that *)
(* decision rules out while it is pending.                                 *)
(***************************************************************************)
EXTENDS RolloutProofs

\* The region is one the version knows.
Declares(v, g) == deployments[v].want[g] # Absent

\* Versions are handed out in order, and nothing names one not handed out.
Numbered ==
    /\ Known = 1 .. Cardinality(Known)
    /\ current \in Known \cup {NoDeployment}
    /\ \A i \in intents : i.dep \in Known \cup {NoDeployment}
    /\ \A v \in Versions \ Known, g \in Regions : ~Declares(v, g)

\* A row stands in a region its version declares, and so does a row to come.
Declared ==
    /\ \A r \in Live : Declares(replicas[r].dep, replicas[r].slot)
    /\ \A i \in intents : i.kind = "create" => Declares(i.dep, i.slot)

\* What two intents of one rule have in common.
Alike(i, j) ==
    /\ i.dep = j.dep
    /\ i.kind = j.kind \/ (i.kind \in {"destroy", "drain"} /\ j.kind \in {"destroy", "drain"})

\* The pending intents of a slot come from one rule, and name its own rows.
OnePurpose ==
    /\ \A i, j \in intents : i.slot = j.slot => Alike(i, j)
    /\ \A i \in intents : i.replica \in Live => replicas[i.replica].slot = i.slot

\* A row that serves nobody any more.
Retired(row) == row.phase \in {"draining", "failed"} \/ row.host = None

\* While a rollout's verdict is pending, no row of another version stands in
\* its slot; while a switch is, those that do are retired or in its batch.
OldSideHeld ==
    \A i \in intents, r \in Live : replicas[r].slot = i.slot /\ replicas[r].dep # i.dep =>
        /\ i.kind # "complete"
        /\ i.kind = "switch" => Retired(replicas[r]) \/ \E j \in SwitchBatch(i.slot) : j.replica = r

\* The inductive invariant, next to the one of RolloutProofs.
Slots == Numbered /\ Declared /\ OnePurpose /\ OldSideHeld

-----------------------------------------------------------------------------
(* What a rule decides about its slot.                                     *)

\* What each rule guarantees when its intents are emitted.
Purposeful(its, g) ==
    /\ \A i \in its : i.slot = g.slot /\ i.dep = g.dep
    /\ \A i, j \in its : Alike(i, j)
    /\ \A i \in its :
          /\ i.kind = "complete" => g.outgoing = {} /\ g.status # "failed"
          /\ i.kind = "switch" => its = PerReplica("switch", g, drainable(g))
          /\ i.kind = "create" => /\ g.dep # NoDeployment
                                  /\ \A r \in g.target : g.row[r].healthy
                                  /\ healthyTargets(g) # 0 \/ its = {i}

\* The intents of a rule share the slot, the deployment and the kind.
LEMMA ThenAlike ==
    ASSUME NEW g, NEW rule \in Rules, NEW its \in Then(rule, g)
    PROVE  /\ \A i \in its : i.slot = g.slot /\ i.dep = g.dep
           /\ \A i, j \in its : Alike(i, j)
           /\ \A i \in its : /\ i.kind = "complete" => rule = "rolloutComplete"
                             /\ i.kind = "switch" => rule = "drainOutgoing"
                             /\ i.kind = "create" => rule = "rollingRampUp"
<1>1. ASSUME NEW kind, NEW S, NEW i \in PerReplica(kind, g, S)
      PROVE  i.slot = g.slot /\ i.dep = g.dep /\ i.kind = kind
    BY <1>1 DEF PerReplica, Intent
<1>2. ASSUME NEW kind, NEW n
      PROVE  LET i == Intent(kind, g, None, n) IN i.slot = g.slot /\ i.dep = g.dep /\ i.kind = kind
    BY DEF Intent
<1>3. CASE rule = "crashLooping"
    <2>1. CASE g.status = "active"
        BY <1>1, <1>3, <2>1 DEF Then, CrashVerdict, Alike
    <2>2. CASE g.status # "active"
        BY <1>2, <1>3, <2>2 DEF Then, CrashVerdict, Alike
    <2> QED BY <2>1, <2>2
<1>4. CASE rule = "trimHostlessExcess"
    <2>1. PICK S : its = PerReplica("destroy", g, S)
        BY <1>4 DEF Then, TrimHostless
    <2> QED
        BY <1>1, <2>1 DEF Alike
<1>5. CASE rule = "rollingScaleDown"
    <2>1. PICK F, D : its = PerReplica("destroy", g, F) \cup PerReplica("drain", g, D)
        BY <1>5 DEF Then, ScaleDown
    <2> QED
        BY <1>1, <2>1 DEF Alike
<1>6. CASE rule = "deploymentFrozen"
    BY <1>1, <1>6 DEF Then, Alike
<1>7. CASE rule = "anyHostlessReplicas"
    BY <1>1, <1>7 DEF Then, Alike
<1>8. CASE rule \in {"newHealthOpenPastDeadline", "rolloutComplete"}
    BY <1>2, <1>8 DEF Then, Alike
<1>9. CASE rule = "notAllHealthy"
    BY <1>9 DEF Then
<1>10. CASE rule = "rollingRampUp"
    BY <1>2, <1>10 DEF Then, RampUp, Alike
<1>11. CASE rule = "drainOutgoing"
    BY <1>1, <1>11 DEF Then, Alike
<1>12. CASE rule \in {"reapDrained", "reapFailedOutgoing"}
    BY <1>1, <1>12 DEF Then, Alike
<1> QED
    BY <1>3, <1>4, <1>5, <1>6, <1>7, <1>8, <1>9, <1>10, <1>11, <1>12 DEF Rules

\* The cascade's order: what has not fired before each of three rules.
LEMMA CascadeOrder ==
    ASSUME NEW g, NEW k \in DOMAIN cascadeOf(g), \A j \in 1 .. k - 1 : ~When(cascadeOf(g)[j], g)
    PROVE  /\ cascadeOf(g)[k] = "rolloutComplete" => ~When("deploymentFrozen", g)
           /\ cascadeOf(g)[k] = "rollingRampUp" => ~When("notAllHealthy", g) /\ g.dep # NoDeployment
<1>1. CASE g.dep = NoDeployment
    BY <1>1 DEF cascadeOf, orphanCascade
<1>2. CASE g.dep # NoDeployment
    <2>1. cascadeOf(g) = rollingCascade
        BY <1>2 DEF cascadeOf
    <2>2. k \in 1 .. 12
        BY <2>1 DEF rollingCascade
    <2>3. rollingCascade[1] = "deploymentFrozen" /\ rollingCascade[6] = "notAllHealthy"
        BY DEF rollingCascade
    <2>4. /\ rollingCascade[k] = "rolloutComplete" => k = 9
          /\ rollingCascade[k] = "rollingRampUp" => k = 7
        BY <2>2 DEF rollingCascade
    <2> QED
        BY <1>2, <2>1, <2>2, <2>3, <2>4
<1> QED BY <1>1, <1>2

\* Whatever a group fires serves one purpose.
LEMMA FireRulesPurpose ==
    ASSUME NEW g, NEW its \in fireRules(g)
    PROVE  Purposeful(its, g)
<1> DEFINE cascade == cascadeOf(g)
           first   == {k \in DOMAIN cascade : /\ When(cascade[k], g)
                                              /\ \A j \in 1 .. k - 1 : ~When(cascade[j], g)}
<1>1. CASE first = {}
    BY <1>1 DEF fireRules, Purposeful
<1>2. CASE first # {}
    <2>1. PICK k \in first : its \in Then(cascade[k], g)
        BY <1>2 DEF fireRules
    <2>2. PICK rule \in Rules : rule = cascade[k]
        BY CascadeRules
    <2>3. /\ When(rule, g) /\ its \in Then(rule, g)
          /\ rule = "rolloutComplete" => ~When("deploymentFrozen", g)
          /\ rule = "rollingRampUp" => ~When("notAllHealthy", g) /\ g.dep # NoDeployment
        BY <2>1, <2>2, CascadeOrder
    <2>4. rule = "rolloutComplete" => g.outgoing = {} /\ g.status # "failed"
        BY <2>3 DEF When
    <2>5. rule = "drainOutgoing" => its = PerReplica("switch", g, drainable(g))
        BY <2>3 DEF Then
    <2>6. rule = "rollingRampUp" => /\ g.dep # NoDeployment
                                    /\ \A r \in g.target : g.row[r].healthy
                                    /\ healthyTargets(g) # 0 \/ its = {Intent("create", g, None, 1)}
        <3>1. ASSUME rule = "rollingRampUp" PROVE its = RampUp(g) /\ \A r \in g.target : g.row[r].healthy
            BY <2>3, <3>1 DEF Then, When
        <3>2. healthyTargets(g) = 0 => RampUp(g) = {Intent("create", g, None, 1)}
            BY DEF RampUp
        <3> QED BY <2>3, <3>1, <3>2
    <2> QED
        BY <2>3, <2>4, <2>5, <2>6, ThenAlike DEF Purposeful
<1> QED
    BY <1>1, <1>2

\* A pass joins one purpose per slot; the placer only touches assigns.
Joined(c) ==
    /\ \A g \in Regions : c[g] \in fireRules(Group(g)) /\ Purposeful(c[g], Group(g))
    /\ \A i \in intents' :
          /\ i.slot \in Regions
          /\ \E k \in c[i.slot] : /\ k.kind = i.kind /\ k.dep = i.dep /\ k.replica = i.replica
                                  /\ i.kind # "assign" => k = i
    /\ \A g \in Regions : \A k \in c[g] : k.kind # "assign" => k \in intents'

LEMMA PassJoins ==
    ASSUME Inv, Reconcile
    PROVE  \E c : Joined(c)
<1> USE DEF Inv
<1>1. PICK its \in Decisions : intents' \in placeHostless(its)
    BY DEF Reconcile
<1> DEFINE firing(g) == UNION {fireRules(x) : x \in {Group(g)}}
<1>2. PICK c \in [Regions -> UNION {firing(g) : g \in Regions}] :
          /\ \A g \in Regions : c[g] \in firing(g)
          /\ its = UNION {c[g] : g \in Regions}
    BY DEF Decisions
<1>3. ASSUME NEW g \in Regions
      PROVE  c[g] \in fireRules(Group(g)) /\ Purposeful(c[g], Group(g)) /\ Group(g).slot = g
    <2>1. c[g] \in fireRules(Group(g))
        BY <1>2
    <2>2. Group(g).slot = g
        BY DEF Group
    <2> QED
        BY <2>1, <2>2, FireRulesPurpose
<1>4. its \subseteq RawIntents
    BY DecisionsRaw
<1> DEFINE asking == {i.replica : i \in {j \in its : j.kind = "assign"}}
<1>5. PICK p \in [asking -> Hosts \cup {None}] :
          intents' = {i \in its : i.kind # "assign"}
                  \cup {[i EXCEPT !.host = p[i.replica]] :
                           i \in {j \in its : j.kind = "assign" /\ p[j.replica] # None}}
    BY <1>1 DEF placeHostless
<1>6. ASSUME NEW i \in intents'
      PROVE  \E k \in its : /\ k.kind = i.kind /\ k.dep = i.dep /\ k.replica = i.replica
                            /\ k.slot = i.slot /\ (i.kind # "assign" => k = i)
    BY <1>4, <1>5 DEF RawIntents
<1>7. ASSUME NEW i \in intents'
      PROVE  /\ i.slot \in Regions
             /\ \E k \in c[i.slot] : /\ k.kind = i.kind /\ k.dep = i.dep /\ k.replica = i.replica
                                     /\ i.kind # "assign" => k = i
    <2>1. PICK k \in its : /\ k.kind = i.kind /\ k.dep = i.dep /\ k.replica = i.replica
                           /\ k.slot = i.slot /\ (i.kind # "assign" => k = i)
        BY <1>6
    <2>2. PICK g \in Regions : k \in c[g]
        BY <1>2
    <2>3. k.slot = g
        BY <1>3, <2>2 DEF Purposeful
    <2> QED
        BY <2>1, <2>2, <2>3
<1>8. \A g \in Regions : \A k \in c[g] : k.kind # "assign" => k \in intents'
    BY <1>2, <1>5
<1> QED
    BY <1>3, <1>7, <1>8 DEF Joined

-----------------------------------------------------------------------------
(* What one step does to a row's identity, and to the pending intents.     *)

\* A row keeps its version and its region, its gate and its verdict, unless
\* an intent that names it, or an operator, says otherwise.
Kept(r) ==
    /\ replicas'[r] # NoRow
    /\ replicas'[r].dep = replicas[r].dep /\ replicas'[r].slot = replicas[r].slot
    /\ Retired(replicas[r]) => \/ Retired(replicas'[r])
                               \/ \E i \in intents : i.kind = "assign" /\ i.replica = r
    /\ replicas[r].gate = "passed" => replicas'[r].gate = "passed"
    /\ replicas[r].phase = "failed" => replicas'[r].phase = "failed" \/ "restart" \in OperatorOps
    /\ replicas[r].drained = "none" => \/ replicas'[r].drained = "none"
                                       \/ \E i \in intents : i.kind \in {"drain", "switch"} /\ i.replica = r

Minted(r) ==
    \E i \in intents : /\ i.kind = "create" /\ intents' = intents \ {i}
                       /\ \A j \in intents : j.replica # r
                       /\ replicas'[r] = NewRow(i.dep, i.slot)

SlotMove(r) ==
    \/ replicas'[r] = replicas[r]
    \/ r \notin Live /\ Minted(r)
    \/ /\ r \in Live /\ replicas'[r] = NoRow
       /\ "delete" \in OperatorOps \/ \E i \in intents : i.kind = "destroy" /\ i.replica = r
    \/ r \in Live /\ Kept(r)

\* Draining a row that had not failed.
LEMMA DrainKept ==
    ASSUME TypeOK, NEW r \in Live, replicas[r].phase # "failed", replicas'[r] = Drain(replicas[r]),
           \E i \in intents : i.kind \in {"drain", "switch"} /\ i.replica = r
    PROVE  Kept(r)
<1>1. replicas[r] \in Row
    BY LiveRow
<1>2. replicas'[r] \in Row
    BY <1>1, DrainTyped
<1>3. /\ replicas'[r].phase = "draining" /\ replicas'[r].dep = replicas[r].dep
      /\ replicas'[r].slot = replicas[r].slot /\ replicas'[r].gate = replicas[r].gate
    BY <1>1 DEF Drain, Row
<1> QED
    BY <1>2, <1>3, RowIsRow DEF Kept, Retired

\* A transaction of the actuator.
LEMMA CommitSlotMove ==
    ASSUME Inv, Commit, NEW r \in Replicas
    PROVE  SlotMove(r)
<1> USE DEF Inv
<1>1. /\ \A q \in Live : RowOK(replicas[q]) /\ replicas[q] \in Row /\ replicas[q] # NoRow
      /\ \A i \in intents : i \in Intents /\ IntentOK(i)
    BY InvParts, LiveRow, RowIsRow DEF TypeOK
<1>2. ASSUME NEW i \in intents, CreateReplica(i)
      PROVE  SlotMove(r)
    <2>1. PICK q \in Replicas : Fresh(q) /\ replicas' = [replicas EXCEPT ![q] = NewRow(i.dep, i.slot)]
        BY <1>2 DEF CreateReplica
    <2>2. CASE r # q
        BY <2>1, <2>2 DEF TypeOK, SlotMove
    <2>3. CASE r = q
        <3>1. replicas'[r] = NewRow(i.dep, i.slot) /\ r \notin Live /\ \A j \in intents : j.replica # r
            BY <2>1, <2>3 DEF TypeOK, Fresh, Live
        <3> QED
            BY <1>2, <3>1 DEF CreateReplica, SlotMove, Minted
    <2> QED BY <2>2, <2>3
<1>3. ASSUME NEW i \in intents, AssignReplicaHost(i)
      PROVE  SlotMove(r)
    <2>1. CASE ~Reservable(i) \/ r # i.replica
        <3>1. replicas'[r] = replicas[r]
            BY <1>3, <2>1 DEF AssignReplicaHost, Write
        <3> QED BY <3>1 DEF SlotMove
    <2>2. CASE Reservable(i) /\ r = i.replica
        <3>1. r \in Live /\ i.kind = "assign" /\ i.host \in Hosts
            BY <1>1, <1>3, <2>2 DEF AssignReplicaHost, Reservable, Intents
        <3>2. replicas'[r] = [replicas[r] EXCEPT !.host = i.host, !.phase = "scheduling"]
            BY <1>3, <2>2 DEF AssignReplicaHost, Write
        <3>3. replicas[r].phase # "failed"
            BY <1>1, <2>2, <3>1 DEF IntentOK, RowOK
        <3>4. replicas'[r] \in Row
            BY <1>1, <3>1, <3>2 DEF Row, Phases
        <3>5. /\ replicas'[r].dep = replicas[r].dep /\ replicas'[r].slot = replicas[r].slot
              /\ replicas'[r].gate = replicas[r].gate /\ replicas'[r].drained = replicas[r].drained
            BY <1>1, <3>1, <3>2 DEF Row
        <3> QED
            BY <2>2, <3>1, <3>3, <3>4, <3>5, RowIsRow DEF SlotMove, Kept
    <2> QED BY <2>1, <2>2
<1>4. ASSUME NEW i \in intents, DrainReplica(i)
      PROVE  SlotMove(r)
    <2>1. CASE ~CASHolds(i.replica) \/ r # i.replica
        <3>1. replicas'[r] = replicas[r]
            BY <1>4, <2>1 DEF DrainReplica, Write
        <3> QED BY <3>1 DEF SlotMove
    <2>2. CASE CASHolds(i.replica) /\ r = i.replica
        <3>1. r \in Live /\ replicas[r].phase # "failed" /\ i.kind = "drain"
            BY <1>1, <1>4, <2>2 DEF CASHolds, IntentOK, DrainReplica
        <3>2. replicas'[r] = Drain(replicas[r])
            BY <1>4, <2>2 DEF DrainReplica, Write
        <3> QED BY <2>2, <3>1, <3>2, DrainKept DEF SlotMove
    <2> QED BY <2>1, <2>2
<1>5. ASSUME NEW i \in intents, FreezeReplica(i)
      PROVE  SlotMove(r)
    <2> DEFINE freezes == i.replica \in Live /\ ~OrchestratorOwned(replicas[i.replica].phase)
    <2>1. CASE ~freezes \/ r # i.replica
        <3>1. replicas'[r] = replicas[r]
            BY <1>5, <2>1 DEF FreezeReplica, Write
        <3> QED BY <3>1 DEF SlotMove
    <2>2. CASE freezes /\ r = i.replica
        <3>1. replicas'[r] = [replicas[r] EXCEPT !.phase = "failed", !.healthy = FALSE]
            BY <1>5, <2>2 DEF FreezeReplica, Write
        <3>2. replicas'[r] \in Row
            BY <1>1, <2>2, <3>1 DEF Row, Phases
        <3>3. /\ replicas'[r].dep = replicas[r].dep /\ replicas'[r].slot = replicas[r].slot
              /\ replicas'[r].gate = replicas[r].gate /\ replicas'[r].drained = replicas[r].drained
              /\ replicas'[r].phase = "failed"
            BY <1>1, <2>2, <3>1 DEF Row
        <3> QED
            BY <2>2, <3>2, <3>3, RowIsRow DEF SlotMove, Kept, Retired
    <2> QED BY <2>1, <2>2
<1>6. ASSUME NEW i \in intents, DestroyReplica(i)
      PROVE  SlotMove(r)
    <2>1. CASE r # i.replica \/ r \notin Live
        <3>1. replicas'[r] = replicas[r]
            BY <1>6, <2>1 DEF DestroyReplica, TypeOK, Live
        <3> QED BY <3>1 DEF SlotMove
    <2>2. CASE r = i.replica /\ r \in Live
        <3>1. replicas'[r] = NoRow /\ i.kind = "destroy"
            BY <1>6, <2>2 DEF DestroyReplica, TypeOK
        <3> QED
            BY <2>2, <3>1 DEF SlotMove
    <2> QED BY <2>1, <2>2
<1>7. ASSUME NEW i \in intents, FailDeployment(i) \/ CompleteDeployment(i)
      PROVE  SlotMove(r)
    BY <1>7 DEF FailDeployment, CompleteDeployment, SlotMove
<1>8. ASSUME NEW g \in Regions, SwitchTraffic(g)
      PROVE  SlotMove(r)
    <2> DEFINE retiring == {i.replica : i \in SwitchBatch(g)}
    <2>1. CASE ~(\A q \in retiring : CASHolds(q)) \/ r \notin retiring
        <3>1. replicas'[r] = replicas[r]
            BY <1>8, <2>1 DEF SwitchTraffic, Write
        <3> QED BY <3>1 DEF SlotMove
    <2>2. CASE (\A q \in retiring : CASHolds(q)) /\ r \in retiring
        <3>1. PICK i \in SwitchBatch(g) : r = i.replica
            BY <2>2
        <3>2. r \in Live /\ replicas[r].phase # "failed" /\ i \in intents /\ i.kind = "switch"
            BY <1>1, <2>2, <3>1 DEF CASHolds, IntentOK, SwitchBatch
        <3>3. replicas'[r] = Drain(replicas[r])
            BY <1>8, <2>2 DEF SwitchTraffic, Write
        <3> QED BY <3>1, <3>2, <3>3, DrainKept DEF SlotMove
    <2> QED BY <2>1, <2>2
<1> QED
    BY <1>2, <1>3, <1>4, <1>5, <1>6, <1>7, <1>8 DEF Commit

\* An agent's report, a death on the watchdog's sweep, the clock, an operator.
LEMMA OtherSlotMove ==
    ASSUME Inv, Agent \/ Watchdog \/ Clock \/ Operator, NEW r \in Replicas
    PROVE  SlotMove(r)
<1> USE DEF Inv
<1>1. ASSUME r \in Live PROVE replicas[r] \in Row /\ RowOK(replicas[r])
    BY <1>1, InvParts, LiveRow
<1>2. CASE replicas' = replicas
    BY <1>2 DEF SlotMove
<1>3. ASSUME NEW q \in Replicas, NEW o \in Reports, ObserveReplica(q, o)
      PROVE  SlotMove(r)
    <2>1. CASE r # q
        BY <1>3, <2>1 DEF ObserveReplica, TypeOK, SlotMove
    <2>2. CASE r = q
        <3>1. /\ r \in Live /\ replicas[r] \in Row
              /\ replicas[r].host # None
              /\ replicas[r].phase \notin {"draining", "failed", "replacing"}
            BY <1>1, <1>3, <2>2 DEF ObserveReplica, OrchestratorOwned
        <3>2. replicas'[r] = Observed(replicas[r], o)
            BY <1>3, <2>2 DEF ObserveReplica, TypeOK
        <3>3. /\ replicas'[r].dep = replicas[r].dep /\ replicas'[r].slot = replicas[r].slot
              /\ replicas'[r].drained = replicas[r].drained
              /\ replicas[r].gate = "passed" => replicas'[r].gate = "passed"
            BY <3>1, <3>2 DEF Observed, Row
        <3>4. replicas'[r] # NoRow
            BY <3>1, <3>3, ConstantsAssumption DEF Row, NoRow, Versions, NoDeployment
        <3> QED
            BY <3>1, <3>3, <3>4 DEF SlotMove, Kept, Retired
    <2> QED BY <2>1, <2>2
<1>4. ASSUME NEW h \in Hosts, MarkHostDown(h)
      PROVE  SlotMove(r)
    <2> DEFINE freed == Undrained(Occupants(h))
    <2>1. CASE r \notin freed
        BY <1>4, <2>1 DEF MarkHostDown, Write, SlotMove
    <2>2. CASE r \in freed
        <3>1. r \in Live /\ replicas[r].phase # "failed"
            BY <2>2 DEF Undrained, Occupants
        <3>2. replicas'[r] = [replicas[r] EXCEPT !.host = None, !.healthy = FALSE, !.phase = "replacing"]
            BY <1>4, <2>2 DEF MarkHostDown, Write
        <3>3. replicas'[r] \in Row
            BY <1>1, <3>1, <3>2 DEF Row, Phases
        <3>4. /\ replicas'[r].dep = replicas[r].dep /\ replicas'[r].slot = replicas[r].slot
              /\ replicas'[r].gate = replicas[r].gate /\ replicas'[r].drained = replicas[r].drained
              /\ replicas'[r].host = None
            BY <1>1, <3>1, <3>2 DEF Row
        <3> QED
            BY <3>1, <3>3, <3>4, RowIsRow DEF SlotMove, Kept, Retired
    <2> QED BY <2>1, <2>2
<1>5. ASSUME NEW q \in Replicas, ProgressDeadlinePasses(q) \/ DrainWindowElapses(q)
      PROVE  SlotMove(r)
    <2>1. CASE r # q
        BY <1>5, <2>1 DEF ProgressDeadlinePasses, DrainWindowElapses, TypeOK, SlotMove
    <2>2. CASE r = q
        <3>1. r \in Live
            BY <1>5, <2>2 DEF ProgressDeadlinePasses, DrainWindowElapses
        <3>2. \/ replicas[r].gate = "open" /\ replicas'[r] = [replicas[r] EXCEPT !.gate = "late"]
              \/ replicas[r].drained = "bleeding" /\ replicas'[r] = [replicas[r] EXCEPT !.drained = "elapsed"]
            BY <1>5, <2>2 DEF ProgressDeadlinePasses, DrainWindowElapses, TypeOK
        <3>3. replicas'[r] \in Row
            BY <1>1, <3>1, <3>2 DEF Row
        <3>4. /\ replicas'[r].dep = replicas[r].dep /\ replicas'[r].slot = replicas[r].slot
              /\ replicas'[r].phase = replicas[r].phase /\ replicas'[r].host = replicas[r].host
              /\ replicas[r].gate = "passed" => replicas'[r].gate = "passed"
              /\ replicas[r].drained = "none" => replicas'[r].drained = "none"
            BY <1>1, <3>1, <3>2 DEF Row
        <3> QED
            BY <3>1, <3>3, <3>4, RowIsRow DEF SlotMove, Kept, Retired
    <2> QED BY <2>1, <2>2
<1>6. ASSUME NEW q \in Replicas, DeleteReplica(q)
      PROVE  SlotMove(r)
    BY <1>6 DEF DeleteReplica, Op, TypeOK, SlotMove
<1>7. ASSUME NEW q \in Replicas, RestartReplica(q)
      PROVE  SlotMove(r)
    <2>1. CASE r # q
        BY <1>7, <2>1 DEF RestartReplica, Write, SlotMove
    <2>2. CASE r = q
        <3>1. r \in Live /\ "restart" \in OperatorOps
            BY <1>7, <2>2 DEF RestartReplica, Op
        <3>2. replicas'[r] = [replicas[r] EXCEPT !.phase = "replacing", !.host = None,
                                                 !.healthy = FALSE, !.looping = FALSE]
            BY <1>7, <2>2 DEF RestartReplica, Write
        <3>3. replicas'[r] \in Row
            BY <1>1, <3>1, <3>2 DEF Row, Phases
        <3>4. /\ replicas'[r].dep = replicas[r].dep /\ replicas'[r].slot = replicas[r].slot
              /\ replicas'[r].gate = replicas[r].gate /\ replicas'[r].drained = replicas[r].drained
              /\ replicas'[r].host = None
            BY <1>1, <3>1, <3>2 DEF Row
        <3> QED
            BY <3>1, <3>3, <3>4, RowIsRow DEF SlotMove, Kept, Retired
    <2> QED BY <2>1, <2>2
<1>8. CASE Agent
    BY <1>3, <1>8 DEF Agent
<1>9. CASE Watchdog
    BY <1>2, <1>4, <1>9 DEF Watchdog, MarkStaleHostUnhealthy, CompleteDrainedHosts
<1>10. CASE Clock
    BY <1>5, <1>10 DEF Clock
<1>11. CASE Operator
    <2>1. ASSUME \/ \E want \in [Regions -> Counts \cup {Absent}] : Deploy(want)
                 \/ \E v \in Versions : Rollback(v)
                 \/ \E g \in Regions, n \in Counts : Scale(g, n)
                 \/ Down
                 \/ \E h \in Hosts : CordonHost(h) \/ UncordonHost(h) \/ DrainHost(h)
          PROVE  replicas' = replicas
        BY <2>1 DEF Deploy, Rollback, Scale, Down, CordonHost, UncordonHost, DrainHost, SetHostStatus
    <2> QED
        BY <1>2, <1>6, <1>7, <1>11, <2>1 DEF Operator
<1> QED
    BY <1>8, <1>9, <1>10, <1>11

\* Any step at all.
LEMMA NextSlotMove ==
    ASSUME Inv, [Next]_vars, NEW r \in Replicas
    PROVE  SlotMove(r)
<1>1. CASE Reconcile \/ AbandonPass \/ UNCHANGED vars \/ \E h \in Hosts : RecordHeartbeat(h)
    BY <1>1 DEF Reconcile, AbandonPass, RecordHeartbeat, vars, dbVars, SlotMove
<1> QED
    BY <1>1, CommitSlotMove, OtherSlotMove DEF Next, Engine

\* Outside a new pass intents only go, and a switch batch goes as a whole.
Shrink ==
    /\ intents' \subseteq intents
    /\ \A g \in Regions : SwitchBatch(g)' \in {SwitchBatch(g), {}}

LEMMA PassOrShrink ==
    ASSUME TypeOK, [Next]_vars
    PROVE  Reconcile \/ Shrink
<1>1. CASE intents' = intents \/ intents' = {}
    BY <1>1 DEF Shrink, SwitchBatch
<1>2. ASSUME NEW i \in intents, i.kind # "switch", intents' = intents \ {i}
      PROVE  Shrink
    BY <1>2 DEF Shrink, SwitchBatch
<1>3. ASSUME NEW g \in Regions, SwitchTraffic(g)
      PROVE  Shrink
    BY <1>3 DEF SwitchTraffic, Shrink, SwitchBatch
<1>4. CASE Commit
    BY <1>2, <1>3, <1>4 DEF Commit, CreateReplica, AssignReplicaHost, DrainReplica, FreezeReplica,
          DestroyReplica, FailDeployment, CompleteDeployment
<1>5. CASE AbandonPass \/ Agent \/ Watchdog \/ Clock \/ UNCHANGED vars \/ \E h \in Hosts : RecordHeartbeat(h)
    BY <1>1, <1>5 DEF AbandonPass, Agent, ObserveReplica, Watchdog, MarkStaleHostUnhealthy, MarkHostDown,
          CompleteDrainedHosts, Clock, ProgressDeadlinePasses, DrainWindowElapses, RecordHeartbeat, vars
<1>6. CASE Operator
    BY <1>1, <1>6 DEF Operator, Deploy, Rollback, Scale, Down, CordonHost, UncordonHost, DrainHost,
          SetHostStatus, DeleteReplica, RestartReplica
<1> QED
    BY <1>4, <1>5, <1>6 DEF Next, Engine

\* A version once handed out stays, and keeps the regions it declares.
VersionsMove ==
    /\ Known' = 1 .. Cardinality(Known')
    /\ Known \subseteq Known'
    /\ current' \in Known' \cup {NoDeployment}
    /\ \A v \in Known, g \in Regions : Declares(v, g) => Declares(v, g)'
    /\ \A v \in Versions \ Known', g \in Regions : ~Declares(v, g)'
    /\ \A v \in Known' \ Known : \E g \in Regions : Declares(v, g)'

\* How many versions there are.
LEMMA KnownFinite ==
    ASSUME ConstantsAssumption
    PROVE  Known \subseteq Versions /\ Cardinality(Known) \in Nat
<1>1. Known \in SUBSET Versions
    BY DEF Known
<1>2. IsFiniteSet(Versions)
    BY FS_Interval, ConstantsAssumption DEF Versions
<1>3. IsFiniteSet(Known)
    BY <1>1, <1>2, FS_Subset
<1> QED
    BY <1>1, <1>3, FS_CardinalityType

\* Every step keeps the numbering.
LEMMA NextVersions ==
    ASSUME TypeOK, Numbered, [Next]_vars
    PROVE  VersionsMove
<1>1. CASE UNCHANGED <<deployments, current>>
    <2>1. Known' = Known /\ \A v, g : Declares(v, g)' = Declares(v, g)
        BY <1>1 DEF Known, Declares
    <2> QED
        BY <1>1, <2>1 DEF Numbered, VersionsMove
<1>2. ASSUME current' \in Known \cup {NoDeployment},
             \A v \in Versions : deployments'[v].status = "none" <=> deployments[v].status = "none",
             \A v \in Known, g \in Regions : Declares(v, g) => deployments'[v].want[g] # Absent,
             \A v \in Versions \ Known : deployments'[v] = deployments[v]
      PROVE  VersionsMove
    <2>1. Known' = Known
        BY <1>2 DEF Known
    <2>2. \A v \in Versions \ Known, g \in Regions : ~Declares(v, g)'
        BY <1>2 DEF Numbered, Declares
    <2>3. \A v \in Known, g \in Regions : Declares(v, g) => Declares(v, g)'
        BY <1>2 DEF Declares
    <2> QED
        BY <1>2, <2>1, <2>2, <2>3 DEF Numbered, VersionsMove
<1>3. current # NoDeployment => current \in Known /\ current \in Versions /\ deployments[current].status # "none"
    BY DEF Numbered, Known
<1>4. ASSUME NEW i \in intents, FailDeployment(i) \/ CompleteDeployment(i)
      PROVE  VersionsMove
    <2>1. i.dep \in Versions /\ i.dep \in Known
        BY <1>4 DEF TypeOK, Intents, FailDeployment, CompleteDeployment, Numbered, Versions, NoDeployment
    <2>2. PICK s \in {"failed", "active"} : deployments' = [deployments EXCEPT ![i.dep].status = s]
        BY <1>4 DEF FailDeployment, CompleteDeployment
    <2>3. current' = current
        BY <1>4 DEF FailDeployment, CompleteDeployment
    <2>4. \A v \in Versions : deployments'[v].want = deployments[v].want
                              /\ (v # i.dep => deployments'[v] = deployments[v])
                              /\ (v = i.dep => deployments'[v].status = s)
        BY <2>1, <2>2 DEF TypeOK, Deployment
    <2> QED
        BY <1>2, <2>1, <2>3, <2>4 DEF Numbered, Known, Declares
<1>5. ASSUME NEW v \in Versions, Rollback(v)
      PROVE  VersionsMove
    <2>1. /\ current \in Versions /\ current \in Known /\ v \in Known /\ v # current
          /\ current' = v
        BY <1>3, <1>5 DEF Rollback
    <2>2. /\ deployments'[v] = [status |-> "pending", want |-> CarriedCounts(current, v)]
          /\ deployments'[current] = [deployments[current] EXCEPT !.status = "rolledback"]
          /\ \A w \in Versions \ {v, current} : deployments'[w] = deployments[w]
        BY <1>5, <2>1 DEF Rollback, TypeOK, Deployment
    <2>3. deployments'[v].status = "pending" /\ deployments'[v].want = CarriedCounts(current, v)
        BY <2>2
    <2>4. deployments'[current].status = "rolledback" /\ deployments'[current].want = deployments[current].want
        BY <2>1, <2>2 DEF TypeOK, Deployment
    <2>5. \A g \in Regions : Declares(v, g) => CarriedCounts(current, v)[g] # Absent
        BY DEF CarriedCounts, Declares, Absent
    <2>6. \A w \in Known, g \in Regions : Declares(w, g) => deployments'[w].want[g] # Absent
        <3>1. ASSUME NEW w \in Known, NEW g \in Regions, Declares(w, g)
              PROVE  deployments'[w].want[g] # Absent
            <4>1. CASE w = v
                BY <2>3, <2>5, <3>1, <4>1
            <4>2. CASE w = current
                BY <2>4, <3>1, <4>2 DEF Declares
            <4>3. CASE w \notin {v, current}
                BY <2>2, <3>1, <4>3 DEF Known, Declares
            <4> QED BY <4>1, <4>2, <4>3
        <3> QED BY <3>1
    <2>7. \A w \in Versions : deployments'[w].status = "none" <=> deployments[w].status = "none"
        BY <2>1, <2>2, <2>3, <2>4 DEF Known
    <2> QED
        BY <1>2, <2>1, <2>2, <2>6, <2>7
<1>6. ASSUME Op("scale") \/ Op("down"), current # NoDeployment, current' = current,
             \A w \in Versions \ {current} : deployments'[w] = deployments[w],
             deployments'[current].status = deployments[current].status,
             \A g \in Regions : Declares(current, g) => deployments'[current].want[g] # Absent
      PROVE  VersionsMove
    BY <1>2, <1>3, <1>6 DEF Known, Declares
<1>7. ASSUME NEW g \in Regions, NEW n \in Counts, Scale(g, n)
      PROVE  VersionsMove
    <2>1. /\ Op("scale") /\ current # NoDeployment /\ current' = current
          /\ deployments' = [deployments EXCEPT ![current].want[g] = n]
        BY <1>7 DEF Scale
    <2>2. n # Absent
        BY ConstantsAssumption DEF Counts, Absent
    <2>3. /\ \A w \in Versions \ {current} : deployments'[w] = deployments[w]
          /\ deployments'[current].status = deployments[current].status
          /\ deployments'[current].want = [deployments[current].want EXCEPT ![g] = n]
        BY <1>3, <2>1 DEF TypeOK, Deployment
    <2>4. \A h \in Regions : Declares(current, h) => deployments'[current].want[h] # Absent
        BY <1>3, <2>1, <2>2, <2>3 DEF TypeOK, Deployment, Declares
    <2> QED
        BY <1>6, <2>1, <2>3, <2>4
<1>8. CASE Down
    <2>1. /\ Op("down") /\ current # NoDeployment /\ current' = current
          /\ deployments' = [deployments EXCEPT ![current].want =
                                [g \in Regions |-> IF @[g] = Absent THEN Absent ELSE 0]]
        BY <1>8 DEF Down
    <2>2. /\ \A w \in Versions \ {current} : deployments'[w] = deployments[w]
          /\ deployments'[current].status = deployments[current].status
          /\ deployments'[current].want = [g \in Regions |-> IF deployments[current].want[g] = Absent THEN Absent ELSE 0]
        BY <1>3, <2>1 DEF TypeOK, Deployment
    <2> QED
        BY <1>6, <2>1, <2>2 DEF Declares, Absent
<1>9. ASSUME NEW want \in [Regions -> Counts \cup {Absent}], Deploy(want)
      PROVE  VersionsMove
    <2>1. PICK v \in Versions : v = Cardinality(Known) + 1
        BY <1>9 DEF Deploy
    <2>2. Cardinality(Known) \in Nat /\ Known = 1 .. Cardinality(Known)
        BY KnownFinite, ConstantsAssumption DEF Numbered
    <2>3. v \notin Known /\ 1 .. v = Known \cup {v} /\ v \in Nat
        BY <2>1, <2>2
    <2>4. /\ current' = v
          /\ deployments' = [w \in Versions |->
                  IF w = v THEN [status |-> "pending", want |-> want]
                  ELSE IF w = current THEN [deployments[w] EXCEPT !.status = "superseded"]
                  ELSE deployments[w]]
        BY <1>9, <2>1 DEF Deploy
    <2>5. /\ deployments'[v].status = "pending"
          /\ \A w \in Versions \ {v} : /\ deployments'[w].want = deployments[w].want
                                       /\ w # current => deployments'[w] = deployments[w]
                                       /\ w = current => deployments'[w].status = "superseded"
        BY <2>4 DEF TypeOK, Deployment
    <2>6. Known' = Known \cup {v}
        <3>1. \A w \in Versions \ {v} : deployments'[w].status # "none" <=> deployments[w].status # "none"
            <4>1. \A w \in Versions : w # NoDeployment
                BY ConstantsAssumption DEF Versions, NoDeployment
            <4> QED BY <1>3, <2>5, <4>1
        <3> QED
            BY <2>5, <3>1 DEF Known
    <2>7. Cardinality(1 .. v) = v
        BY <2>1, <2>3, FS_Interval
    <2>8. Known' = 1 .. Cardinality(Known')
        BY <2>3, <2>6, <2>7
    <2>9. \A w \in Known, g \in Regions : Declares(w, g) => Declares(w, g)'
        BY <2>3, <2>5 DEF Known, Declares
    <2>10. \A w \in Versions \ Known', g \in Regions : ~Declares(w, g)'
        BY <2>5, <2>6 DEF Numbered, Declares
    <2>11. \E g \in Regions : Declares(v, g)'
        <3>1. \E g \in Regions : want[g] # Absent
            BY <1>9 DEF Deploy
        <3>2. deployments'[v].want = want
            BY <2>4
        <3> QED
            BY <3>1, <3>2 DEF Declares
    <2> QED
        BY <2>4, <2>6, <2>8, <2>9, <2>10, <2>11 DEF VersionsMove
<1>10. CASE Reconcile \/ AbandonPass \/ Agent \/ Watchdog \/ Clock \/ UNCHANGED vars
            \/ \E h \in Hosts : RecordHeartbeat(h)
    BY <1>1, <1>10 DEF Reconcile, AbandonPass, Agent, ObserveReplica, Watchdog, MarkStaleHostUnhealthy,
          MarkHostDown, CompleteDrainedHosts, Clock, ProgressDeadlinePasses, DrainWindowElapses,
          RecordHeartbeat, vars, dbVars
<1>11. CASE Commit
    BY <1>1, <1>4, <1>11 DEF Commit, CreateReplica, AssignReplicaHost, DrainReplica, FreezeReplica,
          DestroyReplica, SwitchTraffic
<1>12. CASE Operator
    BY <1>1, <1>5, <1>7, <1>8, <1>9, <1>12 DEF Operator, CordonHost, UncordonHost, DrainHost,
          SetHostStatus, DeleteReplica, RestartReplica
<1> QED
    BY <1>10, <1>11, <1>12 DEF Next, Engine

-----------------------------------------------------------------------------
(* The slots keep their invariant.                                         *)

\* What buildReplicaGroups says of the deployment, and of the rows it leaves
\* in the outgoing bucket.
LEMMA GroupFacts ==
    ASSUME NEW g \in Regions
    PROVE  /\ Group(g).slot = g /\ Group(g).row = replicas
           /\ Group(g).dep \in {current, NoDeployment}
           /\ Group(g).dep # NoDeployment => /\ Group(g).dep = current /\ Declares(current, g)
                                             /\ Group(g).status = deployments[current].status
           /\ current # NoDeployment /\ Declares(current, g) => Group(g).dep = current
           /\ \A r \in Live : replicas[r].slot = g =>
                 r \in Group(g).outgoing \/ (replicas[r].dep = current /\ replicas[r].drained = "none")
           /\ \A r \in Live : replicas[r].slot = g /\ replicas[r].dep = current /\ replicas[r].drained = "none" =>
                 r \in Group(g).target \/ replicas[r].phase = "failed"
           /\ \A r \in Group(g).target : /\ r \in Live /\ replicas[r].slot = g
                                         /\ replicas[r].dep = current /\ replicas[r].drained = "none"
BY DEF Group, Declares

\* A new pass starts with one purpose per slot.
LEMMA ReconcileSlots ==
    ASSUME Inv, Slots, Reconcile
    PROVE  Slots'
<1> USE DEF Inv, Slots
<1>1. PICK c : Joined(c)
    BY PassJoins
<1>2. ASSUME NEW i \in intents'
      PROVE  /\ i.slot \in Regions
             /\ Purposeful(c[i.slot], Group(i.slot))
             /\ \E k \in c[i.slot] : /\ k.kind = i.kind /\ k.dep = i.dep /\ k.replica = i.replica
                                     /\ i.kind # "assign" => k = i
    BY <1>1 DEF Joined
<1>3. UNCHANGED <<deployments, current, replicas>> /\ Live' = Live
    BY DEF Reconcile, dbVars, Live
<1>4. ASSUME NEW i \in intents' PROVE i.dep = Group(i.slot).dep
    BY <1>2 DEF Purposeful
<1>5. Numbered'
    <2>1. VersionsMove
        BY NextVersions DEF Next, Engine
    <2>2. \A i \in intents' : i.dep \in Known' \cup {NoDeployment}
        BY <1>2, <1>3, <1>4, GroupFacts DEF Numbered, Known
    <2> QED
        BY <2>1, <2>2 DEF VersionsMove, Numbered
<1>6. Declared'
    <2>1. ASSUME NEW i \in intents', i.kind = "create"
          PROVE  Declares(i.dep, i.slot)
        <3>1. Group(i.slot).dep # NoDeployment
            BY <1>2, <2>1 DEF Purposeful
        <3> QED
            BY <1>2, <1>4, <3>1, GroupFacts
    <2> QED
        BY <1>3, <2>1 DEF Declared, Declares
<1>7. OnePurpose'
    <2>1. ASSUME NEW i \in intents', NEW j \in intents', i.slot = j.slot
          PROVE  Alike(i, j)
        BY <1>2, <2>1 DEF Purposeful, Alike
    <2>2. \A i \in intents' : Apt(i)
        <3>1. PICK its \in Decisions : intents' \in placeHostless(its)
            BY DEF Reconcile
        <3> QED
            BY <3>1, DecisionsSound, DecisionsRaw, PlaceSound
    <2>3. ASSUME NEW i \in intents', i.replica \in Live
          PROVE  replicas[i.replica].slot = i.slot
        <3>1. i.replica # None
            BY <2>3, ConstantsAssumption DEF Live
        <3> QED
            BY <2>2, <3>1 DEF Apt
    <2> QED
        BY <1>3, <2>1, <2>3 DEF OnePurpose, Alike
<1>8. OldSideHeld'
    <2>1. ASSUME NEW i \in intents', NEW r \in Live, replicas[r].slot = i.slot, replicas[r].dep # i.dep
          PROVE  /\ i.kind # "complete"
                 /\ i.kind = "switch" => Retired(replicas[r]) \/ \E j \in SwitchBatch(i.slot)' : j.replica = r
        <3>1. PICK g \in Regions : g = i.slot
            BY <1>2
        <3> DEFINE grp == Group(g)
        <3>2. i.dep = grp.dep
            BY <1>4, <3>1
        <3>3. replicas[r].dep # NoDeployment /\ Declares(replicas[r].dep, g)
            BY <2>1, <3>1, LiveRow, ConstantsAssumption DEF Declared, Row, Versions, NoDeployment
        <3>4. r \in grp.outgoing
            BY <2>1, <3>1, <3>2, <3>3, GroupFacts
        <3>5. Purposeful(c[g], grp)
            BY <1>1 DEF Joined
        <3>6. ASSUME i.kind \in {"complete", "switch"} PROVE i \in c[g]
            BY <1>2, <3>1, <3>6
        <3>7. i.kind # "complete"
            BY <3>4, <3>5, <3>6 DEF Purposeful
        <3>8. ASSUME i.kind = "switch", ~Retired(replicas[r])
              PROVE  \E j \in SwitchBatch(i.slot)' : j.replica = r
            <4>1. grp.row = replicas /\ grp.slot = g
                BY GroupFacts
            <4>2. r \in drainable(grp)
                BY <3>4, <3>8, <4>1 DEF drainable, Retired
            <4>3. c[g] = PerReplica("switch", grp, drainable(grp))
                BY <3>5, <3>6, <3>8 DEF Purposeful
            <4>4. PICK j \in c[g] : j.kind = "switch" /\ j.replica = r /\ j.slot = g
                <5>1. Intent("switch", grp, r, 0) \in c[g]
                    BY <4>2, <4>3 DEF PerReplica
                <5>2. /\ Intent("switch", grp, r, 0).kind = "switch" /\ Intent("switch", grp, r, 0).slot = g
                      /\ Intent("switch", grp, r, 0).replica = r
                    BY <4>1 DEF Intent
                <5> QED BY <5>1, <5>2
            <4>5. j \in intents'
                BY <1>1, <4>4 DEF Joined
            <4> QED
                BY <3>1, <4>4, <4>5 DEF SwitchBatch
        <3> QED BY <3>7, <3>8
    <2> QED
        BY <1>3, <2>1 DEF OldSideHeld, Retired
<1> QED
    BY <1>5, <1>6, <1>7, <1>8

\* Where a live row after the step comes from.
LEMMA RowOrigin ==
    ASSUME Inv, [Next]_vars, NEW r \in Live'
    PROVE  /\ r \in Replicas
           /\ \/ r \in Live /\ replicas'[r].dep = replicas[r].dep /\ replicas'[r].slot = replicas[r].slot
              \/ /\ r \notin Live
                 /\ \E i \in intents : /\ i.kind = "create" /\ intents' = intents \ {i}
                                       /\ \A j \in intents : j.replica # r
                                       /\ replicas'[r].dep = i.dep /\ replicas'[r].slot = i.slot
<1>1. r \in Replicas /\ replicas'[r] # NoRow
    BY DEF Live
<1>2. SlotMove(r)
    BY <1>1, NextSlotMove
<1>3. \A i : NewRow(i.dep, i.slot).dep = i.dep /\ NewRow(i.dep, i.slot).slot = i.slot
    BY DEF NewRow
<1> QED
    BY <1>1, <1>2, <1>3 DEF SlotMove, Live, Kept, Minted

\* Every other step keeps it.
LEMMA ShrinkSlots ==
    ASSUME Inv, Slots, [Next]_vars, Shrink
    PROVE  Slots'
<1> USE DEF Inv, Slots
<1>1. intents' \subseteq intents
    BY DEF Shrink
<1>2. VersionsMove
    BY NextVersions
<1>3. Numbered'
    BY <1>1, <1>2 DEF VersionsMove, Numbered
<1>4. \A i \in intents : i \in Intents
    BY DEF TypeOK
<1>5. ASSUME NEW v \in Versions, NEW g \in Regions, Declares(v, g) PROVE Declares(v, g)'
    BY <1>2, <1>5 DEF VersionsMove, Numbered
<1>6. \A i \in intents : i.slot \in Regions /\ (i.kind = "create" => i.dep \in Versions)
    BY <1>4 DEF Intents, NoDeployment
<1>7. Declared'
    <2>1. ASSUME NEW r \in Live'
          PROVE  Declares(replicas[r].dep, replicas[r].slot)'
        <3>1. PICK v, g : v = replicas'[r].dep /\ g = replicas'[r].slot
            OBVIOUS
        <3>2. v \in Versions /\ g \in Regions /\ Declares(v, g)
            BY <1>6, <3>1, RowOrigin, LiveRow DEF Declared, Row
        <3>3. Declares(v, g)'
            BY <1>5, <3>2
        <3> QED
            BY <3>1, <3>3 DEF Declares
    <2>2. ASSUME NEW i \in intents', i.kind = "create"
          PROVE  Declares(i.dep, i.slot)'
        BY <1>1, <1>5, <1>6, <2>2 DEF Declared
    <2> QED
        BY <2>1, <2>2 DEF Declared
<1>8. OnePurpose'
    <2>1. \A i, j \in intents' : i.slot = j.slot => Alike(i, j)
        BY <1>1 DEF OnePurpose
    <2>2. ASSUME NEW i \in intents', i.replica \in Live'
          PROVE  replicas'[i.replica].slot = i.slot
        <3>1. PICK r \in Live' : r = i.replica
            BY <2>2
        <3> QED
            BY <1>1, <2>2, <3>1, RowOrigin DEF OnePurpose
    <2> QED
        BY <2>1, <2>2 DEF OnePurpose, Alike
<1>9. OldSideHeld'
    <2>1. ASSUME NEW i \in intents', NEW r \in Live', replicas'[r].slot = i.slot, replicas'[r].dep # i.dep
          PROVE  /\ i.kind # "complete"
                 /\ i.kind = "switch" => Retired(replicas'[r]) \/ \E j \in SwitchBatch(i.slot)' : j.replica = r
        <3>1. CASE r \notin Live
            <4>1. PICK j \in intents : j.kind = "create" /\ replicas'[r].dep = j.dep /\ replicas'[r].slot = j.slot
                BY <3>1, RowOrigin
            <4>2. Alike(i, j)
                BY <1>1, <2>1, <4>1 DEF OnePurpose
            <4> QED
                BY <2>1, <4>1, <4>2 DEF Alike
        <3>2. CASE r \in Live
            <4>1. replicas[r].slot = i.slot /\ replicas[r].dep # i.dep /\ i \in intents
                BY <1>1, <2>1, <3>2, RowOrigin
            <4>2. i.kind # "complete"
                BY <3>2, <4>1 DEF OldSideHeld
            <4>3. ASSUME i.kind = "switch" PROVE SwitchBatch(i.slot)' = SwitchBatch(i.slot)
                <5>1. PICK g \in Regions : g = i.slot
                    BY <1>6, <4>1
                <5>2. i \in SwitchBatch(g)'
                    BY <4>3, <5>1 DEF SwitchBatch
                <5>3. SwitchBatch(g)' = SwitchBatch(g)
                    BY <5>2 DEF Shrink
                <5> QED
                    BY <5>1, <5>3
            <4>4. ASSUME i.kind = "switch", Retired(replicas[r]) PROVE Retired(replicas'[r])
                <5>1. replicas'[r] = replicas[r] \/ Kept(r)
                    BY <3>2, RowOrigin, NextSlotMove DEF SlotMove, Live
                <5>2. ASSUME NEW j \in intents, j.kind = "assign", j.replica = r PROVE FALSE
                    <6>1. replicas[r].slot = j.slot
                        BY <3>2, <5>2 DEF OnePurpose
                    <6>2. Alike(i, j)
                        BY <4>1, <6>1 DEF OnePurpose
                    <6> QED
                        BY <4>4, <5>2, <6>2 DEF Alike
                <5> QED
                    BY <4>4, <5>1, <5>2 DEF Kept
            <4> QED
                BY <3>2, <4>1, <4>2, <4>3, <4>4 DEF OldSideHeld
        <3> QED BY <3>1, <3>2
    <2> QED
        BY <2>1 DEF OldSideHeld, Retired
<1> QED
    BY <1>3, <1>7, <1>8, <1>9

\* Both invariants hold throughout.
LEMMA SlotsInvariance == Spec => [](Inv /\ Slots)
<1>1. Init => Slots
    <2>1. ASSUME Init PROVE Known = {} /\ Live = {}
        BY <2>1 DEF Init, Known, Live, NoCommit
    <2>2. ASSUME Init PROVE Numbered
        <3>1. Cardinality(Known) = 0
            BY <2>1, <2>2, FS_EmptySet
        <3>2. Known = 1 .. Cardinality(Known)
            BY <2>1, <2>2, <3>1
        <3> QED
            BY <2>2, <3>2 DEF Init, Numbered, Declares, NoCommit
    <2> QED
        BY <2>1, <2>2 DEF Init, Slots, Declared, OnePurpose, OldSideHeld
<1>2. Inv /\ Slots /\ [Next]_vars => Slots'
    BY PassOrShrink, ReconcileSlots, ShrinkSlots DEF Inv
<1> QED
    BY <1>1, <1>2, Invariance, PTL DEF Spec

\* Who moves a region's traffic.
LEMMA ServedMoves ==
    ASSUME TypeOK, [Next]_vars, NEW g \in Regions, served'[g] # served[g]
    PROVE  \E i \in intents :
              /\ i.slot = g /\ served'[g] = i.dep
              /\ \/ CompleteDeployment(i)
                 \/ SwitchTraffic(g) /\ i \in SwitchBatch(g) /\ \A j \in SwitchBatch(g) : CASHolds(j.replica)
<1>1. ASSUME NEW i \in intents, CompleteDeployment(i)
      PROVE  i.slot = g /\ served'[g] = i.dep
    BY <1>1 DEF CompleteDeployment, TypeOK
<1>2. ASSUME NEW h \in Regions, SwitchTraffic(h)
      PROVE  \E i \in SwitchBatch(h) :
                  /\ h = g /\ i \in intents /\ i.slot = g /\ served'[g] = i.dep
                  /\ \A j \in SwitchBatch(h) : CASHolds(j.replica)
    <2>1. \A j \in SwitchBatch(h) : CASHolds(j.replica)
        BY <1>2 DEF SwitchTraffic
    <2>2. PICK i \in SwitchBatch(h) : served' = [served EXCEPT ![h] = i.dep]
        BY <1>2, <2>1 DEF SwitchTraffic
    <2>3. h = g /\ served'[g] = i.dep
        BY <2>2 DEF TypeOK
    <2> QED
        BY <2>1, <2>2, <2>3 DEF SwitchBatch
<1>3. served' = served \/ (\E i \in intents : CompleteDeployment(i)) \/ \E h \in Regions : SwitchTraffic(h)
    BY DEF Next, Engine, Commit, Reconcile, CreateReplica, AssignReplicaHost, DrainReplica, FreezeReplica,
           DestroyReplica, FailDeployment, AbandonPass, Agent, ObserveReplica, Watchdog,
           MarkStaleHostUnhealthy, MarkHostDown, CompleteDrainedHosts, Clock, ProgressDeadlinePasses,
           DrainWindowElapses, RecordHeartbeat, Operator, Deploy, Rollback, Scale, Down, CordonHost,
           UncordonHost, DrainHost, SetHostStatus, DeleteReplica, RestartReplica, vars, dbVars
<1> QED
    BY <1>1, <1>2, <1>3

\* No region serves both sides: the transaction that moves its traffic leaves
\* no replica of the old version running there, whatever was created, placed,
\* reported or restarted since the switch was decided (applySwitchBatch).
THEOREM SwitchesRetire == Spec => SwitchRetiresOldSide
<1>1. Inv /\ Slots /\ [Next]_vars =>
          [\A g \in Regions : served[g] # NoDeployment /\ served'[g] # served[g] =>
              \A r \in InSlot(served[g], g) :
                  \/ replicas'[r] = NoRow
                  \/ replicas'[r].phase \in {"draining", "failed"}
                  \/ replicas'[r].host = None]_vars
    <2> SUFFICES ASSUME Inv, Slots, [Next]_vars, NEW g \in Regions, served'[g] # served[g],
                        NEW r \in InSlot(served[g], g)
                 PROVE  \/ replicas'[r] = NoRow
                        \/ replicas'[r].phase \in {"draining", "failed"}
                        \/ replicas'[r].host = None
        OBVIOUS
    <2> USE DEF Inv, Slots
    <2>1. r \in Live /\ replicas[r].slot = g /\ replicas[r].dep = served[g]
        BY DEF InSlot
    <2>2. PICK i \in intents :
              /\ i.slot = g /\ served'[g] = i.dep
              /\ \/ CompleteDeployment(i)
                 \/ SwitchTraffic(g) /\ i \in SwitchBatch(g) /\ \A j \in SwitchBatch(g) : CASHolds(j.replica)
        BY ServedMoves
    <2>3. CASE CompleteDeployment(i)
        BY <2>1, <2>2, <2>3 DEF CompleteDeployment, OldSideHeld
    <2>4. CASE SwitchTraffic(g) /\ i \in SwitchBatch(g) /\ \A j \in SwitchBatch(g) : CASHolds(j.replica)
        <3> DEFINE retiring == {j.replica : j \in SwitchBatch(g)}
        <3>1. replicas' = [q \in Replicas |-> IF q \in retiring THEN Drain(replicas[q]) ELSE replicas[q]]
            BY <2>4 DEF SwitchTraffic, Write
        <3>2. Retired(replicas[r]) \/ r \in retiring
            BY <2>1, <2>2, <2>4 DEF OldSideHeld, SwitchBatch
        <3>3. r \in Replicas /\ replicas[r] \in Row
            BY <2>1, LiveRow
        <3>4. Drain(replicas[r]).phase = "draining"
            BY <3>3 DEF Drain, Row
        <3> QED
            BY <3>1, <3>2, <3>3, <3>4 DEF Retired
    <2> QED BY <2>2, <2>3, <2>4
<1> QED
    BY <1>1, SlotsInvariance, PTL DEF Spec, SwitchRetiresOldSide

-----------------------------------------------------------------------------
(* A service that runs in one region.  With several regions they share one *)
(* deployment row, and neither property below holds.                       *)

SingleRegion == \A g, h \in Regions : g = h

\* No verdict to complete outlives a failure, and an active deployment is
\* served and has nothing pending that would point elsewhere.
Pointed ==
    /\ \A v \in Known, g \in Regions : Declares(v, g)
    /\ \A i \in intents : i.kind = "complete" => deployments[i.dep].status # "failed"
    /\ current # NoDeployment /\ deployments[current].status = "active" =>
          /\ \A g \in Regions : served[g] = current
          /\ \A i \in intents : i.kind \in {"switch", "complete"} => i.dep = current

\* Who writes a deployment's status.
StatusKept    == current' = current /\ \A v \in Versions : deployments'[v].status = deployments[v].status
StatusSet(i, s) ==
    /\ current' = current /\ intents' = intents \ {i}
    /\ deployments'[i.dep].status = s
    /\ \A v \in Versions \ {i.dep} : deployments'[v].status = deployments[v].status
Superseding ==
    /\ ops' # ops /\ current' \in Versions /\ deployments'[current'].status = "pending"
    /\ \A v \in Versions : deployments'[v].status = "failed" => deployments[v].status = "failed"

LEMMA StatusMoves ==
    ASSUME TypeOK, [Next]_vars
    PROVE  \/ StatusKept
           \/ \E i \in intents : i.kind = "fail" /\ StatusSet(i, "failed")
           \/ \E i \in intents : CompleteDeployment(i) /\ StatusSet(i, "active")
           \/ Superseding
<1>1. CASE UNCHANGED <<deployments, current>>
    BY <1>1 DEF StatusKept
<1>2. ASSUME NEW i \in intents, NEW s, i.dep \in Versions, current' = current, intents' = intents \ {i},
             deployments' = [deployments EXCEPT ![i.dep].status = s]
      PROVE  StatusSet(i, s)
    <2>1. /\ deployments'[i.dep] = [deployments[i.dep] EXCEPT !.status = s]
          /\ \A v \in Versions \ {i.dep} : deployments'[v] = deployments[v]
        BY <1>2 DEF TypeOK
    <2>2. deployments'[i.dep].status = s
        BY <1>2, <2>1 DEF TypeOK, Deployment
    <2> QED
        BY <1>2, <2>1, <2>2 DEF StatusSet
<1>3. ASSUME NEW i \in intents, FailDeployment(i)
      PROVE  i.kind = "fail" /\ StatusSet(i, "failed")
    <2>1. i.dep \in Versions
        BY <1>3 DEF FailDeployment, TypeOK, Intents
    <2> QED
        BY <1>2, <1>3, <2>1 DEF FailDeployment
<1>4. ASSUME NEW i \in intents, CompleteDeployment(i)
      PROVE  StatusSet(i, "active")
    <2>1. i.dep \in Versions
        BY <1>4 DEF CompleteDeployment, TypeOK, Intents
    <2> QED
        BY <1>2, <1>4, <2>1 DEF CompleteDeployment
<1>5. CASE Commit
    BY <1>1, <1>3, <1>4, <1>5 DEF Commit, CreateReplica, AssignReplicaHost, DrainReplica, FreezeReplica,
          DestroyReplica, SwitchTraffic
<1>6. CASE Reconcile \/ AbandonPass \/ Agent \/ Watchdog \/ Clock \/ UNCHANGED vars
            \/ \E h \in Hosts : RecordHeartbeat(h)
    BY <1>1, <1>6 DEF Reconcile, AbandonPass, Agent, ObserveReplica, Watchdog, MarkStaleHostUnhealthy,
          MarkHostDown, CompleteDrainedHosts, Clock, ProgressDeadlinePasses, DrainWindowElapses,
          RecordHeartbeat, vars, dbVars
<1>7. \A name : Op(name) => ops' # ops
    BY DEF Op, TypeOK
<1>8. ASSUME NEW v \in Versions, Rollback(v)
      PROVE  Superseding
    <2>1. current \in Versions /\ current # v /\ current' = v /\ ops' # ops
        BY <1>7, <1>8 DEF Rollback, TypeOK
    <2>2. /\ deployments'[v] = [status |-> "pending", want |-> CarriedCounts(current, v)]
          /\ deployments'[current] = [deployments[current] EXCEPT !.status = "rolledback"]
          /\ \A w \in Versions \ {v, current} : deployments'[w] = deployments[w]
        BY <1>8, <2>1 DEF Rollback, TypeOK, Deployment
    <2>3. deployments'[v].status = "pending" /\ deployments'[current].status = "rolledback"
        BY <2>1, <2>2 DEF TypeOK, Deployment
    <2> QED
        BY <2>1, <2>2, <2>3 DEF Superseding
<1>9. ASSUME NEW want \in [Regions -> Counts \cup {Absent}], Deploy(want)
      PROVE  Superseding
    <2>1. PICK v \in Versions : v = Cardinality(Known) + 1
        BY <1>9 DEF Deploy
    <2>2. /\ current' = v /\ ops' # ops
          /\ deployments' = [w \in Versions |->
                  IF w = v THEN [status |-> "pending", want |-> want]
                  ELSE IF w = current THEN [deployments[w] EXCEPT !.status = "superseded"]
                  ELSE deployments[w]]
        BY <1>7, <1>9, <2>1 DEF Deploy
    <2>3. /\ deployments'[v].status = "pending"
          /\ \A w \in Versions \ {v} : /\ w # current => deployments'[w] = deployments[w]
                                       /\ w = current => deployments'[w].status = "superseded"
        BY <2>2 DEF TypeOK, Deployment
    <2> QED
        BY <2>2, <2>3 DEF Superseding
<1>10. ASSUME NEW g \in Regions, NEW n \in Counts, Scale(g, n)
       PROVE  StatusKept
    BY <1>10 DEF Scale, TypeOK, Deployment, StatusKept
<1>11. CASE Down
    <2>1. PICK W : deployments' = [deployments EXCEPT ![current].want = W]
        BY <1>11 DEF Down
    <2> QED
        BY <1>11, <2>1 DEF Down, TypeOK, Deployment, StatusKept
<1>12. CASE Operator
    BY <1>1, <1>8, <1>9, <1>10, <1>11, <1>12 DEF Operator, CordonHost, UncordonHost, DrainHost,
          SetHostStatus, DeleteReplica, RestartReplica
<1> QED
    BY <1>5, <1>6, <1>12 DEF Next, Engine

\* Every version declares the one region.
LEMMA DeclaredEverywhere ==
    ASSUME SingleRegion, TypeOK, Numbered, [Next]_vars, Pointed
    PROVE  \A v \in Known', g \in Regions : Declares(v, g)'
<1>1. VersionsMove
    BY NextVersions
<1>2. ASSUME NEW v \in Known', NEW g \in Regions
      PROVE  Declares(v, g)'
    <2>1. CASE v \in Known
        BY <1>1, <2>1 DEF VersionsMove, Pointed
    <2>2. CASE v \notin Known
        <3>1. PICK h \in Regions : Declares(v, h)'
            BY <1>1, <2>2 DEF VersionsMove
        <3>2. h = g
            BY DEF SingleRegion
        <3> QED
            BY <3>1, <3>2 DEF Declares
    <2> QED BY <2>1, <2>2
<1> QED BY <1>2

\* A new pass points where the current deployment stands.
LEMMA ReconcilePointed ==
    ASSUME SingleRegion, Inv, Slots, Pointed, Reconcile
    PROVE  Pointed'
<1> USE DEF Inv, Slots
<1>1. PICK c : Joined(c)
    BY PassJoins
<1>2. ASSUME NEW i \in intents'
      PROVE  /\ i.slot \in Regions /\ i.dep = Group(i.slot).dep
             /\ i.kind = "complete" => Group(i.slot).status # "failed" /\ i.dep # NoDeployment
    <2>1. /\ i.slot \in Regions
          /\ Purposeful(c[i.slot], Group(i.slot))
          /\ \E k \in c[i.slot] : /\ k.kind = i.kind /\ k.dep = i.dep /\ k.replica = i.replica
                                  /\ i.kind # "assign" => k = i
        BY <1>1 DEF Joined
    <2>2. i \in Intents
        BY ReconcileTyped DEF TypeOK
    <2> QED
        BY <2>1, <2>2 DEF Purposeful, Intents
<1>3. UNCHANGED <<deployments, current, served>>
    BY DEF Reconcile, dbVars
<1>4. \A v \in Known', g \in Regions : Declares(v, g)'
    BY DeclaredEverywhere DEF Next, Engine
<1>5. ASSUME NEW i \in intents', i.kind = "complete" PROVE deployments[i.dep].status # "failed"
    BY <1>2, <1>5, GroupFacts
<1>6. ASSUME current # NoDeployment, NEW i \in intents' PROVE i.dep = current
    BY <1>2, <1>6, GroupFacts DEF Pointed, Numbered
<1> QED
    BY <1>3, <1>4, <1>5, <1>6 DEF Pointed

\* Every other step leaves it pointed.
LEMMA ShrinkPointed ==
    ASSUME SingleRegion, Inv, Slots, Pointed, [Next]_vars, Shrink
    PROVE  Pointed'
<1> USE DEF Inv, Slots
<1>1. \A v \in Known', g \in Regions : Declares(v, g)'
    BY DeclaredEverywhere
<1>2. intents' \subseteq intents
    BY DEF Shrink
<1>3. \A i \in intents : i \in Intents /\ i.slot \in Regions
    BY DEF TypeOK, Intents
<1>4. ASSUME NEW i \in intents, NEW j \in intents PROVE Alike(i, j)
    BY <1>3 DEF SingleRegion, OnePurpose
<1>5. ASSUME NEW i \in intents', i.kind = "complete"
      PROVE  deployments'[i.dep].status # "failed"
    <2>1. i \in intents /\ i.dep \in Versions /\ deployments[i.dep].status # "failed"
        BY <1>2, <1>3, <1>5 DEF Pointed, Intents, NoDeployment
    <2>2. CASE StatusKept
        BY <2>1, <2>2 DEF StatusKept
    <2>3. ASSUME NEW j \in intents, j.kind = "fail" PROVE FALSE
        BY <1>4, <1>5, <2>1, <2>3 DEF Alike
    <2>4. ASSUME NEW j \in intents, StatusSet(j, "active") PROVE deployments'[i.dep].status # "failed"
        BY <2>1, <2>4 DEF StatusSet
    <2>5. CASE Superseding
        BY <2>1, <2>5 DEF Superseding
    <2> QED
        BY <2>2, <2>3, <2>4, <2>5, StatusMoves
<1>6. ASSUME current' # NoDeployment, deployments'[current'].status = "active"
      PROVE  /\ \A g \in Regions : served'[g] = current'
             /\ \A i \in intents' : i.kind \in {"switch", "complete"} => i.dep = current'
    <2>1. current' = current /\ ~Superseding
        BY <1>6, StatusMoves DEF StatusKept, StatusSet, Superseding
    <2>2. current \in Versions
        BY <1>6, <2>1 DEF TypeOK
    <2>3. CASE deployments[current].status = "active"
        <3>1. ASSUME NEW g \in Regions PROVE served'[g] = current
            <4>1. CASE served'[g] = served[g]
                BY <1>6, <2>1, <2>3, <4>1 DEF Pointed
            <4>2. CASE served'[g] # served[g]
                <5>1. PICK i \in intents : served'[g] = i.dep /\ i.kind \in {"switch", "complete"}
                    BY <4>2, ServedMoves DEF CompleteDeployment, SwitchBatch
                <5> QED
                    BY <1>6, <2>1, <2>3, <5>1 DEF Pointed
            <4> QED BY <4>1, <4>2
        <3> QED
            BY <1>2, <1>6, <2>1, <2>3, <3>1 DEF Pointed
    <2>4. CASE deployments[current].status # "active"
        <3>1. PICK i \in intents : CompleteDeployment(i) /\ StatusSet(i, "active") /\ i.dep = current
            <4>1. ~StatusKept
                BY <1>6, <2>1, <2>2, <2>4 DEF StatusKept
            <4>2. ASSUME NEW s \in {"failed", "active"}, NEW i \in intents, StatusSet(i, s)
                  PROVE  i.dep = current /\ s = "active"
                BY <1>6, <2>1, <2>2, <2>4, <4>2 DEF StatusSet
            <4> QED
                BY <2>1, <4>1, <4>2, StatusMoves
        <3>2. served'[i.slot] = current
            BY <1>3, <3>1 DEF CompleteDeployment, TypeOK
        <3>3. \A g \in Regions : g = i.slot
            BY <1>3 DEF SingleRegion
        <3>4. \A j \in intents' : j.dep = current
            BY <1>2, <1>4, <3>1 DEF Alike
        <3> QED
            BY <2>1, <3>2, <3>3, <3>4
    <2> QED BY <2>3, <2>4
<1> QED
    BY <1>1, <1>5, <1>6 DEF Pointed

\* It holds throughout.
LEMMA PointedInvariance == SingleRegion => (Spec => [](Inv /\ Slots /\ Pointed))
<1> SUFFICES ASSUME SingleRegion PROVE Spec => [](Inv /\ Slots /\ Pointed)
    OBVIOUS
<1>1. Init => Pointed
    <2>1. ASSUME Init PROVE Known = {} /\ intents = {} /\ current = NoDeployment
        BY <2>1 DEF Init, Known, NoCommit
    <2> QED
        BY <2>1 DEF Pointed
<1>2. Inv /\ Slots /\ Pointed /\ [Next]_vars => Pointed'
    BY PassOrShrink, ReconcilePointed, ShrinkPointed DEF Inv
<1> QED
    BY <1>1, <1>2, SlotsInvariance, PTL DEF Spec

\* Failed is terminal for the reconciler in a one-region service: the only
\* verdict that could revive a deployment, complete, is not emitted for a
\* failed one and never shares a pass with the verdict that fails it.
THEOREM FailedStaysFailed == SingleRegion => (Spec => FailedIsTerminal)
<1> SUFFICES ASSUME SingleRegion PROVE Spec => FailedIsTerminal
    OBVIOUS
<1>1. Inv /\ Slots /\ Pointed /\ [Next]_vars =>
          [\A v \in Versions : deployments[v].status = "failed" /\ deployments'[v].status # "failed" =>
              ops' # ops]_vars
    <2> SUFFICES ASSUME Inv, Pointed, [Next]_vars, NEW v \in Versions,
                        deployments[v].status = "failed", deployments'[v].status # "failed", ~Superseding
                 PROVE  FALSE
        BY DEF Superseding
    <2>1. ASSUME NEW i \in intents, CompleteDeployment(i), StatusSet(i, "active") PROVE FALSE
        <3>1. i.dep = v
            BY <2>1 DEF StatusSet
        <3> QED
            BY <2>1, <3>1 DEF CompleteDeployment, Pointed
    <2>2. ASSUME NEW i \in intents, StatusSet(i, "failed") PROVE FALSE
        BY <2>2 DEF StatusSet
    <2> QED
        BY <2>1, <2>2, StatusMoves DEF StatusKept, Inv
<1> QED
    BY <1>1, PointedInvariance, PTL DEF Spec, FailedIsTerminal

\* In a one-region service an active deployment is served where it stands,
\* also while its replicas come and go and a stale pass is still committing.
THEOREM ActiveStaysServed == SingleRegion => (Spec => []ActiveIsServed)
<1> SUFFICES ASSUME SingleRegion PROVE Spec => []ActiveIsServed
    OBVIOUS
<1>1. Pointed => ActiveIsServed
    <2> SUFFICES ASSUME Pointed, NEW g \in Regions, Group(g).status = "active"
                 PROVE  served[g] = Group(g).dep
        BY DEF ActiveIsServed
    <2>1. current # NoDeployment /\ Group(g).dep = current /\ deployments[current].status = "active"
        BY DEF Group
    <2> QED
        BY <2>1 DEF Pointed
<1> QED
    BY <1>1, PointedInvariance, PTL

-----------------------------------------------------------------------------
(* Canary first, while no operator restarts or deletes a replica by hand:  *)
(* either may take the proven replica away between the decision to create  *)
(* the batch and the creation.                                             *)

HandsOff == "restart" \notin OperatorOps /\ "delete" \notin OperatorOps

Side(i) == Undrained(InSlot(i.dep, i.slot))

\* A pending create has a proven replica beside it, or is the only canary of
\* a side on which nothing runs.
Proven ==
    \A i \in intents : i.kind = "create" =>
        \/ \E q \in Side(i) : replicas[q].gate = "passed"
        \/ /\ \A q \in Side(i) : replicas[q].phase = "failed"
           /\ \A j \in intents : j.slot = i.slot => j = i

\* A new pass creates behind a proven replica, or one canary.
LEMMA ReconcileProven ==
    ASSUME Inv, Slots, Reconcile
    PROVE  Proven'
<1> USE DEF Inv, Slots
<1>1. PICK c : Joined(c)
    BY PassJoins
<1>2. UNCHANGED <<deployments, current, replicas>>
    BY DEF Reconcile, dbVars
<1>3. ASSUME NEW i \in intents', i.kind = "create"
      PROVE  \/ \E q \in Side(i) : replicas[q].gate = "passed"
             \/ /\ \A q \in Side(i) : replicas[q].phase = "failed"
                /\ \A j \in intents' : j.slot = i.slot => j = i
    <2>1. PICK g \in Regions : g = i.slot
        BY <1>1, <1>3 DEF Joined
    <2> DEFINE grp == Group(g)
    <2>2. i \in c[g] /\ Purposeful(c[g], grp)
        BY <1>1, <1>3, <2>1 DEF Joined
    <2>3. /\ i.dep = grp.dep /\ grp.dep # NoDeployment
          /\ \A r \in grp.target : grp.row[r].healthy
          /\ healthyTargets(grp) # 0 \/ c[g] = {i}
        BY <1>3, <2>2 DEF Purposeful
    <2>4. i.dep = current /\ grp.row = replicas
        BY <2>3, GroupFacts
    <2>5. \A r \in grp.target : r \in Side(i) /\ replicas[r].gate = "passed"
        <3>1. ASSUME NEW r \in grp.target
              PROVE  /\ r \in Live /\ replicas[r].slot = g /\ replicas[r].dep = current
                     /\ replicas[r].drained = "none" /\ replicas[r].healthy
            BY <2>3, <2>4, GroupFacts
        <3>2. \A r \in Live : RowOK(replicas[r])
            BY InvParts
        <3> QED
            BY <2>1, <2>4, <3>1, <3>2 DEF Side, Undrained, InSlot, RowOK
    <2>6. CASE grp.target # {}
        BY <2>5, <2>6
    <2>7. CASE grp.target = {}
        <3>1. \A q \in Side(i) : replicas[q].phase = "failed"
            BY <2>1, <2>4, <2>7, GroupFacts DEF Side, Undrained, InSlot
        <3>2. healthyTargets(grp) = 0
            <4>1. {r \in grp.target \ grp.leaving : grp.row[r].healthy} = {}
                BY <2>7
            <4> QED
                BY <4>1, FS_EmptySet DEF healthyTargets
        <3>3. c[g] = {i}
            BY <2>3, <3>2
        <3>4. ASSUME NEW j \in intents', j.slot = i.slot PROVE j = i
            <4>1. PICK k \in c[g] : k.kind = j.kind /\ (j.kind # "assign" => k = j)
                BY <1>1, <2>1, <3>4 DEF Joined
            <4> QED
                BY <1>3, <3>3, <4>1
        <3> QED
            BY <3>1, <3>4
    <2> QED BY <2>6, <2>7
<1> QED
    BY <1>2, <1>3 DEF Proven, Side, Undrained, InSlot, Live

\* A slot that only creates loses no replica, and none of them is un-proven.
LEMMA SideHeld ==
    ASSUME HandsOff, Inv, Slots, [Next]_vars,
           NEW i \in intents, i.kind = "create", NEW q \in Side(i)
    PROVE  /\ q \in Live' /\ replicas'[q].dep = i.dep /\ replicas'[q].slot = i.slot
           /\ replicas'[q].drained = "none"
           /\ replicas[q].gate = "passed" => replicas'[q].gate = "passed"
           /\ replicas[q].phase = "failed" => replicas'[q].phase = "failed"
<1> USE DEF Inv, Slots
<1>1. /\ q \in Live /\ q \in Replicas /\ replicas[q].dep = i.dep /\ replicas[q].slot = i.slot
      /\ replicas[q].drained = "none"
    BY DEF Side, Undrained, InSlot, Live
<1>2. ASSUME NEW j \in intents, j.kind \in {"destroy", "drain", "switch"}, j.replica = q PROVE FALSE
    <2>1. replicas[q].slot = j.slot
        BY <1>1, <1>2 DEF OnePurpose
    <2> QED
        BY <1>1, <1>2, <2>1 DEF OnePurpose, Alike
<1>3. replicas'[q] = replicas[q] \/ Kept(q)
    BY <1>1, <1>2, NextSlotMove DEF SlotMove, HandsOff
<1>4. replicas'[q] # NoRow
    BY <1>1, <1>3 DEF Kept, Live
<1> QED
    BY <1>1, <1>2, <1>3, <1>4 DEF Kept, Live, HandsOff

\* Every other step keeps the creates proven.
LEMMA ShrinkProven ==
    ASSUME HandsOff, Inv, Slots, Proven, [Next]_vars, Shrink
    PROVE  Proven'
<1> USE DEF Inv, Slots
<1>1. ASSUME NEW i \in intents', i.kind = "create"
      PROVE  \/ \E q \in Side(i)' : replicas'[q].gate = "passed"
             \/ /\ \A q \in Side(i)' : replicas'[q].phase = "failed"
                /\ \A j \in intents' : j.slot = i.slot => j = i
    <2>1. i \in intents
        BY DEF Shrink
    <2>2. CASE \E q \in Side(i) : replicas[q].gate = "passed"
        <3>1. PICK q \in Side(i) : replicas[q].gate = "passed"
            BY <2>2
        <3>2. /\ q \in Live' /\ replicas'[q].dep = i.dep /\ replicas'[q].slot = i.slot
              /\ replicas'[q].drained = "none" /\ replicas'[q].gate = "passed"
            BY <1>1, <2>1, <3>1, SideHeld
        <3>3. q \in Side(i)'
            BY <3>2 DEF Side, Undrained, InSlot
        <3> QED
            BY <3>2, <3>3
    <2>3. CASE /\ \A q \in Side(i) : replicas[q].phase = "failed"
               /\ \A j \in intents : j.slot = i.slot => j = i
        <3>1. ASSUME NEW q \in Side(i)'
              PROVE  replicas'[q].phase = "failed"
            <4>1. /\ q \in Live' /\ replicas'[q].dep = i.dep /\ replicas'[q].slot = i.slot
                  /\ replicas'[q].drained = "none"
                BY DEF Side, Undrained, InSlot
            <4>2. q \in Live /\ replicas[q].dep = i.dep /\ replicas[q].slot = i.slot
                BY <1>1, <2>3, <4>1, RowOrigin
            <4>3. replicas[q].drained = "none"
                <5>1. RowMove(q) /\ q \in Replicas /\ replicas'[q] # NoRow
                    BY <4>1, <4>2, NextRowStep DEF RowStep, Live
                <5> QED
                    BY <4>1, <4>2, <5>1 DEF RowMove, RowOK
            <4>4. q \in Side(i)
                BY <4>2, <4>3 DEF Side, Undrained, InSlot
            <4> QED
                BY <1>1, <2>1, <2>3, <4>4, SideHeld
        <3>2. \A j \in intents' : j.slot = i.slot => j = i
            BY <2>3 DEF Shrink
        <3> QED
            BY <3>1, <3>2
    <2> QED
        BY <1>1, <2>1, <2>2, <2>3 DEF Proven
<1> QED
    BY <1>1 DEF Proven, Side

\* Canary first: the batch of creates that follows a healthy canary is still
\* behind a proven replica when its last create commits, whatever the agents
\* report, the hosts do and the operator deploys in between (RampUp).
THEOREM CanariesGoFirst == HandsOff => (Spec => CanaryFirst)
<1> SUFFICES ASSUME HandsOff PROVE Spec => CanaryFirst
    OBVIOUS
<1>1. Init => Proven
    BY DEF Init, Proven
<1>2. Inv /\ Slots /\ Proven /\ [Next]_vars => Proven'
    BY PassOrShrink, ReconcileProven, ShrinkProven DEF Inv
<1>3. Inv /\ Slots /\ Proven /\ [Next]_vars =>
          [\A r \in Replicas \ Live : replicas'[r] # NoRow =>
              LET side == Undrained(InSlot(replicas'[r].dep, replicas'[r].slot))
              IN  \/ \A q \in side : replicas[q].phase = "failed"
                  \/ \E q \in side : replicas[q].gate = "passed"]_vars
    <2> SUFFICES ASSUME Inv, Proven, [Next]_vars, NEW r \in Replicas \ Live, replicas'[r] # NoRow
                 PROVE  LET side == Undrained(InSlot(replicas'[r].dep, replicas'[r].slot))
                        IN  \/ \A q \in side : replicas[q].phase = "failed"
                            \/ \E q \in side : replicas[q].gate = "passed"
        OBVIOUS
    <2>1. r \in Live'
        BY DEF Live
    <2>2. PICK i \in intents : i.kind = "create" /\ replicas'[r].dep = i.dep /\ replicas'[r].slot = i.slot
        BY <2>1, RowOrigin
    <2> QED
        BY <2>2 DEF Proven, Side
<1> QED
    BY <1>1, <1>2, <1>3, SlotsInvariance, PTL DEF Spec, CanaryFirst

-----------------------------------------------------------------------------
(* Evacuating hosts.  From a converged service, while the operator only    *)
(* cordons, drains and reopens hosts and no replica or host fails.         *)

Undisturbed ==
    /\ OperatorOps \subseteq {"cordon", "uncordon", "drain"}
    /\ Faults \subseteq {"lostpass"} \/ MaxFaults = 0

\* The serving replicas no pending drain is about to take.
Steadfast(g) == {r \in Serving(current, g) : \A i \in intents : i.kind = "drain" => i.replica # r}

\* Every row is of the one version and has not failed, every pending intent
\* is the scaling of a group, and what is wanted is held by replicas no
\* pending intent will drain.
Calm ==
    /\ current \in Versions
    /\ \A h \in Hosts : hosts[h].healthy
    /\ \A r \in Live : replicas[r].dep = current /\ replicas[r].phase # "failed" /\ ~replicas[r].looping
    /\ \A i \in intents : /\ i.kind \in {"create", "assign", "drain", "destroy", "fail", "complete"}
                          /\ i.kind = "create" => i.dep = current
    /\ \A g \in Regions : Declares(current, g) => Cardinality(Steadfast(g)) >= deployments[current].want[g]

\* A scale-down of a group with no failed row leaves what is wanted.
LEMMA DrainsLeaveEnough ==
    ASSUME NEW g, GroupOK(g), g.frozen = {}, NEW its \in fireRules(g), NEW i \in its, i.kind = "drain"
    PROVE  /\ \A r \in g.target : g.row[r].healthy
           /\ \E D \in SUBSET g.target : /\ Cardinality(g.target \ D) = g.want
                                         /\ \A j \in its : j.kind = "drain" => j.replica \in D
<1> DEFINE cascade == cascadeOf(g)
           first   == {k \in DOMAIN cascade : /\ When(cascade[k], g)
                                              /\ \A j \in 1 .. k - 1 : ~When(cascade[j], g)}
<1>1. first # {}
    BY DEF fireRules
<1>2. PICK k \in first : its \in Then(cascade[k], g)
    BY <1>1 DEF fireRules
<1>3. cascade[k] = "rollingScaleDown"
    <2>1. PICK rule \in Rules : rule = cascade[k]
        BY CascadeRules
    <2>2. its \in Then(rule, g)
        BY <1>2, <2>1
    <2>3. rule = "rollingScaleDown"
        BY <2>2 DEF Then, TrimHostless, CrashVerdict, RampUp, PerReplica, Intent, Rules
    <2> QED BY <2>1, <2>3
<1>4. /\ its \in ScaleDown(g) /\ excess(g) > 0
    BY <1>2, <1>3 DEF Then, When
<1>5. \A r \in g.target : g.row[r].healthy
    <2>1. g.dep # NoDeployment
        BY <1>3 DEF cascadeOf, orphanCascade
    <2>2. cascade = rollingCascade /\ k \in 1 .. 12
        BY <2>1 DEF cascadeOf, rollingCascade
    <2>3. rollingCascade[k] = "rollingScaleDown" => k = 8
        BY <2>2 DEF rollingCascade
    <2>4. k = 8 /\ rollingCascade[6] = "notAllHealthy"
        BY <1>3, <2>2, <2>3 DEF rollingCascade
    <2>5. ~When("notAllHealthy", g)
        BY <2>2, <2>4
    <2> QED
        BY <2>5 DEF When
<1>6. /\ IsFiniteSet(g.target) /\ Cardinality(g.target) \in Nat /\ Cardinality(g.frozen) = 0
      /\ g.want \in Nat
    BY FS_Subset, FS_CardinalityType, FS_EmptySet, ConstantsAssumption DEF GroupOK, Counts
<1>7. excess(g) = Cardinality(g.target) - g.want
    BY <1>6 DEF excess
<1>8. Min({excess(g), Cardinality(g.frozen)}) = 0
    <2>1. PICK n \in Int : n = excess(g) /\ n > 0
        BY <1>4, <1>6, <1>7
    <2>2. Min({n, 0}) = 0
        <3>1. \E x \in {n, 0} : \A y \in {n, 0} : x <= y
            BY <2>1
        <3>2. Min({n, 0}) \in {n, 0} /\ \A y \in {n, 0} : Min({n, 0}) <= y
            BY <3>1 DEF Min
        <3> QED
            BY <2>1, <3>2
    <2> QED
        BY <1>6, <2>1, <2>2
<1>9. PICK F \in SUBSET g.frozen, D \in SUBSET g.target :
          /\ its = PerReplica("destroy", g, F) \cup PerReplica("drain", g, D)
          /\ Cardinality(D) = excess(g)
    <2> DEFINE n    == excess(g)
               dead == Min({n, Cardinality(g.frozen)})
    <2>1. ScaleDown(g) = {PerReplica("destroy", g, F) \cup PerReplica("drain", g, D) :
              F \in kSubset(dead, g.frozen),
              D \in {S \in kSubset(n - dead, g.target) :
                        S \subseteq g.target \cap g.leaving \/ g.target \cap g.leaving \subseteq S}}
        BY DEF ScaleDown
    <2> HIDE DEF n, dead
    <2>2. PICK F \in kSubset(dead, g.frozen), D \in kSubset(n - dead, g.target) :
              its = PerReplica("destroy", g, F) \cup PerReplica("drain", g, D)
        BY <1>4, <2>1
    <2>3. n \in Int /\ dead = 0 /\ n = excess(g)
        BY <1>6, <1>7, <1>8 DEF n, dead
    <2>4. Cardinality(D) = n - dead
        BY DEF kSubset
    <2>5. Cardinality(D) = excess(g)
        BY <2>3, <2>4
    <2> QED
        BY <2>2, <2>5 DEF kSubset
<1>10. \A j \in its : j.kind = "drain" => j.replica \in D
    BY <1>9, PerReplicaDistinct
<1>11. Cardinality(g.target \ D) = g.want
    <2>1. Cardinality(g.target \ D) = Cardinality(g.target) - Cardinality(g.target \cap D)
        BY <1>6, FS_Difference
    <2>2. g.target \cap D = D
        OBVIOUS
    <2>3. Cardinality(g.target \ D) = Cardinality(g.target) - excess(g)
        BY <1>9, <2>1, <2>2
    <2>4. PICK a \in Nat, w \in Nat : a = Cardinality(g.target) /\ w = g.want
        BY <1>6
    <2>5. a - (a - w) = w
        OBVIOUS
    <2> QED
        BY <1>7, <2>3, <2>4, <2>5
<1> QED
    BY <1>5, <1>10, <1>11

\* A new pass drains only what is not needed.
LEMMA ReconcileCalm ==
    ASSUME Inv, Calm, Reconcile
    PROVE  Calm'
<1> USE DEF Inv
<1>1. PICK c : Joined(c)
    BY PassJoins
<1>2. UNCHANGED <<deployments, current, replicas, hosts>> /\ intents = {}
    BY DEF Reconcile, dbVars
<1>3. \A i \in intents' : Apt(i)
    <2>1. PICK its \in Decisions : intents' \in placeHostless(its)
        BY DEF Reconcile
    <2> QED
        BY <2>1, DecisionsSound, DecisionsRaw, PlaceSound
<1>4. ASSUME NEW g \in Regions
      PROVE  /\ GroupOK(Group(g)) /\ Group(g).frozen = {} /\ drainable(Group(g)) = {}
             /\ overRestartBudget(Group(g)) = {}
    <2>1. \A r \in Live : RowOK(replicas[r])
        BY InvParts
    <2>2. GroupOK(Group(g))
        BY GroupIsOK
    <2>3. Group(g).frozen = {}
        BY DEF Group, Calm
    <2>4. Group(g).row = replicas
        BY GroupFacts
    <2>5. \A r \in Group(g).outgoing : r \in Live /\ replicas[r].drained # "none"
        BY DEF Group, Calm
    <2>6. drainable(Group(g)) = {}
        BY <2>1, <2>4, <2>5 DEF drainable, RowOK
    <2>7. overRestartBudget(Group(g)) = {}
        BY <2>4, GroupFacts DEF overRestartBudget, Calm
    <2> QED
        BY <2>2, <2>3, <2>6, <2>7
<1>5. ASSUME NEW i \in intents'
      PROVE  /\ i.kind \in {"create", "assign", "drain", "destroy", "fail", "complete"}
             /\ i.kind = "create" => i.dep = current
    <2>1. i \in Intents
        BY ReconcileTyped DEF TypeOK
    <2>2. PICK g \in Regions : g = i.slot
        BY <1>1 DEF Joined
    <2>3. c[g] \in fireRules(Group(g)) /\ Purposeful(c[g], Group(g)) /\ (i.kind # "assign" => i \in c[g])
        BY <1>1, <2>2 DEF Joined
    <2>4. i.kind # "switch"
        BY <1>4, <2>3 DEF Purposeful, PerReplica
    <2>5. i.kind # "freeze"
        <3>1. ASSUME i.kind = "freeze" PROVE Decided(i, Group(g))
            BY <1>4, <2>3, <3>1, FireRulesDecided
        <3> QED
            BY <1>4, <3>1 DEF Decided
    <2>6. i.kind = "create" => i.dep = current
        BY <2>3, GroupFacts DEF Purposeful
    <2> QED
        BY <2>1, <2>4, <2>5, <2>6 DEF Intents
<1>6. ASSUME NEW g \in Regions, Declares(current, g)
      PROVE  Cardinality(Steadfast(g)') >= deployments[current].want[g]
    <2>1. /\ Group(g).dep = current /\ Group(g).want = deployments[current].want[g]
          /\ Group(g).row = replicas
        BY <1>6 DEF Group, Declares, Calm, Versions, NoDeployment
    <2>2. ASSUME NEW i \in intents', i.kind = "drain", i.replica \in Live, replicas[i.replica].slot = g
          PROVE  i \in c[g]
        <3>1. i.replica # None
            BY <2>2, ConstantsAssumption DEF Live
        <3>2. i.slot = g
            BY <1>3, <2>2, <3>1 DEF Apt
        <3> QED
            BY <1>1, <2>2, <3>2 DEF Joined
    <2>3. IsFiniteSet(Steadfast(g)') /\ Cardinality(Steadfast(g)') \in Nat
        <3>1. Steadfast(g)' \in SUBSET Replicas
            BY DEF Steadfast, Serving, Undrained, InSlot, Live
        <3> QED
            BY <3>1, ConstantsAssumption, FS_Subset, FS_CardinalityType
    <2>4. CASE \A i \in c[g] : i.kind # "drain"
        <3>1. Steadfast(g)' = Steadfast(g)
            BY <1>2, <2>2, <2>4 DEF Steadfast, Serving, Undrained, InSlot, Live
        <3> QED
            BY <1>6, <3>1 DEF Calm
    <2>5. ASSUME NEW i \in c[g], i.kind = "drain"
          PROVE  Cardinality(Steadfast(g)') >= deployments[current].want[g]
        <3>1. c[g] \in fireRules(Group(g))
            BY <1>1 DEF Joined
        <3>2. /\ \A r \in Group(g).target : replicas[r].healthy
              /\ \E D \in SUBSET Group(g).target :
                    /\ Cardinality(Group(g).target \ D) = deployments[current].want[g]
                    /\ \A j \in c[g] : j.kind = "drain" => j.replica \in D
            BY <1>4, <2>1, <2>5, <3>1, DrainsLeaveEnough
        <3>3. PICK D \in SUBSET Group(g).target :
                    /\ Cardinality(Group(g).target \ D) = deployments[current].want[g]
                    /\ \A j \in c[g] : j.kind = "drain" => j.replica \in D
            BY <3>2
        <3>4. ASSUME NEW r \in Group(g).target \ D PROVE r \in Steadfast(g)'
            <4>1. /\ r \in Live /\ replicas[r].slot = g /\ replicas[r].dep = current
                  /\ replicas[r].drained = "none" /\ replicas[r].healthy
                BY <3>2, GroupFacts
            <4>2. \A j \in intents' : j.kind = "drain" => j.replica # r
                BY <2>2, <3>3, <4>1
            <4> QED
                BY <1>2, <4>1, <4>2 DEF Steadfast, Serving, Undrained, InSlot, Live
        <3>5. Group(g).target \ D \in SUBSET Steadfast(g)'
            BY <3>4
        <3>6. /\ Cardinality(Group(g).target \ D) <= Cardinality(Steadfast(g)')
              /\ Cardinality(Group(g).target \ D) \in Nat
            BY <2>3, <3>5, FS_Subset, FS_CardinalityType
        <3> QED
            BY <2>3, <3>3, <3>6
    <2> QED BY <2>4, <2>5
<1> QED
    BY <1>2, <1>5, <1>6 DEF Calm, Declares, Live

\* What a step may do to one row of an undisturbed service.
CalmMove(r) ==
    /\ r \in Live' => /\ replicas'[r].dep = current /\ replicas'[r].phase # "failed"
                      /\ ~replicas'[r].looping
    /\ r \in Live /\ replicas[r].healthy /\ replicas[r].drained = "none"
         /\ (\A i \in intents : i.kind = "drain" => i.replica # r) =>
             r \in Live' /\ replicas'[r].healthy /\ replicas'[r].drained = "none"

\* No fault is left to happen.
LEMMA NoFault ==
    ASSUME Undisturbed, TypeOK, NEW k \in Faults, k # "lostpass"
    PROVE  ~(faults < MaxFaults)
BY ConstantsAssumption DEF Undisturbed, TypeOK

\* A transaction of the actuator.
LEMMA CommitCalm ==
    ASSUME Inv, Calm, Commit, NEW r \in Replicas
    PROVE  CalmMove(r)
<1> USE DEF Inv
<1>1. /\ \A q \in Live : RowOK(replicas[q]) /\ replicas[q] \in Row /\ replicas[q] # NoRow
      /\ \A i \in intents : i \in Intents /\ IntentOK(i)
    BY InvParts, LiveRow, RowIsRow DEF TypeOK
<1>2. CASE replicas'[r] = replicas[r]
    BY <1>2 DEF CalmMove, Calm, Live
<1>3. ASSUME NEW i \in intents, CreateReplica(i)
      PROVE  CalmMove(r)
    <2>1. PICK q \in Replicas : Fresh(q) /\ replicas' = [replicas EXCEPT ![q] = NewRow(i.dep, i.slot)]
        BY <1>3 DEF CreateReplica
    <2>2. CASE r # q
        BY <1>2, <2>1, <2>2 DEF TypeOK
    <2>3. CASE r = q
        <3>1. replicas'[r] = NewRow(i.dep, i.slot) /\ r \notin Live /\ i.dep = current
            BY <1>3, <2>1, <2>3 DEF TypeOK, Fresh, Live, CreateReplica, Calm
        <3> QED
            BY <3>1 DEF CalmMove, NewRow
    <2> QED BY <2>2, <2>3
<1>4. ASSUME NEW i \in intents, AssignReplicaHost(i)
      PROVE  CalmMove(r)
    <2>1. CASE ~Reservable(i) \/ r # i.replica
        BY <1>2, <1>4, <2>1 DEF AssignReplicaHost, Write
    <2>2. CASE Reservable(i) /\ r = i.replica
        <3>1. /\ r \in Live /\ ~replicas[r].healthy
              /\ replicas[r].dep = current /\ ~replicas[r].looping
            BY <1>1, <1>4, <2>2 DEF AssignReplicaHost, Reservable, IntentOK, RowOK, Calm
        <3>2. replicas'[r] = [replicas[r] EXCEPT !.host = i.host, !.phase = "scheduling"]
            BY <1>4, <2>2 DEF AssignReplicaHost, Write
        <3>3. /\ replicas'[r].dep = current /\ replicas'[r].phase = "scheduling" /\ ~replicas'[r].looping
            BY <1>1, <3>1, <3>2 DEF Row
        <3> QED
            BY <3>1, <3>3 DEF CalmMove
    <2> QED BY <2>1, <2>2
<1>5. ASSUME NEW i \in intents, DrainReplica(i)
      PROVE  CalmMove(r)
    <2>1. CASE ~CASHolds(i.replica) \/ r # i.replica
        BY <1>2, <1>5, <2>1 DEF DrainReplica, Write
    <2>2. CASE CASHolds(i.replica) /\ r = i.replica
        <3>1. r \in Live /\ replicas[r].dep = current /\ ~replicas[r].looping /\ i.kind = "drain"
            BY <1>5, <2>2 DEF CASHolds, DrainReplica, Calm
        <3>2. replicas'[r] = Drain(replicas[r])
            BY <1>5, <2>2 DEF DrainReplica, Write
        <3>3. /\ replicas'[r].dep = current /\ replicas'[r].phase = "draining" /\ ~replicas'[r].looping
            BY <1>1, <3>1, <3>2 DEF Row, Drain
        <3> QED
            BY <2>2, <3>1, <3>3 DEF CalmMove
    <2> QED BY <2>1, <2>2
<1>6. ASSUME NEW i \in intents, DestroyReplica(i)
      PROVE  CalmMove(r)
    <2>1. CASE r # i.replica
        BY <1>2, <1>6, <2>1 DEF DestroyReplica, TypeOK
    <2>2. CASE r = i.replica
        <3>1. replicas'[r] = NoRow
            BY <1>6, <2>2 DEF DestroyReplica, TypeOK
        <3>2. r \in Live => ~replicas[r].healthy \/ replicas[r].drained # "none"
            BY <1>1, <1>6, <2>2 DEF DestroyReplica, IntentOK, RowOK, Spare, Calm
        <3> QED
            BY <3>1, <3>2 DEF CalmMove, Live
    <2> QED BY <2>1, <2>2
<1>7. ASSUME NEW i \in intents, FreezeReplica(i)
      PROVE  FALSE
    BY <1>7 DEF FreezeReplica, Calm
<1>8. ASSUME NEW g \in Regions, SwitchTraffic(g)
      PROVE  FALSE
    BY <1>8 DEF SwitchTraffic, SwitchBatch, Calm
<1>9. ASSUME NEW i \in intents, FailDeployment(i) \/ CompleteDeployment(i)
      PROVE  CalmMove(r)
    BY <1>2, <1>9 DEF FailDeployment, CompleteDeployment
<1> QED
    BY <1>3, <1>4, <1>5, <1>6, <1>7, <1>8, <1>9 DEF Commit

\* Everybody else.
LEMMA OthersCalm ==
    ASSUME Undisturbed, Inv, Calm, Agent \/ Watchdog \/ Clock \/ Operator, NEW r \in Replicas
    PROVE  CalmMove(r)
<1> USE DEF Inv
<1>1. \A q \in Live : RowOK(replicas[q]) /\ replicas[q] \in Row
    BY InvParts, LiveRow
<1>2. CASE replicas'[r] = replicas[r]
    BY <1>2 DEF CalmMove, Calm, Live
<1>3. CASE Agent
    <2>1. PICK q \in Replicas, o \in Reports : ObserveReplica(q, o)
        BY <1>3 DEF Agent
    <2>2. CASE r # q
        BY <1>2, <2>1, <2>2 DEF ObserveReplica, TypeOK
    <2>3. CASE r = q
        <3>1. r \in Live /\ replicas[r].dep = current /\ ~replicas[r].looping
            BY <2>1, <2>3 DEF ObserveReplica, Calm
        <3>2. FaultsOf(r, o) = {}
            <4>1. \A k \in FaultsOf(r, o) : k \in Faults /\ k # "lostpass"
                BY <2>1, <2>3 DEF ObserveReplica, FaultsOf
            <4> QED
                BY <2>1, <2>3, <4>1, NoFault DEF ObserveReplica
        <3>3. /\ o.phase # "failed" /\ ~o.looping
              /\ replicas[r].healthy => o.phase # "starting"
            <4>1. o.looping = replicas[r].looping
                BY <3>2 DEF FaultsOf
            <4> QED
                BY <3>1, <3>2, <4>1, Zenon DEF FaultsOf
        <3>4. o.phase \in {"starting", "active", "failed"}
            BY DEF Reports
        <3>5. replicas'[r] = Observed(replicas[r], o)
            BY <2>1, <2>3 DEF ObserveReplica, TypeOK
        <3>6. /\ replicas'[r].dep = replicas[r].dep /\ replicas'[r].phase = o.phase
              /\ replicas'[r].looping = o.looping /\ replicas'[r].drained = replicas[r].drained
              /\ replicas'[r].healthy <=> o.phase = "active"
            BY <1>1, <3>1, <3>5 DEF Observed, Row
        <3>7. replicas'[r] # NoRow
            BY <1>1, <3>1, <3>6, ConstantsAssumption DEF Row, NoRow, Versions, NoDeployment
        <3> QED
            BY <3>1, <3>3, <3>4, <3>6, <3>7 DEF CalmMove, Live
    <2> QED BY <2>2, <2>3
<1>4. CASE Watchdog
    <2>1. \A h \in Hosts : ~MarkHostDown(h)
        BY DEF MarkHostDown, Calm
    <2> QED
        BY <1>2, <1>4, <2>1 DEF Watchdog, MarkStaleHostUnhealthy, CompleteDrainedHosts
<1>5. CASE Clock
    <2>1. PICK q \in Replicas : ProgressDeadlinePasses(q) \/ DrainWindowElapses(q)
        BY <1>5 DEF Clock
    <2>2. CASE r # q
        BY <1>2, <2>1, <2>2 DEF ProgressDeadlinePasses, DrainWindowElapses, TypeOK
    <2>3. CASE r = q
        <3>1. r \in Live /\ replicas[r].dep = current /\ ~replicas[r].looping /\ replicas[r].phase # "failed"
            BY <2>1, <2>3 DEF ProgressDeadlinePasses, DrainWindowElapses, Calm
        <3>2. \/ replicas'[r] = [replicas[r] EXCEPT !.gate = "late"]
              \/ replicas[r].drained = "bleeding" /\ replicas'[r] = [replicas[r] EXCEPT !.drained = "elapsed"]
            BY <2>1, <2>3 DEF ProgressDeadlinePasses, DrainWindowElapses, TypeOK
        <3>3. replicas'[r] \in Row
            BY <1>1, <3>1, <3>2 DEF Row
        <3>4. /\ replicas'[r].dep = replicas[r].dep /\ replicas'[r].phase = replicas[r].phase
              /\ replicas'[r].looping = replicas[r].looping /\ replicas'[r].healthy = replicas[r].healthy
              /\ replicas[r].drained = "none" => replicas'[r].drained = "none"
            BY <1>1, <3>1, <3>2 DEF Row
        <3> QED
            BY <3>1, <3>3, <3>4, RowIsRow DEF CalmMove, Live
    <2> QED BY <2>2, <2>3
<1>6. CASE Operator
    <2>1. \A q \in Replicas : ~DeleteReplica(q) /\ ~RestartReplica(q)
        BY DEF Undisturbed, DeleteReplica, RestartReplica, Op
    <2> QED
        BY <1>2, <1>6, <2>1 DEF Operator, Deploy, Rollback, Scale, Down, CordonHost, UncordonHost,
              DrainHost, SetHostStatus
<1> QED
    BY <1>3, <1>4, <1>5, <1>6

\* Any step but a new pass.
LEMMA ShrinkCalm ==
    ASSUME Undisturbed, Inv, Calm, [Next]_vars, Shrink
    PROVE  Calm'
<1> USE DEF Inv
<1>1. ASSUME NEW r \in Replicas PROVE CalmMove(r)
    <2>1. CASE Reconcile \/ AbandonPass \/ UNCHANGED vars \/ \E h \in Hosts : RecordHeartbeat(h)
        <3>1. replicas' = replicas
            BY <2>1 DEF Reconcile, AbandonPass, RecordHeartbeat, vars, dbVars
        <3> QED
            BY <3>1 DEF CalmMove, Calm, Live
    <2> QED
        BY <2>1, CommitCalm, OthersCalm DEF Next, Engine
<1>2. /\ current' = current
      /\ \A g \in Regions : deployments'[current].want[g] = deployments[current].want[g]
    <2>1. CASE UNCHANGED <<deployments, current>>
        BY <2>1
    <2>2. ASSUME NEW i \in intents, FailDeployment(i) \/ CompleteDeployment(i)
          PROVE  current' = current /\ deployments'[current].want = deployments[current].want
        <3>1. PICK s \in {"failed", "active"} : deployments' = [deployments EXCEPT ![i.dep].status = s]
            BY <2>2 DEF FailDeployment, CompleteDeployment
        <3>2. deployments'[current].want = deployments[current].want
            BY <3>1 DEF TypeOK, Deployment, Calm
        <3> QED
            BY <2>2, <3>2 DEF FailDeployment, CompleteDeployment
    <2>3. CASE Commit
        BY <2>1, <2>2, <2>3 DEF Commit, CreateReplica, AssignReplicaHost, DrainReplica, FreezeReplica,
              DestroyReplica, SwitchTraffic
    <2>4. CASE Operator
        BY <2>1, <2>4 DEF Undisturbed, Operator, Op, Deploy, Rollback, Scale, Down, CordonHost, UncordonHost,
              DrainHost, SetHostStatus, DeleteReplica, RestartReplica
    <2>5. CASE Reconcile \/ AbandonPass \/ Agent \/ Watchdog \/ Clock \/ UNCHANGED vars
                \/ \E h \in Hosts : RecordHeartbeat(h)
        BY <2>1, <2>5 DEF Reconcile, AbandonPass, Agent, ObserveReplica, Watchdog, MarkStaleHostUnhealthy,
              MarkHostDown, CompleteDrainedHosts, Clock, ProgressDeadlinePasses, DrainWindowElapses,
              RecordHeartbeat, vars, dbVars
    <2> QED
        BY <2>3, <2>4, <2>5 DEF Next, Engine
<1>3. \A h \in Hosts : hosts'[h].healthy
    <2>1. CASE hosts' = hosts
        BY <2>1 DEF Calm
    <2>2. ASSUME NEW h \in Hosts, MarkStaleHostUnhealthy(h) PROVE FALSE
        BY <2>2, NoFault DEF MarkStaleHostUnhealthy
    <2>3. ASSUME NEW h \in Hosts, RecordHeartbeat(h) PROVE FALSE
        BY <2>3 DEF RecordHeartbeat, Calm
    <2>4. CASE CompleteDrainedHosts
        BY <2>4 DEF CompleteDrainedHosts, TypeOK, Calm
    <2>5. ASSUME NEW q \in Hosts, CordonHost(q) \/ UncordonHost(q) \/ DrainHost(q)
          PROVE  \A h \in Hosts : hosts'[h].healthy
        <3>1. PICK s \in {"open", "cordoned", "draining"} : hosts' = [hosts EXCEPT ![q].status = s]
            BY <2>5 DEF CordonHost, UncordonHost, DrainHost, SetHostStatus
        <3> QED
            BY <3>1 DEF TypeOK, Calm
    <2>6. CASE Operator
        BY <2>1, <2>5, <2>6 DEF Operator, Deploy, Rollback, Scale, Down, DeleteReplica, RestartReplica
    <2>7. CASE Commit
        BY <2>1, <2>7 DEF Commit, CreateReplica, AssignReplicaHost, DrainReplica, FreezeReplica,
              DestroyReplica, FailDeployment, CompleteDeployment, SwitchTraffic
    <2>8. CASE Watchdog
        BY <2>1, <2>2, <2>4, <2>8 DEF Watchdog, MarkHostDown
    <2>9. CASE Reconcile \/ AbandonPass \/ Agent \/ Clock \/ UNCHANGED vars
        BY <2>1, <2>9 DEF Reconcile, AbandonPass, Agent, ObserveReplica, Clock, ProgressDeadlinePasses,
              DrainWindowElapses, vars, dbVars
    <2> QED
        BY <2>3, <2>6, <2>7, <2>8, <2>9 DEF Next, Engine
<1>4. \A r \in Live' : /\ replicas'[r].dep = current /\ replicas'[r].phase # "failed"
                       /\ ~replicas'[r].looping
    BY <1>1 DEF CalmMove, Live
<1>5. ASSUME NEW g \in Regions, Declares(current, g)
      PROVE  Cardinality(Steadfast(g)') >= deployments[current].want[g]
    <2>1. ASSUME NEW r \in Steadfast(g) PROVE r \in Steadfast(g)'
        <3>1. /\ r \in Live /\ r \in Replicas /\ replicas[r].dep = current /\ replicas[r].slot = g
              /\ replicas[r].drained = "none" /\ replicas[r].healthy
              /\ \A i \in intents : i.kind = "drain" => i.replica # r
            BY DEF Steadfast, Serving, Undrained, InSlot, Live
        <3>2. r \in Live' /\ replicas'[r].healthy /\ replicas'[r].drained = "none"
            BY <1>1, <3>1 DEF CalmMove
        <3>3. replicas'[r].dep = current' /\ replicas'[r].slot = g
            BY <1>2, <3>1, <3>2, RowOrigin
        <3>4. \A i \in intents' : i.kind = "drain" => i.replica # r
            BY <3>1 DEF Shrink
        <3> QED
            BY <3>2, <3>3, <3>4 DEF Steadfast, Serving, Undrained, InSlot
    <2>2. Steadfast(g) \in SUBSET Steadfast(g)' /\ Steadfast(g)' \in SUBSET Replicas
        BY <2>1 DEF Steadfast, Serving, Undrained, InSlot, Live
    <2>3. IsFiniteSet(Steadfast(g)') /\ IsFiniteSet(Steadfast(g))
        BY <2>2, ConstantsAssumption, FS_Subset
    <2>4. /\ Cardinality(Steadfast(g)) <= Cardinality(Steadfast(g)')
          /\ Cardinality(Steadfast(g)) \in Nat /\ Cardinality(Steadfast(g)') \in Nat
        BY <2>2, <2>3, FS_Subset, FS_CardinalityType
    <2>5. Cardinality(Steadfast(g)) >= deployments[current].want[g]
        BY <1>5 DEF Calm
    <2>6. deployments[current].want[g] \in Int
        BY ConstantsAssumption DEF Calm, TypeOK, Deployment, Counts, Absent
    <2> QED
        BY <2>4, <2>5, <2>6
<1>6. \A i \in intents' : /\ i.kind \in {"create", "assign", "drain", "destroy", "fail", "complete"}
                          /\ i.kind = "create" => i.dep = current
    BY DEF Shrink, Calm
<1> QED
    BY <1>2, <1>3, <1>4, <1>5, <1>6 DEF Calm, Declares

\* A converged service is calm.
LEMMA SteadyIsCalm ==
    ASSUME Steady
    PROVE  Inv /\ Calm
<1>1. PICK g \in Regions, n \in Counts \ {0} :
          \E S \in kSubset(n, Replicas) : \E p \in [S -> Hosts] : Converged(g, n, S, p)
    BY DEF Steady
<1>s. PICK S \in kSubset(n, Replicas) : \E p \in [S -> Hosts] : Converged(g, n, S, p)
    BY <1>1
<1>6. PICK p \in [S -> Hosts] : Converged(g, n, S, p)
    BY <1>s
<1>2. /\ current = 1 /\ 1 \in Versions /\ intents = {} /\ moved = {} /\ ops = 0 /\ faults = 0
      /\ hosts = [h \in Hosts |-> [healthy |-> TRUE, status |-> "open"]]
    BY DEF Steady
<1>3. S \in SUBSET Replicas /\ Cardinality(S) = n
    BY DEF kSubset
<1>4. ASSUME NEW r \in S
      PROVE  /\ replicas[r] \in Row
             /\ replicas[r].dep = 1 /\ replicas[r].slot = g /\ replicas[r].host # None
             /\ replicas[r].phase = "active" /\ replicas[r].healthy /\ ~replicas[r].looping
             /\ replicas[r].gate = "passed" /\ replicas[r].drained = "none"
    <2>1. replicas[r] = [NewRow(1, g) EXCEPT !.host = p[r], !.phase = "active",
                                             !.healthy = TRUE, !.gate = "passed"]
        BY <1>3, <1>6 DEF Converged
    <2>2. PICK h \in Hosts : h = p[r] /\ h # None
        BY ConstantsAssumption
    <2>3. NewRow(1, g) \in Row
        BY <1>2, NewRowTyped
    <2>4. replicas[r] = [NewRow(1, g) EXCEPT !.host = h, !.phase = "active",
                                             !.healthy = TRUE, !.gate = "passed"]
        BY <2>1, <2>2
    <2>5. /\ NewRow(1, g).dep = 1 /\ NewRow(1, g).slot = g /\ ~NewRow(1, g).looping
          /\ NewRow(1, g).drained = "none"
        BY DEF NewRow
    <2> QED
        BY <2>2, <2>3, <2>4, <2>5 DEF Row, Phases
<1>5. ASSUME NEW r \in S PROVE RowOK(replicas[r]) /\ replicas[r] # NoRow
    BY <1>4, RowIsRow DEF RowOK
<1>7. Live = S
    <2>1. \A r \in Replicas \ S : replicas[r] = NoRow
        BY <1>6 DEF Converged
    <2> QED
        BY <1>3, <1>5, <2>1 DEF Live
<1>8. TypeOK
    <2>1. deployments \in [Versions -> Deployment]
        <3>1. [status |-> "active", want |-> [x \in Regions |-> IF x = g THEN n ELSE Absent]] \in Deployment
            BY DEF Deployment, Statuses
        <3>2. NoCommit \in Deployment
            BY DEF NoCommit, Deployment, Statuses
        <3> QED
            BY <1>6, <3>1, <3>2 DEF Converged
    <2>2. replicas \in [Replicas -> Row \cup {NoRow}]
        BY <1>4, <1>6 DEF Converged
    <2>3. served \in [Regions -> Versions \cup {NoDeployment}]
        BY <1>2, <1>6 DEF Converged
    <2> QED
        BY <1>2, <2>1, <2>2, <2>3, ConstantsAssumption DEF TypeOK
<1>9. Inv
    BY <1>2, <1>5, <1>7, <1>8, InvParts DEF Inv, Distinct
<1>10. ASSUME NEW h \in Regions, Declares(current, h)
       PROVE  Cardinality(Steadfast(h)) >= deployments[current].want[h]
    <2>1. h = g /\ deployments[current].want[h] = n
        BY <1>2, <1>6, <1>10 DEF Declares, Converged
    <2>2. \A r \in S : r \in Steadfast(g)
        BY <1>2, <1>4, <1>7 DEF Steadfast, Serving, Undrained, InSlot
    <2>3. Steadfast(g) \subseteq S
        BY <1>7 DEF Steadfast, Serving, Undrained, InSlot
    <2>4. Steadfast(g) = S
        BY <2>2, <2>3
    <2> QED
        BY <1>3, <2>1, <2>4 DEF Counts
<1>11. Calm
    <2>1. \A h \in Hosts : hosts[h].healthy
        BY <1>2
    <2> QED
        BY <1>2, <1>4, <1>7, <1>10, <2>1 DEF Calm
<1> QED
    BY <1>9, <1>11

\* While hosts are only moved out of and back into service, a group never has
\* fewer serving replicas than it wants: the surge replica is healthy before
\* the leaving one is drained (healthyTargets, rollingScaleDown).
THEOREM CapacityIsKept == Undisturbed => (SteadySpec => []EvacuationKeepsCapacity)
<1> SUFFICES ASSUME Undisturbed PROVE SteadySpec => []EvacuationKeepsCapacity
    OBVIOUS
<1>1. Steady => Inv /\ Calm
    BY SteadyIsCalm
<1>2. Inv /\ Calm /\ [Next]_vars => Inv' /\ Calm'
    BY InvStep, PassOrShrink, ReconcileCalm, ShrinkCalm DEF Inv
<1>3. Inv /\ Calm => EvacuationKeepsCapacity
    <2> SUFFICES ASSUME Inv, Calm, NEW g \in Regions, Group(g).dep # NoDeployment
                 PROVE  Cardinality(Serving(current, g)) >= Group(g).want
        BY DEF EvacuationKeepsCapacity
    <2>1. Declares(current, g) /\ Group(g).want = deployments[current].want[g]
        BY DEF Group, Declares
    <2>2. Cardinality(Steadfast(g)) >= deployments[current].want[g]
        BY <2>1 DEF Calm
    <2>3. Steadfast(g) \in SUBSET Serving(current, g) /\ Serving(current, g) \in SUBSET Replicas
        BY DEF Steadfast, Serving, Undrained, InSlot, Live
    <2>4. IsFiniteSet(Serving(current, g)) /\ IsFiniteSet(Steadfast(g))
        BY <2>3, ConstantsAssumption, FS_Subset
    <2>5. /\ Cardinality(Steadfast(g)) <= Cardinality(Serving(current, g))
          /\ Cardinality(Steadfast(g)) \in Nat /\ Cardinality(Serving(current, g)) \in Nat
        BY <2>3, <2>4, FS_Subset, FS_CardinalityType
    <2>6. deployments[current].want[g] \in Int
        BY ConstantsAssumption DEF Calm, Inv, TypeOK, Deployment, Counts, Absent
    <2> QED
        BY <2>1, <2>2, <2>5, <2>6
<1> QED
    BY <1>1, <1>2, <1>3, PTL DEF SteadySpec
=============================================================================
