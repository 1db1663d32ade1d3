------------------------------ MODULE LeaseProofs ------------------------------
(***************************************************************************)
(* One writer on a volume, for any number of replica ids, hosts, regions,  *)
(* versions, commands and faults.                                          *)
(*                                                                         *)
(* A stateful service wants one replica at most (checkStatefulScale).  The *)
(* recreate cascade creates it when the slot holds no row at all, not even *)
(* one that is draining or has failed, and nobody else creates rows: so    *)
(* the slot never has two, and while a create is pending it has none.  A   *)
(* container only runs what the host was once sent, one row at a time.     *)
(***************************************************************************)
EXTENDS VolumeLease, FiniteSetTheorems, TLAPS

\* What checkStatefulScale asks of every deploy and scale of the service.
OneReplica == MaxCount <= 1

Home == HostRegion[VolumeHost]

AtMostOne(S) == \A x, y \in S : x = y

Tables ==
    /\ deployments \in [Versions -> Deployment]
    /\ current \in Versions \cup {NoDeployment}
    /\ replicas \in [Replicas -> Row \cup {NoRow}]
    /\ \A r \in Live : replicas[r].slot = Home

Named ==
    \A i \in intents :
        /\ i.dep \in Versions \cup {NoDeployment}
        /\ i.kind = "create" => i.dep \in Versions /\ i.slot = Home
        /\ i.kind = "assign" => i.host = VolumeHost

\* The slot has one row, or one to come.
Alone ==
    /\ AtMostOne(Live)
    /\ \A i \in intents : i.kind = "create" => Live = {} /\ intents = {i}

\* The host has been sent one row at a time.
Contained ==
    /\ wire = NoState \/ (wire \subseteq Replicas /\ AtMostOne(wire))
    /\ running \subseteq Replicas /\ AtMostOne(running)

Inv == Tables /\ Named /\ Alone /\ Contained

-----------------------------------------------------------------------------
(* Deciding.                                                               *)

\* A set of one element at most.
LEMMA Few ==
    ASSUME NEW S, AtMostOne(S) PROVE IsFiniteSet(S) /\ Cardinality(S) <= 1
  <1>1. CASE S = {}
    BY <1>1, FS_EmptySet
  <1>2. CASE S # {}
    <2>1. PICK x : x \in S
      BY <1>2
    <2>2. S = {x}
      BY <2>1 DEF AtMostOne
    <2>3. IsFiniteSet({x}) /\ Cardinality({x}) = 1
      BY FS_Singleton
    <2> QED
      BY <2>2, <2>3
  <1> QED
    BY <1>1, <1>2

RecreateRules ==
    {"deploymentFrozen", "crashLooping", "trimHostlessExcess", "anyHostlessReplicas",
     "newHealthOpenPastDeadline", "notAllHealthy", "drainOutgoing", "reapDrained",
     "reapFailedOutgoing", "recreateRampUp", "rollingScaleDown", "rolloutComplete"}

\* An intent as a rule of the group emits it.
Emitted(i, kind, g) == \E r, n : i = Intent(kind, g, r, n)

\* The rules of both cascades but the ramp-up create nothing.
LEMMA NothingCreated ==
    ASSUME NEW g, NEW rule \in RecreateRules,
           rule # "recreateRampUp", NEW its \in recreateThen(rule, g), NEW i \in its
    PROVE  \E kind : kind # "create" /\ Emitted(i, kind, g)
  <1>1. CASE rule = "trimHostlessExcess"
    <2>1. PICK S : its = {[j EXCEPT !.kind = "trim"] : j \in PerReplica("destroy", g, S)}
      BY <1>1 DEF recreateThen, TrimHostless
    <2>2. PICK r : i = [Intent("destroy", g, r, 0) EXCEPT !.kind = "trim"]
      BY <2>1 DEF PerReplica
    <2>3. i = Intent("trim", g, r, 0)
      BY <2>2 DEF Intent
    <2> QED
      BY <2>3 DEF Emitted
  <1>2. CASE rule = "crashLooping"
    BY <1>2 DEF recreateThen, Then, CrashVerdict, PerReplica, Emitted
  <1>3. CASE rule = "rollingScaleDown"
    <2>1. PICK F, D : its = PerReplica("destroy", g, F) \cup PerReplica("drain", g, D)
      BY <1>3 DEF recreateThen, Then, ScaleDown
    <2> QED
      BY <2>1 DEF PerReplica, Emitted
  <1>4. CASE rule \in {"deploymentFrozen", "anyHostlessReplicas", "newHealthOpenPastDeadline",
                       "notAllHealthy", "drainOutgoing", "reapDrained", "reapFailedOutgoing",
                       "rolloutComplete"}
    BY <1>4 DEF recreateThen, Then, PerReplica, Emitted
  <1> QED
    BY <1>1, <1>2, <1>3, <1>4 DEF RecreateRules

\* The slot as the cascade sees it.
LEMMA GroupShows ==
    ASSUME Tables
    PROVE  LET g == StatefulGroup
           IN  /\ g.slot = Home /\ g.row = replicas /\ g.leaving = {}
               /\ g.dep \in Versions \cup {NoDeployment}
               /\ g.want \in Counts
               /\ g.target \cup g.frozen \cup g.outgoing = Live
               /\ g.target \cap g.frozen = {}
               /\ g.target \subseteq Replicas /\ g.frozen \subseteq Replicas
  <1> DEFINE rows    == {r \in Live : replicas[r].slot = Home}
             staying == {r \in rows : replicas[r].dep = current /\ replicas[r].drained = "none"}
             g == StatefulGroup
  <1>1. rows = Live /\ Live \subseteq Replicas
    BY DEF Tables, Live
  <1>2. /\ g.slot = Home /\ g.row = replicas /\ g.leaving = {}
        /\ g.target = {r \in staying : replicas[r].phase # "failed"}
        /\ g.frozen = {r \in staying : replicas[r].phase = "failed"}
        /\ g.outgoing = rows \ staying
    BY DEF StatefulGroup, Group, Home
  <1>3. g.dep \in Versions \cup {NoDeployment} /\ g.want \in Counts
    <2> DEFINE declared == current # NoDeployment /\ deployments[current].want[Home] # Absent
    <2>1. /\ g.dep = IF declared THEN current ELSE NoDeployment
          /\ g.want = IF declared THEN deployments[current].want[Home] ELSE 0
      BY DEF StatefulGroup, Group, Home
    <2>2. Home \in Regions
      BY ConstantsAssumption, LeaseAssumption DEF Home
    <2>3. 0 \in Counts
      BY ConstantsAssumption DEF Counts
    <2>4. declared => deployments[current].want[Home] \in Counts
      BY <2>2 DEF Tables, Deployment
    <2> QED
      BY <2>1, <2>3, <2>4 DEF Tables
  <1> QED
    BY <1>1, <1>2, <1>3

\* When every target is healthy and nothing is left to retire, a deficit of
\* one is an empty slot.
LEMMA EmptySlot ==
    ASSUME OneReplica, Tables,
           recreateWhen("recreateRampUp", StatefulGroup),
           ~recreateWhen("notAllHealthy", StatefulGroup)
    PROVE  Live = {} /\ StatefulGroup.want - heldSlots(StatefulGroup) = 1
  <1> DEFINE g == StatefulGroup
             sound == {r \in g.target \ g.leaving : g.row[r].healthy}
  <1>1. /\ g.leaving = {} /\ g.want \in Counts
        /\ g.target \cup g.frozen \cup g.outgoing = Live
        /\ g.target \subseteq Replicas /\ g.frozen \subseteq Replicas
    BY GroupShows
  <1>2. g.outgoing = {} /\ heldSlots(g) < g.want
    BY DEF recreateWhen
  <1>3. \A r \in g.target : g.row[r].healthy
    BY DEF recreateWhen, When
  <1>4. sound = g.target
    BY <1>1, <1>3
  <1>5. heldSlots(g) = Cardinality(g.target) + Cardinality(g.frozen)
    BY <1>4 DEF heldSlots, healthyTargets
  <1>6. /\ IsFiniteSet(g.target) /\ Cardinality(g.target) \in Nat
        /\ IsFiniteSet(g.frozen) /\ Cardinality(g.frozen) \in Nat
    BY <1>1, ConstantsAssumption, FS_Subset, FS_CardinalityType
  <1>7. g.want \in 0 .. 1
    BY <1>1, ConstantsAssumption DEF OneReplica, Counts
  <1> HIDE DEF g, sound
  <1>8. Cardinality(g.target) = 0 /\ Cardinality(g.frozen) = 0 /\ g.want - heldSlots(g) = 1
    BY <1>2, <1>5, <1>6, <1>7
  <1>9. g.target = {} /\ g.frozen = {}
    BY <1>6, <1>8, FS_EmptySet
  <1> QED
    BY <1>1, <1>2, <1>8, <1>9 DEF g

\* A decision that creates a replica creates one, for an empty slot.
LEMMA CreatesAlone ==
    ASSUME OneReplica, Tables, NEW its \in recreateRules(StatefulGroup), NEW i \in its
    PROVE  /\ \E kind : Emitted(i, kind, StatefulGroup)
           /\ i.kind = "create" =>
                  StatefulGroup.dep # NoDeployment /\ Live = {} /\ its = {i}
  <1> DEFINE g       == StatefulGroup
             cascade == IF g.dep = NoDeployment THEN orphanCascade ELSE recreateCascade
             first   == {k \in DOMAIN cascade : /\ recreateWhen(cascade[k], g)
                                                /\ \A j \in 1 .. k - 1 : ~recreateWhen(cascade[j], g)}
  <1>2. PICK k \in first : its \in recreateThen(cascade[k], g)
    BY DEF recreateRules
  <1>3. cascade[k] \in RecreateRules
    BY DEF recreateCascade, orphanCascade, RecreateRules
  <1>4. CASE cascade[k] # "recreateRampUp"
    BY <1>2, <1>3, <1>4, NothingCreated DEF Emitted, Intent
  <1>5. CASE cascade[k] = "recreateRampUp"
    <2>1. g.dep # NoDeployment /\ k = 10 /\ cascade[6] = "notAllHealthy"
      <3>1. ASSUME NEW j \in DOMAIN orphanCascade PROVE orphanCascade[j] # "recreateRampUp"
        BY DEF orphanCascade
      <3>2. ASSUME NEW j \in DOMAIN recreateCascade, recreateCascade[j] = "recreateRampUp" PROVE j = 10
        <4>1. j \in 1 .. 12
          BY DEF recreateCascade
        <4> QED
          BY <3>2, <4>1 DEF recreateCascade
      <3>3. g.dep # NoDeployment
        BY <1>5, <3>1
      <3>4. cascade = recreateCascade /\ recreateCascade[6] = "notAllHealthy"
        BY <3>3 DEF recreateCascade
      <3> QED
        BY <1>5, <3>2, <3>3, <3>4
    <2>2. Live = {} /\ g.want - heldSlots(g) = 1
      BY <1>2, <1>5, <2>1, EmptySlot
    <2>3. its = {Intent("create", g, None, n) : n \in 1 .. g.want - heldSlots(g)}
      BY <1>2, <1>5 DEF recreateThen
    <2>4. its = {Intent("create", g, None, 1)}
      BY <2>2, <2>3
    <2> QED
      BY <2>1, <2>2, <2>4 DEF Emitted
  <1> QED
    BY <1>4, <1>5

\* The placer asks for the volume's host and changes nothing else.
LEMMA PassIsNamed ==
    ASSUME OneReplica, Tables, NEW its \in recreateRules(StatefulGroup)
    PROVE  \A i \in placePinned(its) :
               /\ i.dep \in Versions \cup {NoDeployment}
               /\ i.kind = "create" => /\ i.dep \in Versions /\ i.slot = Home
                                       /\ Live = {} /\ placePinned(its) = {i}
               /\ i.kind = "assign" => i.host = VolumeHost
  <1> DEFINE g == StatefulGroup
             pin(j) == [j EXCEPT !.host = IF j.kind = "assign" THEN VolumeHost ELSE @]
  <1>1. g.slot = Home /\ g.dep \in Versions \cup {NoDeployment}
    BY GroupShows
  <1> SUFFICES ASSUME NEW i \in placePinned(its)
               PROVE  /\ i.dep \in Versions \cup {NoDeployment}
                      /\ i.kind = "create" => /\ i.dep \in Versions /\ i.slot = Home
                                              /\ Live = {} /\ placePinned(its) = {i}
                      /\ i.kind = "assign" => i.host = VolumeHost
    OBVIOUS
  <1>2. PICK j \in its : i = pin(j)
    BY DEF placePinned
  <1>3. PICK kind, r, n : j = Intent(kind, g, r, n)
    BY CreatesAlone DEF Emitted
  <1> HIDE DEF g
  <1>4. /\ i.kind = kind /\ i.dep = g.dep /\ i.slot = g.slot /\ j.kind = kind
        /\ kind = "assign" => i.host = VolumeHost
    BY <1>2, <1>3 DEF Intent
  <1>5. ASSUME kind = "create" PROVE g.dep # NoDeployment /\ Live = {} /\ placePinned(its) = {i}
    <2>1. g.dep # NoDeployment /\ Live = {} /\ its = {j}
      BY <1>4, <1>5, CreatesAlone DEF g
    <2>2. \A x \in placePinned(its) : \E y \in its : x = pin(y)
      BY DEF placePinned
    <2>3. \A x \in placePinned(its) : x = pin(j)
      BY <2>1, <2>2
    <2> HIDE DEF pin
    <2> QED
      BY <1>2, <2>1, <2>3
  <1> QED
    BY <1>1, <1>4, <1>5

-----------------------------------------------------------------------------
(* What a step does to the rows.                                           *)

\* A row is left alone, removed or rewritten in place.
Treated(r) ==
    \/ replicas'[r] \in {replicas[r], NoRow}
    \/ r \in Live /\ replicas'[r] \in Row /\ replicas'[r].slot = replicas[r].slot

\* No row is created.
Shrinks ==
    /\ replicas' \in [Replicas -> Row \cup {NoRow}]
    /\ \A r \in Live' : r \in Live /\ replicas'[r].slot = replicas[r].slot

LEMMA TreatedShrinks ==
    ASSUME Tables, NEW f, replicas' = [r \in Replicas |-> f[r]], \A r \in Replicas : Treated(r)
    PROVE  Shrinks
  <1>1. \A r \in Replicas : replicas[r] \in Row \cup {NoRow}
    BY DEF Tables
  <1>2. \A r \in Replicas : replicas'[r] \in Row \cup {NoRow}
    BY <1>1 DEF Treated
  <1>3. replicas' \in [Replicas -> Row \cup {NoRow}]
    BY <1>2
  <1>4. \A r \in Live' : r \in Live /\ replicas'[r].slot = replicas[r].slot
    BY DEF Treated, Live
  <1> QED
    BY <1>3, <1>4 DEF Shrinks

LEMMA LiveIsRow == ASSUME Tables, NEW r \in Live PROVE r \in Replicas /\ replicas[r] \in Row
  BY DEF Tables, Live

\* The ways in which statements rewrite a row.
LEMMA Rewritten ==
    ASSUME NEW row \in Row, NEW h \in Hosts
    PROVE  \A new \in {[row EXCEPT !.host = h, !.phase = "scheduling"], Drain(row),
                       [row EXCEPT !.phase = "failed", !.healthy = FALSE],
                       [row EXCEPT !.host = None, !.healthy = FALSE, !.phase = "replacing"],
                       [row EXCEPT !.phase = "replacing", !.host = None,
                                   !.healthy = FALSE, !.looping = FALSE],
                       [row EXCEPT !.drained = "elapsed"]} :
               new \in Row /\ new.slot = row.slot
  <1>2. /\ [row EXCEPT !.host = h, !.phase = "scheduling"] \in Row
        /\ [row EXCEPT !.host = h, !.phase = "scheduling"].slot = row.slot
    BY DEF Row, Phases
  <1>3. Drain(row) \in Row /\ Drain(row).slot = row.slot
    BY DEF Drain, Row, Phases
  <1>4. /\ [row EXCEPT !.phase = "failed", !.healthy = FALSE] \in Row
        /\ [row EXCEPT !.phase = "failed", !.healthy = FALSE].slot = row.slot
    BY DEF Row, Phases
  <1>5. /\ [row EXCEPT !.host = None, !.healthy = FALSE, !.phase = "replacing"] \in Row
        /\ [row EXCEPT !.host = None, !.healthy = FALSE, !.phase = "replacing"].slot = row.slot
    BY DEF Row, Phases
  <1>6. /\ [row EXCEPT !.phase = "replacing", !.host = None, !.healthy = FALSE, !.looping = FALSE] \in Row
        /\ [row EXCEPT !.phase = "replacing", !.host = None,
                       !.healthy = FALSE, !.looping = FALSE].slot = row.slot
    BY DEF Row, Phases
  <1>7. [row EXCEPT !.drained = "elapsed"] \in Row /\ [row EXCEPT !.drained = "elapsed"].slot = row.slot
    BY DEF Row
  <1> QED
    BY <1>2, <1>3, <1>4, <1>5, <1>6, <1>7

LEMMA ReportedRow ==
    ASSUME NEW row \in Row, NEW o \in Reports
    PROVE  Observed(row, o) \in Row /\ Observed(row, o).slot = row.slot
  <1>1. o.phase \in {"starting", "active", "failed"} /\ o.looping \in BOOLEAN
    <2>1. CASE \E p \in {"starting", "active"}, l \in BOOLEAN : o = [phase |-> p, looping |-> l]
      BY <2>1
    <2>2. CASE o = [phase |-> "failed", looping |-> FALSE]
      BY <2>2
    <2> QED
      BY <2>1, <2>2 DEF Reports
  <1>2. PICK p \in {"starting", "active", "failed"}, l \in BOOLEAN : o.phase = p /\ o.looping = l
    BY <1>1
  <1>3. Observed(row, o) = [row EXCEPT !.phase = p, !.healthy = (p = "active"), !.looping = l,
                                         !.gate = IF p = "active" THEN "passed" ELSE @]
    BY <1>2 DEF Observed
  <1>4. CASE p = "active"
    BY <1>3, <1>4 DEF Row, Phases
  <1>5. CASE p # "active"
    BY <1>3, <1>5 DEF Row, Phases
  <1> QED
    BY <1>4, <1>5

\* No intent but a create adds a row.
LEMMA IntentShrinks ==
    ASSUME Tables, Named, NEW i \in intents,
           AssignStateful(i) \/ DestroyStateful(i) \/ TrimReplica(i) \/ DrainReplica(i) \/ FreezeReplica(i)
    PROVE  Shrinks
  <1>1. \A r \in Live : r \in Replicas /\ replicas[r] \in Row
    BY LiveIsRow
  <1>2. \A r \in Replicas : replicas'[r] = replicas[r] => Treated(r)
    BY DEF Treated
  <1>3. replicas = [r \in Replicas |-> replicas[r]]
    BY DEF Tables
  <1>4. CASE UNCHANGED replicas
    BY <1>2, <1>3, <1>4, TreatedShrinks
  <1>5. CASE replicas' = [replicas EXCEPT ![i.replica] = NoRow]
    <2> DEFINE f == [replicas EXCEPT ![i.replica] = NoRow]
    <2>1. replicas' = [r \in Replicas |-> f[r]]
      BY <1>3, <1>5
    <2>2. \A r \in Replicas : Treated(r)
      BY <1>3, <1>5 DEF Treated
    <2> HIDE DEF f
    <2> QED
      BY <2>1, <2>2, TreatedShrinks
  <1>6. CASE AssignStateful(i) /\ PinnedReservable(i) /\ Acquirable(i.replica)
    <2> DEFINE f == [r \in Replicas |-> IF r \in {i.replica}
                          THEN [replicas[r] EXCEPT !.host = i.host, !.phase = "scheduling"] ELSE replicas[r]]
    <2>1. replicas' = f /\ i.replica \in Live /\ i.host = VolumeHost
      BY <1>6 DEF AssignStateful, PinnedReservable, Write, Named
    <2>2. \A r \in Replicas : Treated(r)
      BY <1>1, <1>2, <2>1, LeaseAssumption, Rewritten DEF Treated
    <2> QED
      BY <2>1, <2>2, TreatedShrinks
  <1>7. CASE DrainReplica(i) /\ CASHolds(i.replica)
    <2>1. i.replica \in Live /\ replicas' = [r \in Replicas |-> IF r \in {i.replica} THEN Drain(replicas[r])
                                                                                ELSE replicas[r]]
      BY <1>7 DEF DrainReplica, CASHolds, Write
    <2>2. \A r \in Replicas : Treated(r)
      BY <1>1, <1>2, <2>1, LeaseAssumption, Rewritten DEF Treated
    <2> QED
      BY <2>1, <2>2, TreatedShrinks
  <1>8. CASE FreezeReplica(i) /\ i.replica \in Live /\ ~OrchestratorOwned(replicas[i.replica].phase)
    <2>1. replicas' = [r \in Replicas |-> IF r \in {i.replica}
                           THEN [replicas[r] EXCEPT !.phase = "failed", !.healthy = FALSE] ELSE replicas[r]]
      BY <1>8 DEF FreezeReplica, Write
    <2>2. \A r \in Replicas : Treated(r)
      BY <1>1, <1>2, <1>8, <2>1, LeaseAssumption, Rewritten DEF Treated
    <2> QED
      BY <2>1, <2>2, TreatedShrinks
  <1> QED
    BY <1>4, <1>5, <1>6, <1>7, <1>8
    DEF AssignStateful, DestroyStateful, DestroyReplica, TrimReplica, DrainReplica, FreezeReplica

LEMMA SwitchShrinks ==
    ASSUME Tables, NEW g \in Regions, SwitchTraffic(g) PROVE Shrinks
  <1> DEFINE retiring == {i.replica : i \in SwitchBatch(g)}
  <1>1. \A r \in Live : r \in Replicas /\ replicas[r] \in Row
    BY LiveIsRow
  <1>2. \A r \in Replicas : replicas'[r] = replicas[r] => Treated(r)
    BY DEF Treated
  <1>3. CASE UNCHANGED replicas
    BY <1>2, <1>3, TreatedShrinks DEF Tables
  <1>4. CASE ~UNCHANGED replicas
    <2>1. \A r \in retiring : r \in Live
      BY <1>4 DEF SwitchTraffic, CASHolds
    <2>2. replicas' = [r \in Replicas |-> IF r \in retiring THEN Drain(replicas[r]) ELSE replicas[r]]
      BY <1>4 DEF SwitchTraffic, Write
    <2> HIDE DEF retiring
    <2>3. \A r \in Replicas : Treated(r)
      BY <1>1, <1>2, <2>1, <2>2, LeaseAssumption, Rewritten DEF Treated
    <2> QED
      BY <2>2, <2>3, TreatedShrinks
  <1> QED
    BY <1>3, <1>4

\* Nor does a report, the watchdog, the clock or an operator.
LEMMA ReportShrinks ==
    ASSUME Tables, NEW r \in Replicas, NEW o \in Reports, ObserveReplica(r, o) PROVE Shrinks
  <1> DEFINE f == [replicas EXCEPT ![r] = Observed(@, o)]
  <1>1. r \in Live /\ replicas' = f
    BY DEF ObserveReplica
  <1>2. Observed(replicas[r], o) \in Row /\ Observed(replicas[r], o).slot = replicas[r].slot
    BY <1>1, LiveIsRow, ReportedRow
  <1>3. \A q \in Replicas : Treated(q)
    BY <1>1, <1>2 DEF Treated, Tables
  <1>4. replicas' = [q \in Replicas |-> f[q]]
    BY <1>1 DEF Tables
  <1> HIDE DEF f
  <1> QED
    BY <1>3, <1>4, TreatedShrinks

LEMMA OthersShrink ==
    ASSUME Tables, OtherWriters \/ DrainedButStateful \/ \E r \in Replicas : DeleteStateful(r)
    PROVE  Shrinks
  <1>1. \A r \in Live : r \in Replicas /\ replicas[r] \in Row
    BY LiveIsRow
  <1>2. \A r \in Replicas : replicas'[r] = replicas[r] => Treated(r)
    BY DEF Treated
  <1>3. replicas = [r \in Replicas |-> replicas[r]]
    BY DEF Tables
  <1>4. CASE UNCHANGED replicas
    BY <1>2, <1>3, <1>4, TreatedShrinks
  <1>5. CASE \E h \in Hosts : MarkHostDown(h)
    <2>1. PICK h \in Hosts : MarkHostDown(h)
      BY <1>5
    <2> DEFINE freed == Undrained(Occupants(h))
    <2>2. replicas' = [r \in Replicas |-> IF r \in freed
              THEN [replicas[r] EXCEPT !.host = None, !.healthy = FALSE, !.phase = "replacing"]
              ELSE replicas[r]]
      BY <2>1 DEF MarkHostDown, Write
    <2>3. \A r \in freed : r \in Live
      BY DEF Undrained, Occupants
    <2> HIDE DEF freed
    <2>4. \A r \in Replicas : Treated(r)
      BY <1>1, <1>2, <2>2, <2>3, LeaseAssumption, Rewritten DEF Treated
    <2> DEFINE f == [r \in Replicas |-> IF r \in freed
              THEN [replicas[r] EXCEPT !.host = None, !.healthy = FALSE, !.phase = "replacing"]
              ELSE replicas[r]]
    <2>5. replicas' = [r \in Replicas |-> f[r]]
      BY <2>2
    <2> HIDE DEF f
    <2> QED
      BY <2>4, <2>5, TreatedShrinks
  <1>6. CASE \E r \in Replicas : RestartReplica(r)
    <2>1. PICK q \in Replicas : RestartReplica(q)
      BY <1>6
    <2>2. q \in Live /\ replicas' = [r \in Replicas |-> IF r \in {q}
              THEN [replicas[r] EXCEPT !.phase = "replacing", !.host = None,
                                       !.healthy = FALSE, !.looping = FALSE]
              ELSE replicas[r]]
      BY <2>1 DEF RestartReplica, Write
    <2>3. \A r \in Replicas : Treated(r)
      BY <1>1, <1>2, <2>2, LeaseAssumption, Rewritten DEF Treated
    <2> QED
      BY <2>2, <2>3, TreatedShrinks
  <1>7. CASE \E r \in Replicas : DrainWindowElapses(r)
    <2>1. PICK q \in Replicas : DrainWindowElapses(q)
      BY <1>7
    <2>2. q \in Live
      BY <2>1 DEF DrainWindowElapses
    <2>3. replicas' = [r \in Replicas |-> IF r = q THEN [replicas[r] EXCEPT !.drained = "elapsed"]
                                                  ELSE replicas[r]]
      BY <1>3, <2>1 DEF DrainWindowElapses
    <2>4. \A r \in Replicas : Treated(r)
      BY <1>1, <1>2, <2>2, <2>3, LeaseAssumption, Rewritten DEF Treated
    <2> QED
      BY <2>3, <2>4, TreatedShrinks
  <1>8. CASE \E r \in Replicas : DeleteStateful(r)
    <2>1. PICK q \in Replicas : replicas' = [replicas EXCEPT ![q] = NoRow]
      BY <1>8 DEF DeleteStateful, DeleteReplica
    <2> DEFINE f == [replicas EXCEPT ![q] = NoRow]
    <2>2. replicas' = [r \in Replicas |-> f[r]]
      BY <1>3, <2>1
    <2>3. \A r \in Replicas : Treated(r)
      BY <1>3, <2>1 DEF Treated
    <2> HIDE DEF f
    <2> QED
      BY <2>2, <2>3, TreatedShrinks
  <1>9. ASSUME OtherWriters \/ DrainedButStateful
        PROVE  \/ UNCHANGED replicas
               \/ \E h \in Hosts : MarkHostDown(h)
               \/ \E r \in Replicas : RestartReplica(r) \/ DrainWindowElapses(r)
    BY <1>9 DEF OtherWriters, DrainedButStateful, AbandonPass, dbVars, RecordHeartbeat,
                MarkStaleHostUnhealthy, UncordonHost, DrainHost, SetHostStatus, Deploy, Rollback, Scale
  <1> QED
    BY <1>4, <1>5, <1>6, <1>7, <1>8, <1>9

LEMMA StillShrinks == ASSUME Tables, UNCHANGED replicas PROVE Shrinks
  <1>1. replicas' = [r \in Replicas |-> replicas[r]]
    BY DEF Tables
  <1> QED
    BY <1>1, TreatedShrinks DEF Treated

LEMMA CommitShrinks ==
    ASSUME Tables, Named, CommitStateful, ~\E i \in intents : CreateStateful(i)
    PROVE  Shrinks
  <1>1. ASSUME NEW i \in intents,
               AssignStateful(i) \/ DestroyStateful(i) \/ TrimReplica(i) \/ DrainReplica(i) \/ FreezeReplica(i)
        PROVE  Shrinks
    BY <1>1, IntentShrinks
  <1>2. ASSUME NEW i \in intents, FailDeployment(i) \/ CompleteDeployment(i) PROVE Shrinks
    BY <1>2, StillShrinks DEF FailDeployment, CompleteDeployment
  <1>3. ASSUME NEW g \in Regions, SwitchTraffic(g) PROVE Shrinks
    BY <1>3, SwitchShrinks
  <1> QED
    BY <1>1, <1>2, <1>3 DEF CommitStateful

-----------------------------------------------------------------------------
(* The invariant.                                                          *)

\* What every writer but the engine's verdicts and the operator leaves alone.
DeploymentsTyped == deployments \in [Versions -> Deployment] /\ current \in Versions \cup {NoDeployment}

LEMMA CommitTyped ==
    ASSUME Tables, Named, NEW i \in intents, FailDeployment(i) \/ CompleteDeployment(i)
    PROVE  DeploymentsTyped'
  <1>1. i.dep \in Versions \cup {NoDeployment} /\ DeploymentsTyped
    BY DEF Named, Tables, DeploymentsTyped
  <1>2. PICK st \in {"active", "failed"} :
            deployments' = [deployments EXCEPT ![i.dep].status = st] /\ current' = current
    BY DEF FailDeployment, CompleteDeployment
  <1> QED
    BY <1>1, <1>2 DEF DeploymentsTyped, Deployment, Statuses

LEMMA OperatorTyped ==
    ASSUME Tables, OtherWriters PROVE DeploymentsTyped'
  <1>1. DeploymentsTyped
    BY DEF Tables, DeploymentsTyped
  <1>2. CASE UNCHANGED <<deployments, current>>
    BY <1>1, <1>2 DEF DeploymentsTyped
  <1>3. ASSUME NEW want \in [Regions -> Counts], Deploy(want) PROVE DeploymentsTyped'
    <2> DEFINE v == Cardinality(Known) + 1
    <2>1. /\ v \in Versions /\ current' = v
          /\ deployments' = [w \in Versions |->
                  IF w = v THEN [status |-> "pending", want |-> want]
                  ELSE IF w = current THEN [deployments[w] EXCEPT !.status = "superseded"]
                  ELSE deployments[w]]
      BY <1>3 DEF Deploy
    <2> HIDE DEF v
    <2>2. [status |-> "pending", want |-> want] \in Deployment
      BY DEF Deployment, Statuses
    <2>3. \A w \in Versions : [deployments[w] EXCEPT !.status = "superseded"] \in Deployment
      BY <1>1 DEF Deployment, Statuses, DeploymentsTyped
    <2> QED
      BY <1>1, <2>1, <2>2, <2>3 DEF DeploymentsTyped
  <1>4. ASSUME NEW v \in Versions, Rollback(v) PROVE DeploymentsTyped'
    <2> DEFINE new == [status |-> "pending", want |-> CarriedCounts(current, v)]
    <2>1. /\ current \in Versions /\ current' = v
          /\ deployments' = [deployments EXCEPT ![current].status = "rolledback", ![v] = new]
      BY <1>1, <1>4 DEF Rollback, DeploymentsTyped
    <2>2. CarriedCounts(current, v) \in [Regions -> Counts \cup {Absent}]
      BY <1>1, <2>1, ConstantsAssumption DEF CarriedCounts, DeploymentsTyped, Deployment, Counts
    <2>3. new \in Deployment
      BY <2>2 DEF Deployment, Statuses
    <2> HIDE DEF new
    <2>4. [deployments EXCEPT ![current].status = "rolledback"] \in [Versions -> Deployment]
      BY <1>1, <2>1 DEF DeploymentsTyped, Deployment, Statuses
    <2> QED
      BY <2>1, <2>3, <2>4 DEF DeploymentsTyped
  <1>5. ASSUME NEW g \in Regions, NEW n \in Counts, Scale(g, n) PROVE DeploymentsTyped'
    <2>1. PICK d \in Deployment : current \in Versions /\ d = deployments[current]
      BY <1>1, <1>5 DEF Scale, DeploymentsTyped
    <2>2. [d EXCEPT !.want[g] = n] \in Deployment
      BY DEF Deployment
    <2>3. deployments' = [deployments EXCEPT ![current] = [d EXCEPT !.want[g] = n]] /\ current' = current
      BY <1>5, <2>1 DEF Scale
    <2> QED
      BY <1>1, <2>1, <2>2, <2>3 DEF DeploymentsTyped
  <1> QED
    BY <1>2, <1>3, <1>4, <1>5
    DEF OtherWriters, AbandonPass, dbVars, RecordHeartbeat, MarkStaleHostUnhealthy, MarkHostDown,
        UncordonHost, DrainHost, SetHostStatus, RestartReplica, DrainWindowElapses

\* A step that creates no row and decides nothing keeps the slot at one row.
LEMMA StaysAlone ==
    ASSUME Inv, Shrinks, DeploymentsTyped', intents' \subseteq intents
    PROVE  Tables' /\ Named' /\ Alone'
  <1>1. Tables'
    BY DEF Inv, Tables, Shrinks, DeploymentsTyped
  <1>2. Live' \subseteq Live
    BY DEF Shrinks
  <1> QED
    BY <1>1, <1>2 DEF Inv, Named, Alone, AtMostOne

LEMMA PassKeepsInv ==
    ASSUME OneReplica, Inv, ReconcileStateful PROVE Inv'
  <1>1. PICK its \in recreateRules(StatefulGroup) : intents' = placePinned(its)
    BY DEF ReconcileStateful
  <1>2. UNCHANGED <<deployments, current, replicas, wire, running>> /\ Live' = Live
    BY DEF ReconcileStateful, dbVars, leaseVars, Live
  <1>3. Tables' /\ Contained' /\ AtMostOne(Live)'
    BY <1>2 DEF Inv, Tables, Contained, Alone
  <1>4. Named' /\ \A i \in intents' : i.kind = "create" => Live' = {} /\ intents' = {i}
    BY <1>1, <1>2, PassIsNamed DEF Inv, Named
  <1> QED
    BY <1>3, <1>4 DEF Inv, Alone

LEMMA CreateKeepsInv ==
    ASSUME Inv, NEW i \in intents, CreateStateful(i) PROVE Inv'
  <1>1. i.kind = "create" /\ intents' = intents \ {i}
    BY DEF CreateStateful, CreateReplica
  <1>2. PICK r \in Replicas : replicas' = [replicas EXCEPT ![r] = NewRow(i.dep, i.slot)]
    BY DEF CreateStateful, CreateReplica
  <1>3. Live = {} /\ intents' = {} /\ i.dep \in Versions /\ i.slot = Home
    BY <1>1 DEF Inv, Alone, Named
  <1>4. Home \in Regions
    BY ConstantsAssumption, LeaseAssumption DEF Home
  <1>5. NewRow(i.dep, Home) \in Row /\ NewRow(i.dep, Home).slot = Home
    BY <1>3, <1>4 DEF NewRow, Row, Phases
  <1>6. Live' \subseteq {r}
    BY <1>2, <1>3 DEF Live, Inv, Tables
  <1>7. Tables'
    BY <1>2, <1>3, <1>5, <1>6 DEF Inv, Tables, CreateStateful, CreateReplica
  <1> QED
    BY <1>3, <1>6, <1>7 DEF Inv, Named, Alone, AtMostOne, Contained, CreateStateful, leaseVars

\* What is on the wire was the host's state once, and so had one row.
LEMMA AgentKeepsInv ==
    ASSUME Inv, PushState \/ ApplyState PROVE Inv'
  <1>1. UNCHANGED vars /\ Live' = Live
    BY DEF PushState, ApplyState, vars, Live
  <1>2. Tables' /\ Named' /\ Alone'
    BY <1>1 DEF Inv, Tables, Named, Alone, vars
  <1>3. HostState \subseteq Replicas /\ AtMostOne(HostState)
    BY DEF HostState, Live, Inv, Alone, AtMostOne
  <1>4. CASE PushState
    <2>1. wire' = HostState /\ running' = running
      BY <1>4 DEF PushState
    <2> HIDE DEF HostState
    <2> QED
      BY <1>2, <1>3, <2>1 DEF Inv, Contained
  <1>5. CASE ApplyState
    <2>1. running' = wire /\ wire' = NoState /\ wire # NoState
      BY <1>5 DEF ApplyState
    <2>2. wire \subseteq Replicas /\ AtMostOne(wire)
      BY <2>1 DEF Inv, Contained
    <2>3. Contained'
      BY <2>1, <2>2 DEF Contained, AtMostOne
    <2> QED
      BY <1>2, <2>3 DEF Inv
  <1> QED
    BY <1>4, <1>5

LEMMA InvStep ==
    ASSUME OneReplica, Inv, [NextStateful]_allVars PROVE Inv'
  <1>1. CASE UNCHANGED allVars
    BY <1>1 DEF allVars, vars, leaseVars, Inv, Tables, Named, Alone, Contained, Live
  <1>2. CASE ReconcileStateful
    BY <1>2, PassKeepsInv
  <1>3. CASE PushState \/ ApplyState
    BY <1>3, AgentKeepsInv
  <1>4. CASE \E i \in intents : CreateStateful(i)
    BY <1>4, CreateKeepsInv
  <1>5. ASSUME Shrinks, DeploymentsTyped', intents' \subseteq intents, UNCHANGED <<wire, running>>
        PROVE  Inv'
    BY <1>5, StaysAlone DEF Inv, Contained
  <1>6. CASE CommitStateful /\ ~\E i \in intents : CreateStateful(i)
    <2>1. Shrinks
      BY <1>6, CommitShrinks DEF Inv
    <2>2. intents' \subseteq intents /\ UNCHANGED <<wire, running>>
      BY <1>6 DEF CommitStateful, AssignStateful, DestroyStateful, DestroyReplica, TrimReplica,
                  DrainReplica, FreezeReplica, FailDeployment, CompleteDeployment, SwitchTraffic, leaseVars
    <2>3. DeploymentsTyped'
      <3>1. CASE UNCHANGED <<deployments, current>>
        BY <3>1 DEF Inv, Tables, DeploymentsTyped
      <3>2. CASE \E i \in intents : FailDeployment(i) \/ CompleteDeployment(i)
        BY <3>2, CommitTyped DEF Inv
      <3> QED
        BY <1>6, <3>1, <3>2 DEF CommitStateful, AssignStateful, DestroyStateful, DestroyReplica,
                  TrimReplica, DrainReplica, FreezeReplica, SwitchTraffic
    <2> QED
      BY <1>5, <2>1, <2>2, <2>3
  <1>7. CASE LeaseExpires \/ \E r \in Replicas, o \in Reports : ObserveStateful(r, o)
    <2>1. Shrinks
      BY <1>7, ReportShrinks, StillShrinks DEF ObserveStateful, LeaseExpires, vars, Inv
    <2>2. UNCHANGED <<deployments, current, intents, wire, running>>
      BY <1>7 DEF ObserveStateful, ObserveReplica, LeaseExpires, vars
    <2>3. DeploymentsTyped'
      BY <2>2 DEF Inv, Tables, DeploymentsTyped
    <2> QED
      BY <1>5, <2>1, <2>2, <2>3
  <1>8. CASE DrainedButStateful \/ \E r \in Replicas : DeleteStateful(r)
    <2>1. Shrinks
      BY <1>8, OthersShrink DEF Inv
    <2>2. UNCHANGED <<deployments, current, intents, wire, running>>
      BY <1>8 DEF DrainedButStateful, DeleteStateful, DeleteReplica, leaseVars
    <2>3. DeploymentsTyped'
      BY <2>2 DEF Inv, Tables, DeploymentsTyped
    <2> QED
      BY <1>5, <2>1, <2>2, <2>3
  <1>9. CASE OtherWriters /\ UNCHANGED leaseVars
    <2>1. Shrinks /\ DeploymentsTyped'
      BY <1>9, OthersShrink, OperatorTyped DEF Inv
    <2>2. intents' \subseteq intents /\ UNCHANGED <<wire, running>>
      BY <1>9 DEF OtherWriters, AbandonPass, RecordHeartbeat, MarkStaleHostUnhealthy, MarkHostDown,
                  UncordonHost, DrainHost, SetHostStatus, Deploy, Rollback, Scale, RestartReplica,
                  DrainWindowElapses, leaseVars
    <2> QED
      BY <1>5, <2>1, <2>2
  <1> QED
    BY <1>1, <1>2, <1>3, <1>4, <1>6, <1>7, <1>8, <1>9 DEF NextStateful

LEMMA InvInit == InitStateful => Inv
  <1> SUFFICES ASSUME InitStateful PROVE Inv
    OBVIOUS
  <1> USE DEF InitStateful, Init
  <1>1. NoCommit \in Deployment
    BY ConstantsAssumption DEF NoCommit, Deployment, Statuses
  <1>2. Live = {}
    BY DEF Live
  <1>3. Tables
    BY <1>1, <1>2 DEF Tables
  <1>4. Named /\ Alone
    BY <1>2 DEF Named, Alone, AtMostOne
  <1>5. Contained
    BY DEF Contained, AtMostOne
  <1> QED
    BY <1>3, <1>4, <1>5 DEF Inv

\* A converged service has one row, and its host one container.
LEMMA SteadyInit == SteadyStateful => Inv
  <1> SUFFICES ASSUME SteadyStateful PROVE Inv
    OBVIOUS
  <1> USE DEF SteadyStateful
  <1>1. Home \in Regions /\ 1 \in Versions /\ 1 \in Counts
    BY LeaseAssumption, ConstantsAssumption DEF Home
  <1>2. NoCommit \in Deployment
    BY ConstantsAssumption DEF NoCommit, Deployment, Statuses
  <1>3. [status |-> "active", want |-> [g \in Regions |-> IF g = Home THEN 1 ELSE Absent]] \in Deployment
    BY <1>1 DEF Deployment, Statuses
  <1>4. deployments \in [Versions -> Deployment]
    BY <1>2, <1>3 DEF Home
  <1> DEFINE row == [NewRow(1, Home) EXCEPT !.host = VolumeHost, !.phase = "active",
                                            !.healthy = TRUE, !.gate = "passed"]
  <1>5. NewRow(1, Home) \in Row /\ NewRow(1, Home).slot = Home
    BY <1>1 DEF NewRow, Row, Phases
  <1>6. row \in Row /\ row.slot = Home
    BY <1>5, LeaseAssumption DEF Row, Phases
  <1> HIDE DEF row
  <1>7. PICK r \in Replicas : /\ replicas = [q \in Replicas |-> IF q = r THEN row ELSE NoRow]
                              /\ running = {r}
    BY DEF row, Home
  <1>8. Live \subseteq {r}
    BY <1>7 DEF Live
  <1>9. Tables
    BY <1>1, <1>4, <1>6, <1>7, <1>8 DEF Tables
  <1>10. Named /\ Alone
    BY <1>8 DEF Named, Alone, AtMostOne
  <1>11. Contained
    BY <1>7 DEF Contained, AtMostOne
  <1> QED
    BY <1>9, <1>10, <1>11 DEF Inv

\* From nothing as from a converged service.
LEMMA InvAlways == OneReplica => (StatefulSpec \/ SteadyStatefulSpec => []Inv)
  <1> SUFFICES ASSUME OneReplica PROVE StatefulSpec \/ SteadyStatefulSpec => []Inv
    OBVIOUS
  <1> QED
    BY InvInit, SteadyInit, InvStep, PTL DEF StatefulSpec, SteadyStatefulSpec

\* Never two writers: whatever old state the host's agent acts on, however the
\* lease runs out and whatever the watchdog and the operator do to the rows,
\* the host runs one container on the volume at most.
THEOREM OneWriter == OneReplica => (StatefulSpec \/ SteadyStatefulSpec => []SingleWriter)
  <1> SUFFICES ASSUME OneReplica PROVE StatefulSpec \/ SteadyStatefulSpec => []SingleWriter
    OBVIOUS
  <1>1. Inv => SingleWriter
    BY Few DEF Inv, Contained, SingleWriter
  <1> QED
    BY <1>1, InvAlways, PTL

-----------------------------------------------------------------------------
(* The refinement.                                                         *)

\* Whom the volume is let to.
LEMMA TenantIs ==
    tenantOf = None \/ tenantOf \in Live
  BY DEF tenantOf, Tenants, HostState

LEMMA TenantStays == (tenantOf = None \/ tenantOf \in Live)'
  BY TenantIs, PTL

\* A step lets a free volume, vacates it, or leaves it as it is.
LEMMA TenancyStep ==
    ASSUME Inv, Inv', Shrinks \/ \E i \in intents : CreateReplica(i)
    PROVE  [Tenancy!Next]_tenantOf
  <1>1. tenantOf = None \/ tenantOf \in Live
    BY TenantIs
  <1>2. tenantOf' = None \/ tenantOf' \in Live'
    BY TenantStays
  <1>3. CASE Shrinks
    BY <1>1, <1>2, <1>3 DEF Shrinks, Inv, Alone, AtMostOne, Tenancy!Next, Tenancy!Vacate, Tenancy!Let, Live
  <1>4. CASE \E i \in intents : CreateReplica(i)
    <2>1. Live = {}
      BY <1>4 DEF CreateReplica, Inv, Alone
    <2> QED
      BY <1>1, <1>2, <2>1 DEF Tenancy!Next, Tenancy!Vacate, Tenancy!Let, Live
  <1> QED
    BY <1>3, <1>4

\* The lease and the recreate cascade implement single tenancy: a replica gets
\* the volume only when it is free, and one that loses it leaves it free.
THEOREM LeaseRefinesTenancy == OneReplica => (StatefulSpec \/ SteadyStatefulSpec => LetsOneAtATime)
  <1> SUFFICES ASSUME OneReplica PROVE StatefulSpec \/ SteadyStatefulSpec => LetsOneAtATime
    OBVIOUS
  <1>1. Inv => Cardinality(Tenants) <= 1
    <2>1. Inv => AtMostOne(HostState)
      BY DEF Inv, Alone, AtMostOne, HostState
    <2> QED
      BY <2>1, Few DEF Tenants
  <1>2. InitStateful \/ SteadyStateful => Tenancy!Init
    BY TenantIs DEF Tenancy!Init, Live
  <1>3. ASSUME Inv, Inv', [NextStateful]_allVars PROVE [Tenancy!Next]_tenantOf
    <2>1. CASE \E i \in intents : CreateStateful(i)
      BY <1>3, <2>1, TenancyStep DEF CreateStateful
    <2>2. CASE UNCHANGED replicas
      BY <1>3, <2>2, StillShrinks, TenancyStep DEF Inv
    <2>3. CASE CommitStateful /\ ~\E i \in intents : CreateStateful(i)
      BY <1>3, <2>3, CommitShrinks, TenancyStep DEF Inv
    <2>4. CASE \E r \in Replicas, o \in Reports : ObserveStateful(r, o)
      BY <1>3, <2>4, ReportShrinks, TenancyStep DEF Inv, ObserveStateful
    <2>5. CASE OtherWriters \/ DrainedButStateful \/ \E r \in Replicas : DeleteStateful(r)
      BY <1>3, <2>5, OthersShrink, TenancyStep DEF Inv
    <2>6. ASSUME ReconcileStateful \/ PushState \/ ApplyState \/ LeaseExpires \/ UNCHANGED allVars
          PROVE  UNCHANGED replicas
      BY <2>6 DEF ReconcileStateful, dbVars, PushState, ApplyState, LeaseExpires, allVars, vars
    <2> QED
      BY <1>3, <2>1, <2>2, <2>3, <2>4, <2>5, <2>6 DEF NextStateful
  <1> QED
    BY <1>1, <1>2, <1>3, InvAlways, PTL DEF StatefulSpec, SteadyStatefulSpec, LetsOneAtATime, Tenancy!Spec
=============================================================================
