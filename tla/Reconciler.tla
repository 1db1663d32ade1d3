------------------------------ MODULE Reconciler ------------------------------
(***************************************************************************)
(* The decision half of an engine pass: internal/engine/reconciler.go.     *)
(*                                                                         *)
(* A replica group is one (environment service, region) slot as a frozen   *)
(* snapshot shows it.  It is a record                                      *)
(*   slot      the region                                                  *)
(*   dep       the current deployment, NoDeployment for an orphan slot     *)
(*   status    its status              want      its replica target        *)
(*   row       the replica rows        leaving   replicas whose host is    *)
(*                                               draining                  *)
(*   target, frozen, outgoing          the three buckets of replica ids    *)
(*                                                                         *)
(* A rule has a name, a When and a Then; a cascade is a sequence of names  *)
(* and the first rule whose When holds is the only one that fires.  Rows   *)
(* come back from SQL in no order the code may rely on, so where the code  *)
(* takes "the first n" replicas, Then is a set of alternatives, each of    *)
(* them a set of intents.  The skip intent changes nothing and is the      *)
(* empty set of intents.                                                   *)
(***************************************************************************)
EXTENDS Integers, Sequences, FiniteSetsExt

CONSTANT None          \* no host, no replica

NoDeployment == 0

Intent(kind, g, replica, ord) ==
    [kind |-> kind, slot |-> g.slot, dep |-> g.dep,
     replica |-> replica, host |-> None, ord |-> ord]

PerReplica(kind, g, S) == {Intent(kind, g, r, 0) : r \in S}

-----------------------------------------------------------------------------
(* The counts the rules compare.                                           *)

overRestartBudget(g) == {r \in g.target : g.row[r].looping}

hostless(g) == {r \in g.target : g.row[r].host = None}

excess(g) == Cardinality(g.target) + Cardinality(g.frozen) - g.want

stayingExcess(g) == excess(g) - Cardinality(g.target \cap g.leaving)

\* Seeded fault: a replica leaving with its host still counts as capacity.
healthyTargetsLeaving(g) == Cardinality({r \in g.target : g.row[r].healthy})

healthyTargets(g) ==
    Cardinality({r \in g.target \ g.leaving : g.row[r].healthy})

heldSlots(g) == healthyTargets(g) + Cardinality(g.frozen)

drainable(g) == {r \in g.outgoing : g.row[r].phase \notin {"draining", "failed"}}

\* Seeded fault: the drain window is not waited for.
drainWindowIgnored(g) == {r \in g.outgoing : g.row[r].drained # "none"}

drainWindowElapsed(g) == {r \in g.outgoing : g.row[r].drained = "elapsed"}

failedOutgoing(g) == {r \in g.outgoing : g.row[r].phase = "failed"}

-----------------------------------------------------------------------------
(* The rules.                                                              *)

When(rule, g) ==
    CASE rule = "deploymentFrozen"          -> g.status = "failed"
      [] rule = "crashLooping"              -> overRestartBudget(g) # {}
      [] rule = "trimHostlessExcess"        -> stayingExcess(g) > 0 /\ hostless(g) # {}
      [] rule = "anyHostlessReplicas"       -> hostless(g) # {}
      [] rule = "newHealthOpenPastDeadline" -> \E r \in g.target : g.row[r].gate = "late"
      [] rule = "notAllHealthy"             -> \E r \in g.target : ~g.row[r].healthy
      [] rule = "rollingRampUp"             -> heldSlots(g) < g.want
      [] rule = "rollingScaleDown"          -> excess(g) > 0
      [] rule = "rolloutComplete"           -> /\ g.status # "active"
                                               /\ heldSlots(g) = g.want
                                               /\ g.outgoing = {}
      [] rule = "drainOutgoing"             -> drainable(g) # {}
      [] rule = "reapDrained"               -> drainWindowElapsed(g) # {}
      [] rule = "reapFailedOutgoing"        -> failedOutgoing(g) # {}

\* crashLooping's verdict: the rollout in flight fails, an active deployment
\* only loses the offenders.
CrashVerdict(g) ==
    IF g.status = "active" THEN PerReplica("freeze", g, overRestartBudget(g))
                           ELSE {Intent("fail", g, None, 0)}

\* As many hostless targets as the staying excess covers.
TrimHostless(g) ==
    LET n == Min({stayingExcess(g), Cardinality(hostless(g))})
    IN  {PerReplica("destroy", g, S) : S \in kSubset(n, hostless(g))}

\* Seeded fault: the whole deficit at once, proven or not.
RampUpNoCanary(g) == {Intent("create", g, None, i) : i \in 1 .. g.want - heldSlots(g)}

\* Canary first: one replica while nothing of the revision is healthy, then
\* the rest of the deficit in one batch.
RampUp(g) ==
    LET n == IF healthyTargets(g) = 0 THEN 1 ELSE g.want - heldSlots(g)
    IN  {Intent("create", g, None, i) : i \in 1 .. n}

\* Frozen replicas go first and straight to destroy; then replicas on a
\* draining host.  Newest-first among the rest is left open.
ScaleDown(g) ==
    LET n     == excess(g)
        dead  == Min({n, Cardinality(g.frozen)})
        going == g.target \cap g.leaving
    IN  {PerReplica("destroy", g, F) \cup PerReplica("drain", g, D) :
            F \in kSubset(dead, g.frozen),
            D \in {S \in kSubset(n - dead, g.target) : S \subseteq going \/ going \subseteq S}}

Then(rule, g) ==
    CASE rule = "deploymentFrozen"          -> {PerReplica("destroy", g, g.frozen)}
      [] rule = "crashLooping"              -> {CrashVerdict(g)}
      [] rule = "trimHostlessExcess"        -> TrimHostless(g)
      [] rule = "anyHostlessReplicas"       -> {PerReplica("assign", g, hostless(g))}
      [] rule = "newHealthOpenPastDeadline" -> {{Intent("fail", g, None, 0)}}
      [] rule = "notAllHealthy"             -> {{}}
      [] rule = "rollingRampUp"             -> {RampUp(g)}
      [] rule = "rollingScaleDown"          -> ScaleDown(g)
      [] rule = "rolloutComplete"           -> {{Intent("complete", g, None, 0)}}
      [] rule = "drainOutgoing"             -> {PerReplica("switch", g, drainable(g))}
      [] rule = "reapDrained"               -> {PerReplica("destroy", g, drainWindowElapsed(g))}
      [] rule = "reapFailedOutgoing"        -> {PerReplica("destroy", g, failedOutgoing(g))}

-----------------------------------------------------------------------------
(* The cascades, in tick-priority order.                                   *)

rollingCascade ==
    << "deploymentFrozen", "crashLooping", "trimHostlessExcess",
       "anyHostlessReplicas", "newHealthOpenPastDeadline", "notAllHealthy",
       "rollingRampUp", "rollingScaleDown", "rolloutComplete",
       "drainOutgoing", "reapDrained", "reapFailedOutgoing" >>

orphanCascade == << "drainOutgoing", "reapDrained", "reapFailedOutgoing" >>

\* Seeded faults: one rule forgotten in each.
without(rule, g) ==
    IF g.dep = NoDeployment THEN orphanCascade
                            ELSE SelectSeq(rollingCascade, LAMBDA x : x # rule)
cascadeNoFrozen(g)     == without("deploymentFrozen", g)
cascadeNoDeadline(g)   == without("newHealthOpenPastDeadline", g)
cascadeNoHealthGate(g) == without("notAllHealthy", g)
cascadeNoReapFailed(g) == without("reapFailedOutgoing", g)

cascadeOf(g) == IF g.dep = NoDeployment THEN orphanCascade ELSE rollingCascade

\* The alternatives of the one rule that fires, the first whose When holds;
\* {{}} when none does.
fireRules(g) ==
    LET cascade == cascadeOf(g)
        first   == {k \in DOMAIN cascade : /\ When(cascade[k], g)
                                           /\ \A j \in 1 .. k - 1 : ~When(cascade[j], g)}
    IN  IF first = {} THEN {{}} ELSE UNION {Then(cascade[k], g) : k \in first}
=============================================================================
