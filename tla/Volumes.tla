------------------------------- MODULE Volumes --------------------------------
(***************************************************************************)
(* The disks of the fleet: a volume row is created by the operator, placed *)
(* once by the engine, created on its host by the agent, and grown.  Three *)
(* writers share the row and none of them locks it: the operator moves     *)
(* desired (internal/project/volume.go), the engine moves status           *)
(* (internal/engine/volumes.go, placer.go) and the agent moves observed    *)
(* (agentsim/agent.go).                                                    *)
(*                                                                         *)
(* A grow or a revert is a read and, in a statement of its own, a write;   *)
(* the engine decides on a snapshot and commits one transaction per        *)
(* volume; the agent works on the last state it was sent.                  *)
(*                                                                         *)
(* Data abstractions.  Sizes are small numbers; 0 stands for no size       *)
(* (observed: never reported; previous: nothing to revert to; a disk or a  *)
(* target: none).  Every host is open and has the same budget.  Of cpu and *)
(* memory the ledger's remainder is kept (spare), which the replicas move: *)
(* -1 when the rows on the host, failed ones included, ask for more than   *)
(* it has, 0 when no other replica fits, 1 when one does.  The order the   *)
(* placer packs in and its scores are left open.  Volumes here belong to   *)
(* services with a current deployment, which the snapshot reads.           *)
(***************************************************************************)
EXTENDS Integers, FiniteSets

CONSTANTS
    VolumeIds,
    Hosts,
    None,         \* no host
    Budget,       \* the part of a host's disk its volumes may fill (DiskBudget)
    Reserve,      \* the part of it kept for grows (DiskReserve)
    Operators,    \* operators working at once
    MaxSize,      \* bound: size of a volume
    MaxOps,       \* bound: operator commands
    MaxFaults,    \* bound: silences, agent restarts, lost passes, hosts filling up
    ResizeEarly   \* whether a volume is resized before its agent has reported it

ASSUME VolumesAssumption ==
    /\ None \notin Hosts
    /\ IsFiniteSet(VolumeIds)
    /\ Budget \in Nat /\ Reserve \in 0 .. Budget
    /\ MaxSize \in Nat \ {0} /\ MaxOps \in Nat /\ MaxFaults \in Nat
    /\ ResizeEarly \in BOOLEAN

VARIABLES
    vols,      \* volume id -> its row, or NoVolume
    up,        \* the hosts with a fresh heartbeat
    spare,     \* host -> the cpu and memory the ledger finds left
    intents,   \* the engine's volume intents not yet committed
    calls,     \* operator -> the command between its read and its write
    wire,      \* host -> the state on its way to the agent, or NoState
    target,    \* host -> volume -> the size the agent was last told
    disks,     \* host -> volume -> the size on disk
    ops, faults

vars == <<vols, up, spare, intents, calls, wire, target, disks, ops, faults>>
agentVars == <<wire, target, disks>>

-----------------------------------------------------------------------------
(* Rows and what they mean.                                                *)

Sizes    == 1 .. MaxSize
Statuses == {"pending", "attached", "resize_pending", "resizing"}
Row == [host : Hosts \cup {None}, status : Statuses, desired : Sizes,
        previous : 0 .. MaxSize, observed : 0 .. MaxSize]
NoVolume == [status |-> "none"]
NoState  == <<>>
NoCall   == [kind |-> "none"]
NoDisks  == [v \in VolumeIds |-> 0]

Reported(row)  == row.observed > 0
Drifting(row)  == Reported(row) /\ row.desired > row.observed
CaughtUp(row)  == Reported(row) /\ row.observed >= row.desired
GrowDelta(row) == row.desired - row.observed

\* The bytes the control plane stands behind.
Committed(row) == IF row.status = "resizing" \/ ~Reported(row) THEN row.desired ELSE row.observed

Live  == {v \in VolumeIds : vols[v] # NoVolume}
On(h) == {v \in Live : vols[v].host = h}

\* The bytes of the volumes S, each of the size it is given.
Bytes(S, size) == {b \in S \X Sizes : b[2] <= size[b[1]]}

committed == [v \in Live |-> Committed(vols[v])]
desired   == [v \in Live |-> vols[v].desired]
observed  == [v \in Live |-> vols[v].observed]

-----------------------------------------------------------------------------
(* The engine: planVolumes on one snapshot.  Placements first, grows next, *)
(* on one ledger.  What a pass accepts is charged at once and room only    *)
(* shrinks (disk room: a volume takes no cpu and memory), so in whatever   *)
(* order it goes, all it accepted fits in the end and nothing it turned    *)
(* down does.                                                              *)

\* Seeded fault: the ledger charges what is on disk, an approved grow too.
newLedgerObserved == [h \in up |-> Budget - Cardinality(Bytes(On(h), observed))]

newLedger == [h \in up |-> Budget - Cardinality(Bytes(On(h), committed))]

\* A new volume needs the cpu and memory of a replica and leaves the reserve; a
\* grow needs none and may fill the budget, but a ledger below zero refuses it.
fits(delta, resize, room, left) ==
    /\ (IF resize THEN 0 ELSE 1) <= left
    /\ delta <= room - (IF resize THEN 0 ELSE Reserve)

\* Seeded fault: a volume that has its host is placed again.
hostlessOrNot == Live

hostless == {v \in Live : vols[v].host = None}

\* What placements and approved grows charge.
Landing(p, h)  == Bytes({v \in hostless : p[v] = h}, desired)
Growing(grows, h) == Bytes(grows \cap On(h), desired) \ Bytes(grows \cap On(h), observed)

\* A host for every hostless volume, None if none of them holds it.
placeVolumes ==
    {p \in [hostless -> up \cup {None}] : \A h \in up :
        LET room == newLedger[h] - Cardinality(Landing(p, h))
        IN  /\ (\E v \in hostless : p[v] = h) => room >= Reserve /\ spare[h] >= 1
            /\ \A v \in hostless : p[v] = None => ~fits(vols[v].desired, FALSE, room, spare[h])}

\* Seeded fault: a parked grow is never looked at again.
growableOnce == {v \in Live : Drifting(vols[v]) /\ vols[v].status = "attached"}

\* The grows to be judged; a volume never reported has nothing to grow.
growable == {v \in Live : Drifting(vols[v]) /\ vols[v].status \in {"attached", "resize_pending"}}

\* The grows approved after the placements p.
resizeVolumes(p) ==
    {grows \in SUBSET growable : \A v \in growable :
        LET h    == vols[v].host
            room == newLedger[h] - Cardinality(Landing(p, h)) - Cardinality(Growing(grows, h))
        IN  IF v \in grows THEN h \in up /\ room >= 0 /\ spare[h] >= 0
                          ELSE h \in up => ~fits(GrowDelta(vols[v]), TRUE, room, spare[h])}

settled == {v \in Live : CaughtUp(vols[v]) /\ vols[v].status \in {"resizing", "resize_pending"}}

\* A grow turned down is parked, unless it is parked already.
planVolumes(p, grows) ==
    LET Decide(kind, S) == {[kind |-> kind, vol |-> v, host |-> vols[v].host] : v \in S}
    IN  {[kind |-> "place", vol |-> v, host |-> p[v]] : v \in {u \in hostless : p[u] # None}}
        \cup Decide("resized", settled) \cup Decide("resize", grows)
        \cup Decide("park", {v \in growable \ grows : vols[v].status = "attached"})

Plan ==
    /\ intents = {}
    /\ \E p \in placeVolumes : \E grows \in resizeVolumes(p) : intents' = planVolumes(p, grows)
    /\ intents' # {}
    /\ UNCHANGED <<vols, up, spare, calls, agentVars, ops, faults>>

-----------------------------------------------------------------------------
(* The engine: one transaction per intent.  A write whose predicate no     *)
(* longer holds, or whose row is gone, is dropped.                         *)

\* The row takes its new value if it is there and still as the write wants it.
Update(v, holds(_), f(_)) ==
    vols' = IF v \in Live /\ holds(vols[v]) THEN [vols EXCEPT ![v] = f(@)] ELSE vols

Take(i, kind) ==
    /\ i.kind = kind
    /\ intents' = intents \ {i}
    /\ UNCHANGED <<up, spare, calls, agentVars, ops, faults>>

\* Seeded fault: the volume keeps its status.
AssignHostOnly(i) ==
    /\ Take(i, "place")
    /\ Update(i.vol, LAMBDA row : TRUE, LAMBDA row : [row EXCEPT !.host = i.host])

AssignVolumeHost(i) ==
    /\ Take(i, "place")
    /\ Update(i.vol, LAMBDA row : TRUE, LAMBDA row : [row EXCEPT !.host = i.host, !.status = "attached"])

MarkVolumeResizePending(i) ==
    /\ Take(i, "park")
    /\ Update(i.vol, LAMBDA row : row.status = "attached" /\ Drifting(row),
                     LAMBDA row : [row EXCEPT !.status = "resize_pending"])

MarkVolumeResizing(i) ==
    /\ Take(i, "resize")
    /\ Update(i.vol, LAMBDA row : row.status \in {"attached", "resize_pending"} /\ Drifting(row),
                     LAMBDA row : [row EXCEPT !.status = "resizing"])

\* Seeded fault: only a revert settles, not a grow.
MarkRevertedAttached(i) ==
    /\ Take(i, "resized")
    /\ Update(i.vol, LAMBDA row : row.status = "resize_pending" /\ CaughtUp(row),
                     LAMBDA row : [row EXCEPT !.status = "attached"])

MarkVolumeAttached(i) ==
    /\ Take(i, "resized")
    /\ Update(i.vol, LAMBDA row : row.status \in {"resizing", "resize_pending"} /\ CaughtUp(row),
                     LAMBDA row : [row EXCEPT !.status = "attached"])

Commit == \E i \in intents :
    \/ AssignVolumeHost(i) \/ MarkVolumeResizePending(i)
    \/ MarkVolumeResizing(i) \/ MarkVolumeAttached(i)

Fault == faults < MaxFaults /\ faults' = faults + 1

\* A storage error or a crash of the engine loses the rest of the pass.
AbandonPass ==
    /\ intents # {} /\ Fault
    /\ intents' = {}
    /\ UNCHANGED <<vols, up, spare, calls, agentVars, ops>>

-----------------------------------------------------------------------------
(* The operator.  A command that is refused changes nothing.               *)

Op(o) == calls[o] = NoCall /\ ops < MaxOps /\ ops' = ops + 1

\* A new row has an id of its own: nobody has heard of it yet.
Fresh(v) ==
    /\ vols[v] = NoVolume
    /\ \A i \in intents : i.vol # v
    /\ \A o \in Operators : calls[o] # NoCall => calls[o].vol # v
    /\ \A h \in Hosts : target[h][v] = 0 /\ (wire[h] # NoState => wire[h][v] = 0)

AddVolume(o, v, n) ==
    /\ Op(o)
    /\ Fresh(v)
    /\ vols' = [vols EXCEPT ![v] = [host |-> None, status |-> "pending", desired |-> n,
                                    previous |-> 0, observed |-> 0]]
    /\ UNCHANGED <<up, spare, intents, calls, agentVars, faults>>

\* Seeded fault: a grow on top of one the engine has not classified yet.
ResizableDrifting(row, n) == row.status \in {"pending", "attached"} /\ n > row.desired

Resizable(row, n) ==
    /\ row.status \in {"pending", "attached"}
    /\ ~Drifting(row)
    /\ n > row.desired

\* ResizeVolume: the row is read and judged ...
ResizeVolume(o, v, n) ==
    /\ Op(o)
    /\ v \in Live /\ Resizable(vols[v], n)
    /\ ResizeEarly \/ Reported(vols[v])
    /\ calls' = [calls EXCEPT ![o] = [kind |-> "resize", vol |-> v, size |-> n]]
    /\ UNCHANGED <<vols, up, spare, intents, agentVars, faults>>

\* ... and written, whatever has become of it.
UpdateVolumeSize(o) ==
    /\ calls[o].kind = "resize"
    /\ Update(calls[o].vol, LAMBDA row : TRUE,
              LAMBDA row : [row EXCEPT !.previous = row.desired, !.desired = calls[o].size])
    /\ calls' = [calls EXCEPT ![o] = NoCall]
    /\ UNCHANGED <<up, spare, intents, agentVars, ops, faults>>

RevertVolume(o, v) ==
    /\ Op(o)
    /\ v \in Live /\ vols[v].status = "resize_pending"
    /\ calls' = [calls EXCEPT ![o] = [kind |-> "revert", vol |-> v]]
    /\ UNCHANGED <<vols, up, spare, intents, agentVars, faults>>

RevertVolumeSize(o) ==
    /\ calls[o].kind = "revert"
    /\ Update(calls[o].vol, LAMBDA row : row.status = "resize_pending" /\ row.previous # 0,
              LAMBDA row : [row EXCEPT !.desired = row.previous, !.previous = 0])
    /\ calls' = [calls EXCEPT ![o] = NoCall]
    /\ UNCHANGED <<up, spare, intents, agentVars, ops, faults>>

\* Refused while a replica pins the volume, which the operator can see to.
RemoveVolume(o, v) ==
    /\ Op(o)
    /\ v \in Live
    /\ vols' = [vols EXCEPT ![v] = NoVolume]
    /\ UNCHANGED <<up, spare, intents, calls, agentVars, faults>>

-----------------------------------------------------------------------------
(* The agents.  Each state is the whole of the host's volumes.             *)

\* Seeded fault: the agent is told what is wanted, approved or not.
volumeTargetDesired(row) == row.desired

volumeTargetSize(row) == Committed(row)

HostState(h) == [v \in VolumeIds |-> IF v \in On(h) THEN volumeTargetSize(vols[v]) ELSE 0]

\* Latest wins: a newer state takes the place of one not sent yet.
PushState(h) ==
    /\ wire[h] # HostState(h)
    /\ wire[h] # NoState \/ target[h] # HostState(h)
    /\ wire' = [wire EXCEPT ![h] = HostState(h)]
    /\ UNCHANGED <<vols, up, spare, intents, calls, target, disks, ops, faults>>

\* First sight creates the disk, absence deletes it.
ApplyState(h) ==
    /\ wire[h] # NoState
    /\ target' = [target EXCEPT ![h] = wire[h]]
    /\ disks' = [disks EXCEPT ![h] = [v \in VolumeIds |->
           IF wire[h][v] = 0 \/ @[v] = 0 THEN wire[h][v] ELSE @[v]]]
    /\ wire' = [wire EXCEPT ![h] = NoState]
    /\ UNCHANGED <<vols, up, spare, intents, calls, ops, faults>>

\* A disk grows to its target and never shrinks.
Grow(h, v) ==
    /\ disks[h][v] < target[h][v]
    /\ disks' = [disks EXCEPT ![h][v] = target[h][v]]
    /\ UNCHANGED <<vols, up, spare, intents, calls, wire, target, ops, faults>>

\* report and RecordVolumeObservedSize, by volume id; a silent host sends none.
ReportVolume(h, v) ==
    /\ h \in up
    /\ disks[h][v] > 0 /\ v \in Live /\ vols[v].observed # disks[h][v]
    /\ vols' = [vols EXCEPT ![v].observed = disks[h][v]]
    /\ UNCHANGED <<up, spare, intents, calls, agentVars, ops, faults>>

\* The agent process restarts: its disks are made again at the next state.
AgentRestarts(h) ==
    /\ Fault
    /\ disks[h] # NoDisks
    /\ wire' = [wire EXCEPT ![h] = NoState]
    /\ target' = [target EXCEPT ![h] = NoDisks] /\ disks' = [disks EXCEPT ![h] = NoDisks]
    /\ UNCHANGED <<vols, up, spare, intents, calls, ops>>

HostSilent(h) ==
    /\ h \in up /\ Fault
    /\ up' = up \ {h}
    /\ UNCHANGED <<vols, spare, intents, calls, agentVars, ops>>

HostBack(h) ==
    /\ h \notin up
    /\ up' = up \cup {h}
    /\ UNCHANGED <<vols, spare, intents, calls, agentVars, ops, faults>>

\* The replica rows of a host change.  A placement checks the rows that run
\* (the transaction's predicate) or none at all (a pinned replica), the ledger
\* counts the failed ones too.
ReplicasMove(h, n) ==
    /\ n # spare[h]
    /\ IF n < spare[h] THEN Fault ELSE UNCHANGED faults
    /\ spare' = [spare EXCEPT ![h] = n]
    /\ UNCHANGED <<vols, up, intents, calls, agentVars, ops>>

-----------------------------------------------------------------------------
Init ==
    /\ vols = [v \in VolumeIds |-> NoVolume]
    /\ up = Hosts /\ spare = [h \in Hosts |-> 1]
    /\ intents = {}
    /\ calls = [o \in Operators |-> NoCall]
    /\ wire = [h \in Hosts |-> NoState]
    /\ target = [h \in Hosts |-> NoDisks] /\ disks = [h \in Hosts |-> NoDisks]
    /\ ops = 0 /\ faults = 0

Engine == Plan \/ Commit

Operator ==
    \E o \in Operators :
        \/ \E v \in VolumeIds :
              \/ \E n \in Sizes : AddVolume(o, v, n) \/ ResizeVolume(o, v, n)
              \/ RevertVolume(o, v) \/ RemoveVolume(o, v)
        \/ UpdateVolumeSize(o) \/ RevertVolumeSize(o)

Agent(h) == \/ PushState(h) \/ ApplyState(h)
            \/ \E v \in VolumeIds : Grow(h, v) \/ ReportVolume(h, v)

Failures == AbandonPass \/ \E h \in Hosts : AgentRestarts(h) \/ HostSilent(h)

Next ==
    \/ Engine \/ Operator \/ Failures
    \/ \E h \in Hosts : Agent(h) \/ HostBack(h) \/ \E n \in -1 .. 1 : ReplicasMove(h, n)

Spec == Init /\ [][Next]_vars

\* The engine ticks; a command that was begun ends; the downlink delivers, the
\* agent grows its disks and reports on every tick, and a silent host returns.
Fairness ==
    /\ WF_vars(Plan) /\ WF_vars(Commit)
    /\ \A o \in Operators : WF_vars(UpdateVolumeSize(o) \/ RevertVolumeSize(o))
    /\ \A h \in Hosts :
          /\ WF_vars(PushState(h)) /\ WF_vars(ApplyState(h)) /\ WF_vars(HostBack(h))
          /\ \A v \in VolumeIds : WF_vars(Grow(h, v)) /\ WF_vars(ReportVolume(h, v))

FairSpec == Spec /\ Fairness

-----------------------------------------------------------------------------
(* Properties.                                                             *)

\* Every variable holds a value of its type, and a volume is pending exactly
\* while it has no host.
TypeOK ==
    /\ vols \in [VolumeIds -> Row \cup {NoVolume}]
    /\ \A v \in Live : vols[v].status = "pending" <=> vols[v].host = None
    /\ up \subseteq Hosts /\ spare \in [Hosts -> -1 .. 1]
    /\ \A i \in intents : i.kind \in {"place", "resize", "park", "resized"} /\ i.host \in Hosts
    /\ target \in [Hosts -> [VolumeIds -> 0 .. MaxSize]]
    /\ disks \in [Hosts -> [VolumeIds -> 0 .. MaxSize]]
    /\ ops \in 0 .. MaxOps /\ faults \in 0 .. MaxFaults

\* The control plane never stands behind more bytes than a host has for
\* volumes, although reports, reverts, removals and lost passes move the rows
\* between a snapshot and the commits decided on it, several grows and
\* placements of one pass among them.  So it is where a volume is resized only
\* after its first report and commands on a row follow one another: the update
\* of a volume nobody has reported is charged by no pass.
BudgetRespected == \A h \in Hosts : Cardinality(Bytes(On(h), committed)) <= Budget

\* Nor do the disks an agent really holds exceed it, although the agent acts
\* on states that are older than the row and keeps a removed volume's disk
\* until it hears of it.
DisksFit == \A h \in Hosts : Cardinality(Bytes(VolumeIds, disks[h])) <= Budget

\* A grow that waits for space can be taken back: its revert target is there
\* and is a size the disk already has, so the revert settles the volume.
ParkedCanRevert ==
    \A v \in Live : vols[v].status = "resize_pending" /\ Drifting(vols[v]) =>
        vols[v].previous \in 1 .. vols[v].observed

\* Local volumes never move: the host of a volume is assigned once, also when
\* a pass is lost and planned again.
VolumesStay ==
    [][\A v \in Live : vols[v].host # None =>
          vols'[v] = NoVolume \/ vols'[v].host = vols[v].host]_vars

\* No request is left hanging: an approved grow and a reverted one both end
\* attached, and a drifting volume is at least parked.
GrowSettles ==
    \A v \in VolumeIds :
        /\ (v \in Live /\ \/ vols[v].status = "resizing"
                          \/ vols[v].status = "resize_pending" /\ CaughtUp(vols[v]))
              ~> (v \notin Live \/ vols[v].status = "attached")
        /\ (v \in Live /\ vols[v].status = "attached" /\ Drifting(vols[v]))
              ~> (v \notin Live \/ vols[v].status # "attached" \/ ~Drifting(vols[v]))

\* The size a grow waits for, and the room its host has for it now.
ParkedWithRoom(v) ==
    /\ v \in Live /\ vols[v].status = "resize_pending" /\ Drifting(vols[v])
    /\ vols[v].host \in up
    /\ fits(GrowDelta(vols[v]), TRUE, newLedger[vols[v].host], spare[vols[v].host])

\* There is no failed exit: a parked grow is approved once its host has the disk
\* for it, provided that the rows of the host ask for no more cpu and memory
\* than it has.  Room on the disk alone is not enough: while a failed row that
\* nobody reaps overdraws the ledger, the grow waits.
RoomIsUsed == \A v \in VolumeIds : ~ <>[]ParkedWithRoom(v)
=============================================================================
