---------------------------- MODULE VolumesProofs ----------------------------
(***************************************************************************)
(* Proofs about Volumes.                                                   *)
(*                                                                         *)
(* The types and the host of a volume need nothing of the constants.  The  *)
(* budget, the disks and the revert hold when commands on a row follow one *)
(* another (Orderly); Volumes.cfg is such an instance.                     *)
(*                                                                         *)
(* The invariant follows the bytes from the plan to the disk: what a pass  *)
(* promises fits the host (Budgeted), a state that is sent promises no     *)
(* more (Fits), and what an agent was told of a volume, in whatever order  *)
(* it hears of it, lies between the size reported and the size promised    *)
(* (Held).  That rests on the rows (Sized), on a grow still being wanted   *)
(* when it is approved (Judged), and on a resize finding the row as it was *)
(* judged (Asked).                                                         *)
(***************************************************************************)
EXTENDS Volumes, FiniteSetTheorems, TLAPS

-----------------------------------------------------------------------------
(* The rows, and what a step makes of one.                                 *)

Kinds == {"place", "resize", "park", "resized"}
Calls == {NoCall} \cup [kind : {"resize"}, vol : VolumeIds, size : Sizes]
                  \cup [kind : {"revert"}, vol : VolumeIds]

Typed ==
    /\ TypeOK
    /\ wire \in [Hosts -> [VolumeIds -> 0 .. MaxSize] \cup {NoState}]
    /\ calls \in [Operators -> Calls]
    /\ intents \subseteq [kind : Kinds, vol : VolumeIds, host : Hosts]

LEMMA RowsAreRows == Typed => \A v \in Live : vols[v] \in Row
BY DEF Typed, TypeOK, Live

LEMMA RowIsNoVolume == NoVolume \notin Row
BY DEF NoVolume, Row, Statuses


\* A row of these values, and the step that makes it the row of v.
Record(h, s, d, p, o) ==
    [host |-> h, status |-> s, desired |-> d, previous |-> p, observed |-> o]

Became(v, h, s, d, p, o) ==
    vols' = [vols EXCEPT ![v] = Record(h, s, d, p, o)]

LEMMA RecordIsRow ==
    ASSUME NEW h \in Hosts \cup {None}, NEW s \in Statuses, NEW d \in Sizes,
           NEW p \in 0 .. MaxSize, NEW o \in 0 .. MaxSize
    PROVE  /\ Record(h, s, d, p, o) \in Row
           /\ Record(h, s, d, p, o).host = h /\ Record(h, s, d, p, o).status = s
           /\ Record(h, s, d, p, o).desired = d /\ Record(h, s, d, p, o).previous = p
           /\ Record(h, s, d, p, o).observed = o
BY DEF Record, Row

LEMMA OneField ==
    ASSUME NEW row \in Row, NEW x
    PROVE  /\ [row EXCEPT !.host = x] = Record(x, row.status, row.desired, row.previous, row.observed)
           /\ [row EXCEPT !.status = x] = Record(row.host, x, row.desired, row.previous, row.observed)
           /\ [row EXCEPT !.desired = x] = Record(row.host, row.status, x, row.previous, row.observed)
           /\ [row EXCEPT !.previous = x] = Record(row.host, row.status, row.desired, x, row.observed)
           /\ [row EXCEPT !.observed = x] = Record(row.host, row.status, row.desired, row.previous, x)
BY DEF Row, Record

LEMMA Rehosted ==
    ASSUME NEW row \in Row, NEW h \in Hosts \cup {None}
    PROVE  [row EXCEPT !.host = h, !.status = "attached"]
              = Record(h, "attached", row.desired, row.previous, row.observed)
<1> DEFINE moved == Record(h, row.status, row.desired, row.previous, row.observed)
<1>1. [row EXCEPT !.host = h] = moved
  BY OneField, Zenon
<1>2. /\ moved \in Row /\ moved.host = h /\ moved.desired = row.desired
      /\ moved.previous = row.previous /\ moved.observed = row.observed
      /\ moved.status = row.status
  BY DEF Record, Row
<1> HIDE DEF moved
<1>3. [row EXCEPT !.host = h, !.status = "attached"] = [moved EXCEPT !.status = "attached"]
  BY <1>1, Zenon
<1>4. [moved EXCEPT !.status = "attached"]
         = Record(moved.host, "attached", moved.desired, moved.previous, moved.observed)
  BY <1>2, OneField, Zenon
<1>5. Record(moved.host, "attached", moved.desired, moved.previous, moved.observed)
         = Record(h, "attached", row.desired, row.previous, row.observed)
  BY <1>2
<1> QED
  BY <1>3, <1>4, <1>5, Zenon

LEMMA Resized ==
    ASSUME NEW row \in Row, NEW d \in Sizes, NEW p \in 0 .. MaxSize
    PROVE  /\ [row EXCEPT !.previous = p, !.desired = d]
                = Record(row.host, row.status, d, p, row.observed)
           /\ [row EXCEPT !.desired = d, !.previous = p]
                = Record(row.host, row.status, d, p, row.observed)
<1> DEFINE one == Record(row.host, row.status, row.desired, p, row.observed)
           two == Record(row.host, row.status, d, row.previous, row.observed)
<1>1. [row EXCEPT !.previous = p] = one /\ [row EXCEPT !.desired = d] = two
  BY OneField, Zenon
<1>2. /\ one \in Row /\ one.host = row.host /\ one.status = row.status
      /\ one.previous = p /\ one.observed = row.observed
      /\ two \in Row /\ two.host = row.host /\ two.status = row.status
      /\ two.desired = d /\ two.observed = row.observed
  <2>1. /\ row.host \in Hosts \cup {None} /\ row.status \in Statuses /\ row.desired \in Sizes
        /\ row.previous \in 0 .. MaxSize /\ row.observed \in 0 .. MaxSize
    BY DEF Row
  <2> QED
    BY <2>1, RecordIsRow
<1> HIDE DEF one, two
<1>3. /\ [row EXCEPT !.previous = p, !.desired = d] = [one EXCEPT !.desired = d]
      /\ [row EXCEPT !.desired = d, !.previous = p] = [two EXCEPT !.previous = p]
  BY <1>1, Zenon
<1>4. /\ [one EXCEPT !.desired = d] = Record(one.host, one.status, d, one.previous, one.observed)
      /\ [two EXCEPT !.previous = p] = Record(two.host, two.status, two.desired, p, two.observed)
  BY <1>2, OneField, Zenon
<1>5. /\ Record(one.host, one.status, d, one.previous, one.observed)
            = Record(row.host, row.status, d, p, row.observed)
      /\ Record(two.host, two.status, two.desired, p, two.observed)
            = Record(row.host, row.status, d, p, row.observed)
  BY <1>2
<1> QED
  BY <1>3, <1>4, <1>5, Zenon

\* A placement moves a row that is there, or nothing.
LEMMA Assigned ==
    ASSUME Typed, NEW i \in intents, AssignVolumeHost(i)
    PROVE  LET row == vols[i.vol] IN
           \/ vols' = vols /\ i.vol \notin Live
           \/ /\ i.vol \in Live
              /\ Became(i.vol, i.host, "attached", row.desired, row.previous, row.observed)
<1>1. CASE i.vol \in Live
  <2>1. PICK row \in Row : row = vols[i.vol]
    BY <1>1, RowsAreRows
  <2>2. vols' = [vols EXCEPT ![i.vol] = [row EXCEPT !.host = i.host, !.status = "attached"]]
    BY <1>1, <2>1 DEF AssignVolumeHost, Update
  <2>3. i.host \in Hosts \cup {None}
    BY DEF Typed
  <2>4. [row EXCEPT !.host = i.host, !.status = "attached"]
          = Record(i.host, "attached", row.desired, row.previous, row.observed)
    BY <2>3, Rehosted, Zenon
  <2> QED
    BY <1>1, <2>1, <2>2, <2>4, Zenon DEF Became
<1>2. CASE i.vol \notin Live
  BY <1>2 DEF AssignVolumeHost, Update
<1> QED
  BY <1>1, <1>2

\* The three other commits move a status, or nothing.
LEMMA Marked ==
    ASSUME Typed, NEW i \in intents
    PROVE  LET row == vols[i.vol]
               Marks(s) == /\ i.vol \in Live
                           /\ Became(i.vol, row.host, s, row.desired, row.previous, row.observed)
           IN
           /\ MarkVolumeResizePending(i) =>
                 \/ vols' = vols
                 \/ row.status = "attached" /\ Drifting(row) /\ Marks("resize_pending")
           /\ MarkVolumeResizing(i) =>
                 \/ vols' = vols /\ (i.vol \in Live =>
                       ~(row.status \in {"attached", "resize_pending"} /\ Drifting(row)))
                 \/ row.status \in {"attached", "resize_pending"} /\ Drifting(row) /\ Marks("resizing")
           /\ MarkVolumeAttached(i) =>
                 \/ vols' = vols
                 \/ row.status \in {"resizing", "resize_pending"} /\ CaughtUp(row) /\ Marks("attached")
<1>1. CASE i.vol \in Live
  <2>1. PICK row \in Row : row = vols[i.vol]
    BY <1>1, RowsAreRows
  <2>2. MarkVolumeResizePending(i) =>
           \/ vols' = vols
           \/ /\ row.status = "attached" /\ Drifting(row)
              /\ vols' = [vols EXCEPT ![i.vol] = [row EXCEPT !.status = "resize_pending"]]
    BY <1>1, <2>1 DEF MarkVolumeResizePending, Update
  <2>3. MarkVolumeResizing(i) =>
           \/ /\ vols' = vols
              /\ ~(row.status \in {"attached", "resize_pending"} /\ Drifting(row))
           \/ /\ row.status \in {"attached", "resize_pending"} /\ Drifting(row)
              /\ vols' = [vols EXCEPT ![i.vol] = [row EXCEPT !.status = "resizing"]]
    BY <1>1, <2>1 DEF MarkVolumeResizing, Update
  <2>4. MarkVolumeAttached(i) =>
           \/ vols' = vols
           \/ /\ row.status \in {"resizing", "resize_pending"} /\ CaughtUp(row)
              /\ vols' = [vols EXCEPT ![i.vol] = [row EXCEPT !.status = "attached"]]
    BY <1>1, <2>1 DEF MarkVolumeAttached, Update
  <2> QED
    BY <1>1, <2>1, <2>2, <2>3, <2>4, OneField, Zenon DEF Became
<1>2. CASE i.vol \notin Live
  BY <1>2 DEF MarkVolumeResizePending, MarkVolumeResizing, MarkVolumeAttached, Update
<1> QED
  BY <1>1, <1>2

\* The writes of the operator's commands.
LEMMA Written ==
    ASSUME Typed, NEW o \in Operators
    PROVE  LET v   == calls[o].vol
               row == vols[v]
           IN
           /\ UpdateVolumeSize(o) =>
                 \/ vols' = vols /\ v \notin Live
                 \/ v \in Live
                    /\ Became(v, row.host, row.status, calls[o].size, row.desired, row.observed)
           /\ RevertVolumeSize(o) =>
                 \/ vols' = vols
                 \/ /\ v \in Live /\ row.status = "resize_pending" /\ row.previous # 0
                    /\ Became(v, row.host, row.status, row.previous, 0, row.observed)
<1>1. CASE calls[o].vol \in Live
  <2>1. PICK row \in Row : row = vols[calls[o].vol]
    BY <1>1, RowsAreRows
  <2>2. UpdateVolumeSize(o) =>
           vols' = [vols EXCEPT ![calls[o].vol] =
                      [row EXCEPT !.previous = row.desired, !.desired = calls[o].size]]
    BY <1>1, <2>1 DEF UpdateVolumeSize, Update
  <2>3. RevertVolumeSize(o) =>
           \/ vols' = vols
           \/ /\ row.status = "resize_pending" /\ row.previous # 0
              /\ vols' = [vols EXCEPT ![calls[o].vol] =
                            [row EXCEPT !.desired = row.previous, !.previous = 0]]
    BY <1>1, <2>1 DEF RevertVolumeSize, Update
  <2>4. ASSUME UpdateVolumeSize(o)
        PROVE  Became(calls[o].vol, row.host, row.status, calls[o].size, row.desired, row.observed)
    <3>1. calls[o].size \in Sizes /\ row.desired \in 0 .. MaxSize
      BY <2>4 DEF UpdateVolumeSize, Typed, Calls, NoCall, Row, Sizes
    <3> QED
      BY <2>2, <2>4, <3>1, Resized, Zenon DEF Became
  <2>5. ASSUME vols' = [vols EXCEPT ![calls[o].vol] =
                           [row EXCEPT !.desired = row.previous, !.previous = 0]],
               row.previous # 0
        PROVE  Became(calls[o].vol, row.host, row.status, row.previous, 0, row.observed)
    <3>1. row.previous \in Sizes /\ 0 \in 0 .. MaxSize
      BY <2>5, VolumesAssumption DEF Row, Sizes
    <3> QED
      BY <2>5, <3>1, Resized, Zenon DEF Became
  <2> QED
    BY <1>1, <2>1, <2>3, <2>4, <2>5
<1>2. CASE calls[o].vol \notin Live
  BY <1>2 DEF UpdateVolumeSize, RevertVolumeSize, Update
<1> QED
  BY <1>1, <1>2

\* The report of a disk.
LEMMA ReportedSize ==
    ASSUME Typed, NEW h \in Hosts, NEW v \in VolumeIds, ReportVolume(h, v)
    PROVE  LET row == vols[v] IN
           Became(v, row.host, row.status, row.desired, row.previous, disks[h][v])
<1>1. PICK row \in Row : row = vols[v]
  BY RowsAreRows DEF ReportVolume
<1>2. vols' = [vols EXCEPT ![v] = [row EXCEPT !.observed = disks[h][v]]]
  BY <1>1, Zenon DEF ReportVolume
<1> QED
  BY <1>1, <1>2, OneField, Zenon DEF Became

\* The row that was written, and the rows that were not.
LEMMA AfterBecame ==
    ASSUME Typed, NEW v \in Live, NEW h \in Hosts \cup {None}, NEW s \in Statuses,
           NEW d \in Sizes, NEW p \in 0 .. MaxSize, NEW o \in 0 .. MaxSize,
           Became(v, h, s, d, p, o)
    PROVE  /\ vols' \in [VolumeIds -> Row \cup {NoVolume}]
           /\ vols'[v] \in Row
           /\ vols'[v].host = h /\ vols'[v].status = s /\ vols'[v].desired = d
           /\ vols'[v].previous = p /\ vols'[v].observed = o
           /\ \A u \in VolumeIds : u # v => vols'[u] = vols[u]
           /\ Live' = Live
<1> DEFINE row == Record(h, s, d, p, o)
<1>1. row \in Row
  BY RecordIsRow
<1>2. /\ row.host = h /\ row.status = s /\ row.desired = d
      /\ row.previous = p /\ row.observed = o
  BY RecordIsRow
<1>3. vols' = [vols EXCEPT ![v] = row]
  BY DEF Became
<1>4. vols \in [VolumeIds -> Row \cup {NoVolume}] /\ v \in VolumeIds
  BY DEF Typed, TypeOK, Live
<1> HIDE DEF row
<1>5. vols'[v] = row /\ \A u \in VolumeIds : u # v => vols'[u] = vols[u]
  BY <1>3, <1>4, Zenon
<1>6. vols' \in [VolumeIds -> Row \cup {NoVolume}]
  BY <1>1, <1>3, <1>4
<1>7. Live' = Live
  BY <1>1, <1>4, <1>5, RowIsNoVolume DEF Live
<1> QED
  BY <1>1, <1>2, <1>5, <1>6, <1>7

-----------------------------------------------------------------------------
(* Types, and the host a volume keeps.                                     *)

\* One intent per volume, and a placement only for a volume without a host.
PlacedOnce ==
    /\ \A i, j \in intents : i.vol = j.vol => i = j
    /\ \A i \in intents : i.kind = "place" /\ i.vol \in Live => vols[i.vol].host = None

Pinned == \A v \in Live : vols[v].status = "pending" <=> vols[v].host = None

\* What a pass decides, and on what.
LEMMA Decided ==
    ASSUME Typed, NEW p \in placeVolumes, NEW grows \in resizeVolumes(p),
           NEW i \in planVolumes(p, grows)
    PROVE  /\ i \in [kind : Kinds, vol : VolumeIds, host : Hosts]
           /\ \/ i.kind = "place" /\ i.vol \in hostless /\ i.host = p[i.vol]
              \/ i.kind = "resized" /\ i.vol \in settled /\ i.host = vols[i.vol].host
              \/ i.kind = "resize" /\ i.vol \in grows /\ i.vol \in growable /\ i.host = vols[i.vol].host
              \/ i.kind = "park" /\ i.vol \in growable \ grows /\ i.host = vols[i.vol].host
<1> DEFINE Placements == {[kind |-> "place", vol |-> v, host |-> p[v]] : v \in {u \in hostless : p[u] # None}}
           Decide(kind, S) == {[kind |-> kind, vol |-> v, host |-> vols[v].host] : v \in S}
<1>1. /\ hostless \subseteq VolumeIds /\ settled \subseteq VolumeIds /\ growable \subseteq VolumeIds
      /\ grows \subseteq growable
      /\ p \in [hostless -> up \cup {None}] /\ up \subseteq Hosts
  BY DEF hostless, settled, growable, Live, resizeVolumes, placeVolumes, Typed, TypeOK
<1>2. \A v \in settled \cup growable : vols[v].host \in Hosts
  <2>1. \A v \in settled \cup growable : v \in Live /\ vols[v].status # "pending"
    BY DEF settled, growable
  <2>2. \A v \in Live : vols[v].host \in Hosts \cup {None}
    BY RowsAreRows DEF Row
  <2> QED
    BY <2>1, <2>2 DEF Typed, TypeOK
<1>3. \/ i \in Placements \/ i \in Decide("resized", settled) \/ i \in Decide("resize", grows)
      \/ i \in Decide("park", {v \in growable \ grows : vols[v].status = "attached"})
  BY DEF planVolumes
<1>4. CASE i \in Placements
  <2>1. PICK v \in hostless : p[v] # None /\ i = [kind |-> "place", vol |-> v, host |-> p[v]]
    BY <1>4
  <2> QED
    BY <2>1, <1>1 DEF Kinds
<1>5. ASSUME NEW kind \in {"resized", "resize", "park"}, NEW S \in SUBSET (settled \cup growable),
             i \in Decide(kind, S)
      PROVE  /\ i \in [kind : Kinds, vol : VolumeIds, host : Hosts]
             /\ i.kind = kind /\ i.vol \in S /\ i.host = vols[i.vol].host
  <2>1. PICK v \in S : i = [kind |-> kind, vol |-> v, host |-> vols[v].host]
    BY <1>5
  <2> QED
    BY <2>1, <1>1, <1>2 DEF Kinds
<1> HIDE DEF Placements, Decide
<1>6. CASE i \in Decide("resized", settled)
  BY <1>5, <1>6
<1>7. CASE i \in Decide("resize", grows)
  BY <1>1, <1>5, <1>7
<1>8. CASE i \in Decide("park", {v \in growable \ grows : vols[v].status = "attached"})
  BY <1>5, <1>8
<1> QED
  BY <1>3, <1>4, <1>6, <1>7, <1>8

\* A pass decides one thing about a volume.
LEMMA DecidedOnce ==
    ASSUME Typed, NEW p \in placeVolumes, NEW grows \in resizeVolumes(p),
           NEW i \in planVolumes(p, grows), NEW j \in planVolumes(p, grows), i.vol = j.vol
    PROVE  i = j
<1>1. /\ i \in [kind : Kinds, vol : VolumeIds, host : Hosts]
      /\ j \in [kind : Kinds, vol : VolumeIds, host : Hosts]
  BY Decided
<1>2. \A v \in hostless : v \notin settled /\ v \notin growable
  BY DEF hostless, settled, growable, Typed, TypeOK
<1>3. \A v \in settled : v \notin growable
  <2>1. \A v \in Live : vols[v].observed \in Int /\ vols[v].desired \in Int
    BY RowsAreRows DEF Row, Sizes
  <2> QED
    BY <2>1 DEF settled, growable, CaughtUp, Drifting
<1>4. i.kind = j.kind /\ i.host = j.host
  BY <1>2, <1>3, Decided
<1> QED
  BY <1>1, <1>4

LEMMA TypedStart == Init => Typed /\ PlacedOnce
<1> SUFFICES ASSUME Init PROVE Typed /\ PlacedOnce
  OBVIOUS
<1>1. Live = {}
  BY DEF Init, Live
<1> QED
  BY <1>1, VolumesAssumption DEF Init, Typed, TypeOK, PlacedOnce, NoDisks, Calls

\* A row that moves stays a row.
LEMMA RowsTyped ==
    ASSUME Typed, NEW v \in Live, NEW h \in Hosts \cup {None}, NEW s \in Statuses,
           NEW d \in Sizes, NEW p \in 0 .. MaxSize, NEW o \in 0 .. MaxSize,
           Became(v, h, s, d, p, o), s = "pending" <=> h = None
    PROVE  vols' \in [VolumeIds -> Row \cup {NoVolume}] /\ Pinned'
<1>1. /\ vols' \in [VolumeIds -> Row \cup {NoVolume}] /\ Live' = Live
      /\ vols'[v].status = s /\ vols'[v].host = h
      /\ \A u \in VolumeIds : u # v => vols'[u] = vols[u]
  BY AfterBecame, Zenon
<1>2. ASSUME NEW u \in Live'
      PROVE  vols'[u].status = "pending" <=> vols'[u].host = None
  <2>1. u \in VolumeIds /\ u \in Live
    BY <1>1 DEF Live
  <2> QED
    BY <1>1, <2>1, Zenon DEF Typed, TypeOK
<1> QED
  BY <1>1, <1>2 DEF Pinned

\* The rows stay rows, and a volume is pending while it has no host.
LEMMA RowsStep ==
    ASSUME Typed, Next
    PROVE  vols' \in [VolumeIds -> Row \cup {NoVolume}] /\ Pinned'
<1> USE DEF Pinned
<1>0. ASSUME UNCHANGED vols
      PROVE  vols' \in [VolumeIds -> Row \cup {NoVolume}] /\ Pinned'
  BY <1>0 DEF Typed, TypeOK, Live
<1>1. CASE Plan \/ AbandonPass
  BY <1>0, <1>1 DEF Plan, AbandonPass
<1>2. CASE Commit
  <2>1. PICK i \in intents : \/ AssignVolumeHost(i) \/ MarkVolumeResizePending(i)
                             \/ MarkVolumeResizing(i) \/ MarkVolumeAttached(i)
    BY <1>2 DEF Commit
  <2>2. CASE vols' = vols
    BY <1>0, <2>2
  <2>3. ASSUME i.vol \in Live, NEW h \in Hosts, NEW s \in Statuses \ {"pending"},
               Became(i.vol, h, s, vols[i.vol].desired, vols[i.vol].previous, vols[i.vol].observed)
        PROVE  vols' \in [VolumeIds -> Row \cup {NoVolume}] /\ Pinned'
    <3>1. vols[i.vol] \in Row
      BY <2>3, RowsAreRows
    <3>2. /\ vols[i.vol].desired \in Sizes
          /\ vols[i.vol].previous \in 0 .. MaxSize /\ vols[i.vol].observed \in 0 .. MaxSize
      BY <3>1 DEF Row
    <3>3. s \in Statuses /\ h \in Hosts \cup {None} /\ (s = "pending" <=> h = None)
      BY VolumesAssumption
    <3> QED
      BY <2>3, <3>2, <3>3, RowsTyped
  <2>4. CASE AssignVolumeHost(i)
    <3>1. i.host \in Hosts /\ "attached" \in Statuses \ {"pending"}
      BY DEF Typed, Statuses
    <3>2. \/ vols' = vols
          \/ /\ i.vol \in Live
             /\ Became(i.vol, i.host, "attached", vols[i.vol].desired, vols[i.vol].previous,
                       vols[i.vol].observed)
      BY <2>4, Assigned, Zenon
    <3> QED
      BY <2>2, <2>3, <3>1, <3>2, Zenon
  <2>5. ASSUME i.vol \in Live, vols[i.vol].status # "pending"
        PROVE  vols[i.vol].host \in Hosts
    <3>1. vols[i.vol].host \in Hosts \cup {None}
      BY <2>5, RowsAreRows DEF Row
    <3> QED
      BY <2>5, <3>1 DEF Typed, TypeOK
  <2>6. "resize_pending" \in Statuses \ {"pending"} /\ "resizing" \in Statuses \ {"pending"}
        /\ "attached" \in Statuses \ {"pending"}
    BY DEF Statuses
  <2>7. CASE MarkVolumeResizePending(i) \/ MarkVolumeResizing(i) \/ MarkVolumeAttached(i)
    BY <2>2, <2>3, <2>5, <2>6, <2>7, Marked
  <2> QED
    BY <2>1, <2>4, <2>7
<1>3. ASSUME NEW o \in Operators, NEW v \in VolumeIds, NEW n \in Sizes, AddVolume(o, v, n)
      PROVE  vols' \in [VolumeIds -> Row \cup {NoVolume}] /\ Pinned'
  <2> DEFINE row == Record(None, "pending", n, 0, 0)
  <2>1. row \in Row /\ row.host = None /\ row.status = "pending"
    BY VolumesAssumption DEF Record, Row, Statuses
  <2>2. vols' = [vols EXCEPT ![v] = row] /\ vols \in [VolumeIds -> Row \cup {NoVolume}]
    BY <1>3 DEF AddVolume, Record, Typed, TypeOK
  <2> HIDE DEF row
  <2>3. vols'[v] = row /\ \A u \in VolumeIds : u # v => vols'[u] = vols[u]
    BY <2>2, Zenon
  <2> QED
    BY <2>1, <2>2, <2>3 DEF Live, Typed, TypeOK
<1>4. ASSUME NEW o \in Operators, NEW v \in VolumeIds, RemoveVolume(o, v)
      PROVE  vols' \in [VolumeIds -> Row \cup {NoVolume}] /\ Pinned'
  BY <1>4 DEF RemoveVolume, Live, Typed, TypeOK
<1>5. ASSUME NEW o \in Operators, UpdateVolumeSize(o) \/ RevertVolumeSize(o)
      PROVE  vols' \in [VolumeIds -> Row \cup {NoVolume}] /\ Pinned'
  <2> DEFINE v == calls[o].vol
  <2>1. CASE vols' = vols
    BY <1>0, <2>1
  <2>2. ASSUME NEW w \in Live, NEW d \in Sizes, NEW p \in 0 .. MaxSize,
               Became(w, vols[w].host, vols[w].status, d, p, vols[w].observed)
        PROVE  vols' \in [VolumeIds -> Row \cup {NoVolume}] /\ Pinned'
    <3>1. vols[w] \in Row
      BY RowsAreRows
    <3>2. /\ vols[w].host \in Hosts \cup {None} /\ vols[w].status \in Statuses
          /\ vols[w].observed \in 0 .. MaxSize
      BY <3>1 DEF Row
    <3>3. vols[w].status = "pending" <=> vols[w].host = None
      BY DEF Typed, TypeOK
    <3> QED
      BY <2>2, <3>2, <3>3, RowsTyped
  <2>3. CASE UpdateVolumeSize(o)
    <3>1. calls[o].size \in Sizes
      <4>1. calls[o].kind = "resize"
        BY <2>3, Zenon DEF UpdateVolumeSize
      <4> QED
        BY <4>1 DEF Typed, Calls, NoCall
    <3>2. v \in Live => vols[v].desired \in 0 .. MaxSize
      BY RowsAreRows DEF Row, Sizes
    <3>3. \/ vols' = vols
          \/ v \in Live /\ Became(v, vols[v].host, vols[v].status, calls[o].size,
                                 vols[v].desired, vols[v].observed)
      BY <2>3, Written, Zenon
    <3> QED
      BY <2>1, <2>2, <3>1, <3>2, <3>3, Zenon
  <2>4. CASE RevertVolumeSize(o)
    <3>1. v \in Live /\ vols[v].previous # 0 => vols[v].previous \in Sizes
      BY RowsAreRows, VolumesAssumption DEF Row, Sizes
    <3>2. 0 \in 0 .. MaxSize
      BY VolumesAssumption
    <3> QED
      BY <2>1, <2>2, <2>4, <3>1, <3>2, Written
  <2> QED
    BY <1>5, <2>3, <2>4
<1>6. ASSUME NEW h \in Hosts, NEW v \in VolumeIds, ReportVolume(h, v)
      PROVE  vols' \in [VolumeIds -> Row \cup {NoVolume}] /\ Pinned'
  <2>1. v \in Live
    BY <1>6 DEF ReportVolume
  <2>2. vols[v] \in Row
    BY <2>1, RowsAreRows
  <2>3. /\ vols[v].host \in Hosts \cup {None} /\ vols[v].status \in Statuses
        /\ vols[v].desired \in Sizes /\ vols[v].previous \in 0 .. MaxSize
    BY <2>2 DEF Row
  <2>4. disks[h][v] \in 0 .. MaxSize
    BY DEF Typed, TypeOK
  <2>5. vols[v].status = "pending" <=> vols[v].host = None
    BY <2>1 DEF Typed, TypeOK
  <2> QED
    BY <1>6, <2>1, <2>3, <2>4, <2>5, ReportedSize, RowsTyped, Zenon
<1>7. ASSUME NEW h \in Hosts, AgentRestarts(h) \/ HostSilent(h)
      PROVE  vols' \in [VolumeIds -> Row \cup {NoVolume}] /\ Pinned'
  BY <1>0, <1>7 DEF AgentRestarts, HostSilent
<1> QED
  <2>1. CASE Engine \/ Failures
    BY <1>1, <1>2, <1>7, <2>1 DEF Engine, Failures
  <2>2. CASE Operator
    <3>1. PICK o \in Operators :
             \/ \E v \in VolumeIds :
                   \/ \E n \in Sizes : AddVolume(o, v, n) \/ ResizeVolume(o, v, n)
                   \/ RevertVolume(o, v) \/ RemoveVolume(o, v)
             \/ UpdateVolumeSize(o) \/ RevertVolumeSize(o)
      BY <2>2, Zenon DEF Operator
    <3>2. CASE \E v \in VolumeIds : \E n \in Sizes : AddVolume(o, v, n) \/ ResizeVolume(o, v, n)
      BY <1>0, <1>3, <3>2, Zenon DEF ResizeVolume
    <3>3. CASE \E v \in VolumeIds : RevertVolume(o, v) \/ RemoveVolume(o, v)
      BY <1>0, <1>4, <3>3, Zenon DEF RevertVolume
    <3> QED
      BY <1>5, <3>1, <3>2, <3>3, Zenon
  <2>3. ASSUME NEW h \in Hosts, Agent(h) \/ HostBack(h)
        PROVE  vols' \in [VolumeIds -> Row \cup {NoVolume}] /\ Pinned'
    <3>1. CASE HostBack(h) \/ PushState(h) \/ ApplyState(h)
      BY <1>0, <3>1 DEF HostBack, PushState, ApplyState
    <3>2. CASE \E v \in VolumeIds : Grow(h, v) \/ ReportVolume(h, v)
      BY <1>0, <1>6, <3>2 DEF Grow
    <3> QED
      BY <2>3, <3>1, <3>2 DEF Agent
  <2>4. ASSUME NEW h \in Hosts, NEW n \in -1 .. 1, ReplicasMove(h, n)
        PROVE  vols' \in [VolumeIds -> Row \cup {NoVolume}] /\ Pinned'
    BY <1>0, <2>4 DEF ReplicasMove
  <2> QED
    BY <2>1, <2>2, <2>3, <2>4 DEF Next

LEMMA StatesTyped == Typed => \A h \in Hosts : HostState(h) \in [VolumeIds -> 0 .. MaxSize]
<1> SUFFICES ASSUME Typed, NEW h \in Hosts, NEW v \in On(h)
             PROVE  volumeTargetSize(vols[v]) \in 0 .. MaxSize
  BY VolumesAssumption DEF HostState
<1>1. vols[v] \in Row
  BY RowsAreRows DEF On
<1> QED
  BY <1>1, VolumesAssumption DEF volumeTargetSize, Committed, Row, Sizes

\* Everything but the rows keeps its type.
LEMMA RestStep ==
    ASSUME Typed, Next
    PROVE  /\ up' \subseteq Hosts /\ spare' \in [Hosts -> -1 .. 1]
           /\ wire' \in [Hosts -> [VolumeIds -> 0 .. MaxSize] \cup {NoState}]
           /\ target' \in [Hosts -> [VolumeIds -> 0 .. MaxSize]]
           /\ disks' \in [Hosts -> [VolumeIds -> 0 .. MaxSize]]
           /\ calls' \in [Operators -> Calls]
           /\ intents' \subseteq [kind : Kinds, vol : VolumeIds, host : Hosts]
           /\ ops' \in 0 .. MaxOps /\ faults' \in 0 .. MaxFaults
<1> DEFINE Good == /\ up' \subseteq Hosts /\ spare' \in [Hosts -> -1 .. 1]
                   /\ wire' \in [Hosts -> [VolumeIds -> 0 .. MaxSize] \cup {NoState}]
                   /\ target' \in [Hosts -> [VolumeIds -> 0 .. MaxSize]]
                   /\ disks' \in [Hosts -> [VolumeIds -> 0 .. MaxSize]]
                   /\ calls' \in [Operators -> Calls]
                   /\ intents' \subseteq [kind : Kinds, vol : VolumeIds, host : Hosts]
                   /\ ops' \in 0 .. MaxOps /\ faults' \in 0 .. MaxFaults
<1>0. /\ up \subseteq Hosts /\ spare \in [Hosts -> -1 .. 1]
      /\ wire \in [Hosts -> [VolumeIds -> 0 .. MaxSize] \cup {NoState}]
      /\ target \in [Hosts -> [VolumeIds -> 0 .. MaxSize]]
      /\ disks \in [Hosts -> [VolumeIds -> 0 .. MaxSize]]
      /\ calls \in [Operators -> Calls]
      /\ intents \subseteq [kind : Kinds, vol : VolumeIds, host : Hosts]
      /\ ops \in 0 .. MaxOps /\ faults \in 0 .. MaxFaults
      /\ MaxOps \in Nat /\ MaxFaults \in Nat /\ MaxSize \in Nat
  BY VolumesAssumption DEF Typed, TypeOK
<1>1. CASE Plan
  <2>1. PICK p \in placeVolumes : \E grows \in resizeVolumes(p) : intents' = planVolumes(p, grows)
    BY <1>1 DEF Plan
  <2>2. PICK grows \in resizeVolumes(p) : intents' = planVolumes(p, grows)
    BY <2>1
  <2>3. intents' \subseteq [kind : Kinds, vol : VolumeIds, host : Hosts]
    BY <2>2, Decided
  <2> QED
    BY <1>0, <1>1, <2>3 DEF Plan, agentVars
<1>2. CASE Commit
  <2>1. PICK i \in intents : \/ AssignVolumeHost(i) \/ MarkVolumeResizePending(i)
                             \/ MarkVolumeResizing(i) \/ MarkVolumeAttached(i)
    BY <1>2 DEF Commit
  <2>2. intents' = intents \ {i} /\ UNCHANGED <<up, spare, calls, agentVars, ops, faults>>
    BY <2>1, Zenon DEF AssignVolumeHost, MarkVolumeResizePending, MarkVolumeResizing, MarkVolumeAttached, Take
  <2> QED
    BY <1>0, <2>2 DEF agentVars
<1>3. CASE Failures
  <2>1. CASE AbandonPass
    BY <1>0, <2>1 DEF AbandonPass, Fault, agentVars
  <2>2. ASSUME NEW h \in Hosts, AgentRestarts(h)
        PROVE  Good
    <3>1. NoDisks \in [VolumeIds -> 0 .. MaxSize]
      BY <1>0 DEF NoDisks
    <3> QED
      BY <1>0, <2>2, <3>1 DEF AgentRestarts, Fault
  <2>3. ASSUME NEW h \in Hosts, HostSilent(h)
        PROVE  Good
    BY <1>0, <2>3 DEF HostSilent, Fault, agentVars
  <2> QED
    BY <1>3, <2>1, <2>2, <2>3 DEF Failures
<1>4. ASSUME NEW o \in Operators, NEW v \in VolumeIds, NEW n \in Sizes,
             \/ AddVolume(o, v, n) \/ ResizeVolume(o, v, n)
             \/ RevertVolume(o, v) \/ RemoveVolume(o, v)
      PROVE  Good
  <2>1. ops < MaxOps /\ ops' = ops + 1 /\ UNCHANGED <<up, spare, intents, agentVars, faults>>
    BY <1>4 DEF AddVolume, ResizeVolume, RevertVolume, RemoveVolume, Op
  <2>2. calls' \in [Operators -> Calls]
    <3>1. CASE UNCHANGED calls
      BY <1>0, <3>1
    <3>2. CASE calls' = [calls EXCEPT ![o] = [kind |-> "resize", vol |-> v, size |-> n]]
      BY <1>0, <3>2 DEF Calls
    <3>3. CASE calls' = [calls EXCEPT ![o] = [kind |-> "revert", vol |-> v]]
      BY <1>0, <3>3 DEF Calls
    <3> QED
      BY <1>4, <3>1, <3>2, <3>3 DEF AddVolume, ResizeVolume, RevertVolume, RemoveVolume
  <2> QED
    BY <1>0, <2>1, <2>2 DEF agentVars
<1>5. ASSUME NEW o \in Operators, UpdateVolumeSize(o) \/ RevertVolumeSize(o)
      PROVE  Good
  <2>1. /\ calls' = [calls EXCEPT ![o] = NoCall]
        /\ UNCHANGED <<up, spare, intents, agentVars, ops, faults>>
    BY <1>5, Zenon DEF UpdateVolumeSize, RevertVolumeSize
  <2> QED
    BY <1>0, <2>1 DEF agentVars, Calls
<1>6. ASSUME NEW h \in Hosts, Agent(h) \/ HostBack(h)
      PROVE  Good
  <2>1. CASE HostBack(h)
    BY <1>0, <2>1 DEF HostBack, agentVars
  <2>2. CASE PushState(h)
    BY <1>0, <2>2, StatesTyped DEF PushState
  <2>3. CASE ApplyState(h)
    <3>1. wire[h] \in [VolumeIds -> 0 .. MaxSize]
      BY <1>0, <2>3 DEF ApplyState
    <3> QED
      BY <1>0, <2>3, <3>1 DEF ApplyState
  <2>4. ASSUME NEW v \in VolumeIds, Grow(h, v)
        PROVE  Good
    <3>1. target[h][v] \in 0 .. MaxSize
      BY <1>0
    <3> QED
      BY <1>0, <2>4, <3>1 DEF Grow
  <2>5. ASSUME NEW v \in VolumeIds, ReportVolume(h, v)
        PROVE  Good
    <3>1. UNCHANGED <<up, spare, intents, calls, agentVars, ops, faults>>
      BY <2>5, Zenon DEF ReportVolume
    <3> QED
      BY <1>0, <3>1 DEF agentVars
  <2> QED
    BY <1>6, <2>1, <2>2, <2>3, <2>4, <2>5, Zenon DEF Agent
<1>7. ASSUME NEW h \in Hosts, NEW n \in -1 .. 1, ReplicasMove(h, n)
      PROVE  Good
  <2>1. faults' \in 0 .. MaxFaults
    BY <1>0, <1>7 DEF ReplicasMove, Fault
  <2> QED
    BY <1>0, <1>7, <2>1 DEF ReplicasMove, agentVars
<1>8. CASE Operator
  <2>1. PICK o \in Operators :
           \/ \E v \in VolumeIds :
                 \/ \E n \in Sizes : AddVolume(o, v, n) \/ ResizeVolume(o, v, n)
                 \/ RevertVolume(o, v) \/ RemoveVolume(o, v)
           \/ UpdateVolumeSize(o) \/ RevertVolumeSize(o)
    BY <1>8, Zenon DEF Operator
  <2>2. 1 \in Sizes
    BY VolumesAssumption DEF Sizes
  <2> QED
    BY <1>4, <1>5, <2>1, <2>2, Zenon
<1> QED
  BY <1>1, <1>2, <1>3, <1>6, <1>7, <1>8, Zenon DEF Next, Engine

\* The steps that touch neither the intents nor the host of a row that is there.
LEMMA PlacedOnceKept ==
    ASSUME Typed, PlacedOnce, intents' \subseteq intents,
           \A v \in VolumeIds : (\E i \in intents' : i.vol = v) /\ v \in Live' =>
               v \in Live /\ vols'[v].host = vols[v].host
    PROVE  PlacedOnce'
<1>1. \A i \in intents : i.vol \in VolumeIds
  BY DEF Typed
<1> QED
  BY <1>1 DEF PlacedOnce

\* A commit drops its intent, and touches the row of that intent only.
LEMMA Committing ==
    ASSUME Typed, NEW i \in intents,
           \/ AssignVolumeHost(i) \/ MarkVolumeResizePending(i)
           \/ MarkVolumeResizing(i) \/ MarkVolumeAttached(i)
    PROVE  /\ intents' = intents \ {i}
           /\ UNCHANGED <<up, calls, wire, target, disks, ops, faults>>
           /\ Live' = Live
           /\ \A v \in VolumeIds : v # i.vol => vols'[v] = vols[v]
           /\ i.kind # "place" /\ i.vol \in Live => vols'[i.vol].host = vols[i.vol].host
<1>1. /\ intents' = intents \ {i} /\ UNCHANGED <<up, calls, agentVars, ops, faults>>
      /\ AssignVolumeHost(i) => i.kind = "place"
  BY Zenon DEF AssignVolumeHost, MarkVolumeResizePending, MarkVolumeResizing, MarkVolumeAttached, Take
<1>2. CASE vols' = vols
  BY <1>1, <1>2 DEF agentVars, Live
<1>3. ASSUME i.vol \in Live, NEW h \in Hosts \cup {None}, NEW s \in Statuses,
             Became(i.vol, h, s, vols[i.vol].desired, vols[i.vol].previous, vols[i.vol].observed)
      PROVE  /\ Live' = Live
             /\ \A v \in VolumeIds : v # i.vol => vols'[v] = vols[v]
             /\ vols'[i.vol].host = h
  <2>1. vols[i.vol] \in Row
    BY <1>3, RowsAreRows
  <2>2. /\ vols[i.vol].desired \in Sizes
        /\ vols[i.vol].previous \in 0 .. MaxSize /\ vols[i.vol].observed \in 0 .. MaxSize
    BY <2>1 DEF Row
  <2> QED
    BY <1>3, <2>2, AfterBecame
<1>4. CASE AssignVolumeHost(i)
  <2>1. i.host \in Hosts \cup {None} /\ "attached" \in Statuses
    BY DEF Typed, Statuses
  <2>2. \/ vols' = vols
        \/ /\ i.vol \in Live
           /\ Became(i.vol, i.host, "attached", vols[i.vol].desired, vols[i.vol].previous,
                     vols[i.vol].observed)
    BY <1>4, Assigned, Zenon
  <2>3. CASE i.vol \in Live /\ Became(i.vol, i.host, "attached", vols[i.vol].desired,
                                     vols[i.vol].previous, vols[i.vol].observed)
    <3>1. /\ Live' = Live
          /\ \A v \in VolumeIds : v # i.vol => vols'[v] = vols[v]
      BY <1>3, <2>1, <2>3, Zenon
    <3> QED
      BY <1>1, <1>4, <3>1 DEF agentVars
  <2> QED
    BY <1>2, <2>2, <2>3, Zenon
<1>5. CASE MarkVolumeResizePending(i) \/ MarkVolumeResizing(i) \/ MarkVolumeAttached(i)
  <2>1. i.vol \in Live => vols[i.vol].host \in Hosts \cup {None}
    BY RowsAreRows DEF Row
  <2>2. "resize_pending" \in Statuses /\ "resizing" \in Statuses /\ "attached" \in Statuses
    BY DEF Statuses
  <2>3. \/ vols' = vols
        \/ /\ i.vol \in Live
           /\ \E s \in Statuses : Became(i.vol, vols[i.vol].host, s, vols[i.vol].desired,
                                         vols[i.vol].previous, vols[i.vol].observed)
    BY <1>5, <2>2, Marked, Zenon
  <2>4. CASE /\ i.vol \in Live
             /\ \E s \in Statuses : Became(i.vol, vols[i.vol].host, s, vols[i.vol].desired,
                                           vols[i.vol].previous, vols[i.vol].observed)
    <3>1. PICK s \in Statuses : Became(i.vol, vols[i.vol].host, s, vols[i.vol].desired,
                                       vols[i.vol].previous, vols[i.vol].observed)
      BY <2>4
    <3>2. /\ Live' = Live /\ \A v \in VolumeIds : v # i.vol => vols'[v] = vols[v]
          /\ vols'[i.vol].host = vols[i.vol].host
      BY <1>3, <2>1, <2>4, <3>1, Zenon
    <3> QED
      BY <1>1, <3>2 DEF agentVars
  <2> QED
    BY <1>2, <2>3, <2>4, Zenon
<1> QED
  BY <1>4, <1>5

\* The write of a command, and a report, touch one row and keep its host.
LEMMA Writing ==
    ASSUME Typed, NEW o \in Operators, UpdateVolumeSize(o) \/ RevertVolumeSize(o)
    PROVE  /\ UNCHANGED <<up, intents, wire, target, disks>>
           /\ calls' = [calls EXCEPT ![o] = NoCall]
           /\ Live' = Live
           /\ \A v \in VolumeIds : v # calls[o].vol => vols'[v] = vols[v]
           /\ \A v \in Live : vols'[v].host = vols[v].host
<1>1. /\ UNCHANGED <<up, intents, agentVars>> /\ calls' = [calls EXCEPT ![o] = NoCall]
  BY Zenon DEF UpdateVolumeSize, RevertVolumeSize
<1>2. CASE vols' = vols
  BY <1>1, <1>2 DEF agentVars, Live
<1>3. ASSUME NEW w \in Live, w = calls[o].vol, NEW d \in Sizes, NEW p \in 0 .. MaxSize,
             Became(w, vols[w].host, vols[w].status, d, p, vols[w].observed)
      PROVE  /\ Live' = Live
             /\ \A v \in VolumeIds : v # calls[o].vol => vols'[v] = vols[v]
             /\ \A v \in Live : vols'[v].host = vols[v].host
  <2>1. vols[w] \in Row
    BY RowsAreRows
  <2>2. /\ vols[w].host \in Hosts \cup {None} /\ vols[w].status \in Statuses
        /\ vols[w].observed \in 0 .. MaxSize
    BY <2>1 DEF Row
  <2>3. /\ Live' = Live /\ \A v \in VolumeIds : v # w => vols'[v] = vols[v]
        /\ vols'[w].host = vols[w].host
    BY <1>3, <2>2, AfterBecame
  <2> QED
    BY <1>3, <2>3 DEF Live
<1>4. CASE UpdateVolumeSize(o)
  <2>1. calls[o].size \in Sizes
    <3>1. calls[o].kind = "resize"
      BY <1>4, Zenon DEF UpdateVolumeSize
    <3> QED
      BY <3>1 DEF Typed, Calls, NoCall
  <2>2. calls[o].vol \in Live => vols[calls[o].vol].desired \in 0 .. MaxSize
    BY RowsAreRows DEF Row, Sizes
  <2>3. \/ vols' = vols
        \/ /\ calls[o].vol \in Live
           /\ Became(calls[o].vol, vols[calls[o].vol].host, vols[calls[o].vol].status, calls[o].size,
                     vols[calls[o].vol].desired, vols[calls[o].vol].observed)
    BY <1>4, Written, Zenon
  <2> QED
    BY <1>1, <1>2, <1>3, <2>1, <2>2, <2>3, Zenon DEF agentVars
<1>5. CASE RevertVolumeSize(o)
  <2>1. calls[o].vol \in Live /\ vols[calls[o].vol].previous # 0 =>
           vols[calls[o].vol].previous \in Sizes
    BY RowsAreRows, VolumesAssumption DEF Row, Sizes
  <2>2. 0 \in 0 .. MaxSize
    BY VolumesAssumption
  <2>3. \/ vols' = vols
        \/ /\ calls[o].vol \in Live /\ vols[calls[o].vol].previous # 0
           /\ Became(calls[o].vol, vols[calls[o].vol].host, vols[calls[o].vol].status,
                     vols[calls[o].vol].previous, 0, vols[calls[o].vol].observed)
    BY <1>5, Written, Zenon
  <2> QED
    BY <1>1, <1>2, <1>3, <2>1, <2>2, <2>3, Zenon DEF agentVars
<1> QED
  BY <1>4, <1>5

LEMMA Reporting ==
    ASSUME Typed, NEW h \in Hosts, NEW v \in VolumeIds, ReportVolume(h, v)
    PROVE  /\ UNCHANGED <<up, intents, calls, wire, target, disks>>
           /\ v \in Live /\ Live' = Live
           /\ \A u \in VolumeIds : u # v => vols'[u] = vols[u]
           /\ vols'[v].host = vols[v].host /\ vols'[v].status = vols[v].status
           /\ vols'[v].desired = vols[v].desired /\ vols'[v].previous = vols[v].previous
           /\ vols'[v].observed = disks[h][v]
<1>1. UNCHANGED <<up, intents, calls, agentVars>> /\ v \in Live
  BY Zenon DEF ReportVolume
<1>2. vols[v] \in Row
  BY <1>1, RowsAreRows
<1>3. /\ vols[v].host \in Hosts \cup {None} /\ vols[v].status \in Statuses
      /\ vols[v].desired \in Sizes /\ vols[v].previous \in 0 .. MaxSize
      /\ disks[h][v] \in 0 .. MaxSize
  BY <1>2 DEF Row, Typed, TypeOK
<1>4. Became(v, vols[v].host, vols[v].status, vols[v].desired, vols[v].previous, disks[h][v])
  BY ReportedSize, Zenon
<1> QED
  BY <1>1, <1>3, <1>4, AfterBecame DEF agentVars

\* The steps of an operator, one by one.
LEMMA OperatorSteps ==
    ASSUME Operator
    PROVE  \E o \in Operators :
              \/ \E v \in VolumeIds : \E n \in Sizes : AddVolume(o, v, n)
              \/ \E v \in VolumeIds : \E n \in Sizes : ResizeVolume(o, v, n)
              \/ \E v \in VolumeIds : RevertVolume(o, v)
              \/ \E v \in VolumeIds : RemoveVolume(o, v)
              \/ UpdateVolumeSize(o) \/ RevertVolumeSize(o)
BY Zenon DEF Operator

\* The steps that leave the rows and the intents alone.
Elsewhere ==
    \/ \E o \in Operators : \E v \in VolumeIds :
          \/ \E n \in Sizes : ResizeVolume(o, v, n)
          \/ RevertVolume(o, v)
    \/ \E h \in Hosts :
          \/ AgentRestarts(h) \/ HostSilent(h) \/ HostBack(h) \/ PushState(h) \/ ApplyState(h)
          \/ \E v \in VolumeIds : Grow(h, v)
          \/ \E n \in -1 .. 1 : ReplicasMove(h, n)

LEMMA ElsewhereKeeps == Elsewhere => UNCHANGED <<vols, intents>>
BY Zenon DEF Elsewhere, ResizeVolume, RevertVolume, AgentRestarts, HostSilent, HostBack,
             PushState, ApplyState, Grow, ReplicasMove

LEMMA Steps ==
    ASSUME Next
    PROVE  \/ Plan \/ Commit \/ AbandonPass \/ Elsewhere
           \/ \E o \in Operators :
                 \/ \E v \in VolumeIds : \E n \in Sizes : AddVolume(o, v, n)
                 \/ \E v \in VolumeIds : RemoveVolume(o, v)
                 \/ UpdateVolumeSize(o) \/ RevertVolumeSize(o)
           \/ \E h \in Hosts : \E v \in VolumeIds : ReportVolume(h, v)
<1>1. CASE Engine \/ Failures
  BY <1>1, Zenon DEF Engine, Failures, Elsewhere
<1>2. CASE Operator
  BY <1>2, OperatorSteps, Zenon DEF Elsewhere
<1>3. CASE \E h \in Hosts : Agent(h) \/ HostBack(h)
  BY <1>3, Zenon DEF Agent, Elsewhere
<1>4. CASE \E h \in Hosts : \E n \in -1 .. 1 : ReplicasMove(h, n)
  BY <1>4, Zenon DEF Elsewhere
<1> QED
  BY <1>1, <1>2, <1>3, <1>4, Zenon DEF Next

LEMMA PlacedOnceStep ==
    ASSUME Typed, PlacedOnce, Next
    PROVE  PlacedOnce'
<1>0. \A i \in intents : i.vol \in VolumeIds
  BY DEF Typed
<1>1. CASE Plan
  <2>1. PICK p \in placeVolumes : \E grows \in resizeVolumes(p) : intents' = planVolumes(p, grows)
    BY <1>1 DEF Plan
  <2>2. PICK grows \in resizeVolumes(p) : intents' = planVolumes(p, grows)
    BY <2>1
  <2>3. \A i, j \in intents' : i.vol = j.vol => i = j
    BY <2>2, DecidedOnce
  <2>4. \A i \in intents' : i.kind = "place" => i.vol \in hostless
    BY <2>2, Decided
  <2> QED
    BY <1>1, <2>3, <2>4 DEF PlacedOnce, hostless, Plan
<1>2. CASE Commit
  <2>1. PICK i \in intents : \/ AssignVolumeHost(i) \/ MarkVolumeResizePending(i)
                             \/ MarkVolumeResizing(i) \/ MarkVolumeAttached(i)
    BY <1>2 DEF Commit
  <2>2. /\ intents' = intents \ {i} /\ Live' = Live
        /\ \A v \in VolumeIds : v # i.vol => vols'[v] = vols[v]
    BY <2>1, Committing
  <2> QED
    BY <1>0, <2>2 DEF PlacedOnce
<1>3. CASE AbandonPass
  BY <1>3 DEF AbandonPass, PlacedOnce
<1>4. CASE Elsewhere
  <2>1. UNCHANGED <<vols, intents>>
    BY <1>4, ElsewhereKeeps
  <2> QED
    BY <2>1 DEF PlacedOnce, Live
<1>5. ASSUME NEW o \in Operators, NEW v \in VolumeIds, NEW n \in Sizes, AddVolume(o, v, n)
      PROVE  PlacedOnce'
  <2>1. /\ intents' = intents /\ \A i \in intents : i.vol # v
        /\ \A u \in VolumeIds : u # v => vols'[u] = vols[u]
    BY <1>5 DEF AddVolume, Fresh, Typed, TypeOK
  <2> QED
    BY <1>0, <2>1 DEF PlacedOnce, Live
<1>6. ASSUME NEW o \in Operators, NEW v \in VolumeIds, RemoveVolume(o, v)
      PROVE  PlacedOnce'
  BY <1>0, <1>6 DEF RemoveVolume, PlacedOnce, Live, Typed, TypeOK
<1>7. ASSUME NEW o \in Operators, UpdateVolumeSize(o) \/ RevertVolumeSize(o)
      PROVE  PlacedOnce'
  <2>1. UNCHANGED intents /\ Live' = Live /\ \A v \in Live : vols'[v].host = vols[v].host
    BY <1>7, Writing
  <2> QED
    BY <2>1 DEF PlacedOnce
<1>8. ASSUME NEW h \in Hosts, NEW v \in VolumeIds, ReportVolume(h, v)
      PROVE  PlacedOnce'
  <2>1. /\ UNCHANGED intents /\ Live' = Live /\ vols'[v].host = vols[v].host
        /\ \A u \in VolumeIds : u # v => vols'[u] = vols[u]
    BY <1>8, Reporting
  <2> QED
    BY <1>0, <2>1 DEF PlacedOnce
<1> QED
  BY <1>1, <1>2, <1>3, <1>4, <1>5, <1>6, <1>7, <1>8, Steps, Zenon

LEMMA TypedStep == Typed /\ PlacedOnce /\ [Next]_vars => Typed' /\ PlacedOnce'
<1> SUFFICES ASSUME Typed, PlacedOnce, [Next]_vars PROVE Typed' /\ PlacedOnce'
  OBVIOUS
<1>1. CASE Next
  <2>1. PlacedOnce'
    BY <1>1, PlacedOnceStep
  <2>2. vols' \in [VolumeIds -> Row \cup {NoVolume}] /\ Pinned'
    BY <1>1, RowsStep
  <2>3. \A i \in intents' : i.kind \in Kinds /\ i.host \in Hosts
    BY <1>1, RestStep
  <2>4. TypeOK'
    BY <1>1, <2>2, <2>3, RestStep DEF TypeOK, Pinned, Kinds
  <2> QED
    BY <1>1, <2>1, <2>4, RestStep DEF Typed
<1>2. CASE UNCHANGED vars
  BY <1>2, Zenon DEF vars, agentVars, Typed, TypeOK, PlacedOnce, Live
<1> QED
  BY <1>1, <1>2

\* Every variable keeps its type and a volume is pending exactly while it has
\* no host, whatever the operators, the engine and the agents do to its row.
THEOREM VolumesTyped == Spec => []TypeOK
<1>1. Typed => TypeOK
  BY DEF Typed
<1> QED
  BY <1>1, TypedStart, TypedStep, PTL DEF Spec

LEMMA NoMove ==
    ASSUME Typed, PlacedOnce, Next, NEW v \in Live, vols[v].host # None
    PROVE  vols'[v] = NoVolume \/ vols'[v].host = vols[v].host
<1>0. v \in VolumeIds
  BY DEF Live
<1>1. CASE UNCHANGED vols
  BY <1>1
<1>2. CASE Commit
  <2>1. PICK i \in intents : \/ AssignVolumeHost(i) \/ MarkVolumeResizePending(i)
                             \/ MarkVolumeResizing(i) \/ MarkVolumeAttached(i)
    BY <1>2 DEF Commit
  <2>2. /\ \A u \in VolumeIds : u # i.vol => vols'[u] = vols[u]
        /\ i.kind # "place" /\ i.vol \in Live => vols'[i.vol].host = vols[i.vol].host
    BY <2>1, Committing
  <2> QED
    BY <1>0, <2>2 DEF PlacedOnce
<1>3. ASSUME NEW o \in Operators, NEW u \in VolumeIds, NEW n \in Sizes,
             AddVolume(o, u, n) \/ RemoveVolume(o, u)
      PROVE  vols'[v] = NoVolume \/ vols'[v].host = vols[v].host
  BY <1>0, <1>3 DEF AddVolume, Fresh, RemoveVolume, Live, Typed, TypeOK
<1>4. ASSUME NEW o \in Operators, UpdateVolumeSize(o) \/ RevertVolumeSize(o)
      PROVE  vols'[v].host = vols[v].host
  BY <1>4, Writing
<1>5. ASSUME NEW h \in Hosts, NEW u \in VolumeIds, ReportVolume(h, u)
      PROVE  vols'[v].host = vols[v].host
  BY <1>0, <1>5, Reporting
<1>6. 1 \in Sizes
  BY VolumesAssumption DEF Sizes
<1>7. CASE Plan \/ AbandonPass \/ Elsewhere
  BY <1>1, <1>7, ElsewhereKeeps DEF Plan, AbandonPass
<1> QED
  BY <1>2, <1>3, <1>4, <1>5, <1>6, <1>7, Steps, Zenon

\* A local volume is assigned its host once: a pass that is lost and planned
\* again, or a placement decided on an old snapshot, never moves it.
THEOREM HostIsForGood == Spec => VolumesStay
<1>1. ASSUME Typed, PlacedOnce, [Next]_vars
      PROVE  [\A v \in Live : vols[v].host # None =>
                 vols'[v] = NoVolume \/ vols'[v].host = vols[v].host]_vars
  BY <1>1, NoMove
<1> QED
  BY <1>1, TypedStart, TypedStep, PTL DEF Spec, VolumesStay

-----------------------------------------------------------------------------
(* The sizes of a row.                                                     *)

\* A resize waits for the agent's first report, and operators take turns.
Orderly == ~ResizeEarly /\ \A o, p \in Operators : o = p

\* What is on disk never exceeds what is wanted; a waiting grow can go back
\* to what is on disk, and a reverted one has nothing left to go back to.
Sound(row) ==
    /\ row.host = None => ~Reported(row)
    /\ row.observed <= row.desired
    /\ row.status \in {"resize_pending", "resizing"} => Reported(row)
    /\ row.status \in {"attached", "resize_pending"} /\ Drifting(row) => row.previous = row.observed
    /\ row.status = "resize_pending" /\ ~Drifting(row) => row.previous = 0

Sized == \A v \in Live : Sound(vols[v])

\* A grow on its way to approval is still wanted, or has just been taken back.
Judged ==
    \A i \in intents : i.kind = "resize" /\ i.vol \in Live =>
        \/ vols[i.vol].status = "resize_pending"
        \/ vols[i.vol].status = "attached" /\ Drifting(vols[i.vol])

\* A resize that was judged finds the row as it was judged.
Asked ==
    \A o \in Operators : calls[o].kind = "resize" /\ calls[o].vol \in Live =>
        LET row == vols[calls[o].vol]
        IN  row.status = "attached" /\ CaughtUp(row) /\ calls[o].size > row.desired

\* What an agent is told of a volume, and what it has of it, lies between what
\* was reported and what the control plane stands behind.
Floor(row) == IF Reported(row) THEN row.observed ELSE row.desired

Within(x, v, h) ==
    x # 0 /\ v \in Live =>
        vols[v].host = h /\ Floor(vols[v]) <= x /\ x <= Committed(vols[v])

Held ==
    \A h \in Hosts : \A v \in VolumeIds :
        /\ Within(target[h][v], v, h) /\ Within(disks[h][v], v, h)
        /\ disks[h][v] <= target[h][v]
        /\ wire[h] # NoState =>
              /\ Within(wire[h][v], v, h)
              /\ wire[h][v] # 0 => target[h][v] <= wire[h][v]

LEMMA RowTypes ==
    ASSUME NEW row \in Row
    PROVE  /\ row.host \in Hosts \cup {None} /\ row.status \in Statuses
           /\ row.desired \in Int /\ row.previous \in Int /\ row.observed \in Int
           /\ 1 <= row.desired /\ 0 <= row.previous /\ 0 <= row.observed
           /\ row.desired \in Sizes /\ row.previous \in 0 .. MaxSize /\ row.observed \in 0 .. MaxSize
BY VolumesAssumption DEF Row, Sizes

\* What a commit makes of the row of its intent.
LEMMA CommitRow ==
    ASSUME Typed, NEW i \in intents, i.vol \in Live
    PROVE  LET old  == vols[i.vol]
               new  == vols'[i.vol]
               Same == /\ new \in Row /\ new.desired = old.desired /\ new.previous = old.previous
                       /\ new.observed = old.observed
           IN  /\ AssignVolumeHost(i) =>
                     i.kind = "place" /\ Same /\ new.host = i.host /\ new.status = "attached"
               /\ MarkVolumeResizePending(i) =>
                     /\ i.kind = "park" /\ Same /\ new.host = old.host
                     /\ \/ new.status = old.status
                        \/ old.status = "attached" /\ Drifting(old) /\ new.status = "resize_pending"
               /\ MarkVolumeResizing(i) =>
                     /\ i.kind = "resize" /\ Same /\ new.host = old.host
                     /\ \/ new.status = old.status
                        \/ /\ old.status \in {"attached", "resize_pending"} /\ Drifting(old)
                           /\ new.status = "resizing"
               /\ MarkVolumeAttached(i) =>
                     /\ i.kind = "resized" /\ Same /\ new.host = old.host
                     /\ \/ new.status = old.status
                        \/ /\ old.status \in {"resizing", "resize_pending"} /\ CaughtUp(old)
                           /\ new.status = "attached"
<1> DEFINE v == i.vol
           Same == /\ vols'[v] \in Row /\ vols'[v].desired = vols[v].desired
                   /\ vols'[v].previous = vols[v].previous /\ vols'[v].observed = vols[v].observed
<1>1. vols[v] \in Row
  BY RowsAreRows
<1>2. ASSUME vols' = vols
      PROVE  Same /\ vols'[v].host = vols[v].host /\ vols'[v].status = vols[v].status
  BY <1>1, <1>2
<1>3. ASSUME NEW h \in Hosts \cup {None}, NEW s \in Statuses,
             Became(v, h, s, vols[v].desired, vols[v].previous, vols[v].observed)
      PROVE  Same /\ vols'[v].host = h /\ vols'[v].status = s
  BY <1>1, <1>3, RowTypes, AfterBecame
<1>4. /\ "attached" \in Statuses /\ "resizing" \in Statuses /\ "resize_pending" \in Statuses
      /\ i.host \in Hosts \cup {None} /\ vols[v].host \in Hosts \cup {None}
  BY <1>1, RowTypes DEF Statuses, Typed
<1>5. ASSUME AssignVolumeHost(i)
      PROVE  i.kind = "place" /\ Same /\ vols'[v].host = i.host /\ vols'[v].status = "attached"
  <2>1. i.kind = "place"
    BY <1>5, Zenon DEF AssignVolumeHost, Take
  <2>2. Became(v, i.host, "attached", vols[v].desired, vols[v].previous, vols[v].observed)
    BY <1>5, Assigned, Zenon
  <2> QED
    BY <1>3, <1>4, <2>1, <2>2
<1>6. ASSUME MarkVolumeResizePending(i)
      PROVE  /\ i.kind = "park" /\ Same /\ vols'[v].host = vols[v].host
             /\ \/ vols'[v].status = vols[v].status
                \/ vols[v].status = "attached" /\ Drifting(vols[v]) /\ vols'[v].status = "resize_pending"
  <2>1. i.kind = "park"
    BY <1>6, Zenon DEF MarkVolumeResizePending, Take
  <2>2. \/ vols' = vols
        \/ /\ vols[v].status = "attached" /\ Drifting(vols[v])
           /\ Became(v, vols[v].host, "resize_pending", vols[v].desired, vols[v].previous, vols[v].observed)
    BY <1>6, Marked, Zenon
  <2> QED
    BY <1>2, <1>3, <1>4, <2>1, <2>2
<1>7. ASSUME MarkVolumeResizing(i)
      PROVE  /\ i.kind = "resize" /\ Same /\ vols'[v].host = vols[v].host
             /\ \/ vols'[v].status = vols[v].status
                \/ /\ vols[v].status \in {"attached", "resize_pending"} /\ Drifting(vols[v])
                   /\ vols'[v].status = "resizing"
  <2>1. i.kind = "resize"
    BY <1>7, Zenon DEF MarkVolumeResizing, Take
  <2>2. \/ vols' = vols
        \/ /\ vols[v].status \in {"attached", "resize_pending"} /\ Drifting(vols[v])
           /\ Became(v, vols[v].host, "resizing", vols[v].desired, vols[v].previous, vols[v].observed)
    BY <1>7, Marked, Zenon
  <2> QED
    BY <1>2, <1>3, <1>4, <2>1, <2>2
<1>8. ASSUME MarkVolumeAttached(i)
      PROVE  /\ i.kind = "resized" /\ Same /\ vols'[v].host = vols[v].host
             /\ \/ vols'[v].status = vols[v].status
                \/ /\ vols[v].status \in {"resizing", "resize_pending"} /\ CaughtUp(vols[v])
                   /\ vols'[v].status = "attached"
  <2>1. i.kind = "resized"
    BY <1>8, Zenon DEF MarkVolumeAttached, Take
  <2>2. \/ vols' = vols
        \/ /\ vols[v].status \in {"resizing", "resize_pending"} /\ CaughtUp(vols[v])
           /\ Became(v, vols[v].host, "attached", vols[v].desired, vols[v].previous, vols[v].observed)
    BY <1>8, Marked, Zenon
  <2> QED
    BY <1>2, <1>3, <1>4, <2>1, <2>2
<1> QED
  BY <1>5, <1>6, <1>7, <1>8

\* What the write of a command makes of its row.
LEMMA WriteRow ==
    ASSUME Typed, NEW o \in Operators, calls[o].vol \in Live
    PROVE  LET old  == vols[calls[o].vol]
               new  == vols'[calls[o].vol]
               Same == /\ new \in Row /\ new.host = old.host /\ new.status = old.status
                       /\ new.observed = old.observed
           IN  /\ UpdateVolumeSize(o) =>
                     /\ calls[o].kind = "resize" /\ calls[o].size \in Sizes /\ Same
                     /\ new.desired = calls[o].size /\ new.previous = old.desired
               /\ RevertVolumeSize(o) =>
                     /\ calls[o].kind = "revert" /\ Same
                     /\ \/ new.desired = old.desired /\ new.previous = old.previous
                        \/ /\ old.status = "resize_pending" /\ old.previous # 0
                           /\ new.desired = old.previous /\ new.previous = 0
<1> DEFINE v == calls[o].vol
           Same == /\ vols'[v] \in Row /\ vols'[v].host = vols[v].host
                   /\ vols'[v].status = vols[v].status /\ vols'[v].observed = vols[v].observed
<1>1. vols[v] \in Row
  BY RowsAreRows
<1>2. ASSUME NEW d \in Sizes, NEW p \in 0 .. MaxSize,
             Became(v, vols[v].host, vols[v].status, d, p, vols[v].observed)
      PROVE  Same /\ vols'[v].desired = d /\ vols'[v].previous = p
  <2>1. PICK w \in Live : w = v
    OBVIOUS
  <2>2. /\ vols[w].host \in Hosts \cup {None} /\ vols[w].status \in Statuses
        /\ vols[w].observed \in 0 .. MaxSize
    BY <1>1, <2>1, RowTypes
  <2>3. /\ vols'[w] \in Row /\ vols'[w].host = vols[w].host /\ vols'[w].status = vols[w].status
        /\ vols'[w].desired = d /\ vols'[w].previous = p /\ vols'[w].observed = vols[w].observed
    BY <1>2, <2>1, <2>2, AfterBecame
  <2> QED
    BY <2>1, <2>3
<1>3. ASSUME UpdateVolumeSize(o)
      PROVE  /\ calls[o].kind = "resize" /\ calls[o].size \in Sizes /\ Same
             /\ vols'[v].desired = calls[o].size /\ vols'[v].previous = vols[v].desired
  <2>1. calls[o].kind = "resize"
    BY <1>3, Zenon DEF UpdateVolumeSize
  <2>2. calls[o].size \in Sizes
    BY <2>1 DEF Typed, Calls, NoCall
  <2>3. vols[v].desired \in 0 .. MaxSize
    BY <1>1, RowTypes DEF Sizes
  <2>4. Became(v, vols[v].host, vols[v].status, calls[o].size, vols[v].desired, vols[v].observed)
    BY <1>3, Written, Zenon
  <2> QED
    BY <1>2, <2>1, <2>2, <2>3, <2>4
<1>4. ASSUME RevertVolumeSize(o)
      PROVE  /\ calls[o].kind = "revert" /\ Same
             /\ \/ vols'[v].desired = vols[v].desired /\ vols'[v].previous = vols[v].previous
                \/ /\ vols[v].status = "resize_pending" /\ vols[v].previous # 0
                   /\ vols'[v].desired = vols[v].previous /\ vols'[v].previous = 0
  <2>1. calls[o].kind = "revert"
    BY <1>4, Zenon DEF RevertVolumeSize
  <2>2. CASE vols' = vols
    BY <1>1, <2>1, <2>2
  <2>3. CASE /\ vols[v].status = "resize_pending" /\ vols[v].previous # 0
             /\ Became(v, vols[v].host, vols[v].status, vols[v].previous, 0, vols[v].observed)
    <3>1. vols[v].previous \in Sizes /\ 0 \in 0 .. MaxSize
      BY <1>1, <2>3, VolumesAssumption DEF Row, Sizes
    <3> QED
      BY <1>2, <2>1, <2>3, <3>1
  <2> QED
    BY <1>4, <2>2, <2>3, Written, Zenon
<1> QED
  BY <1>3, <1>4

\* What a report finds: the disk of the volume on its own host, and no more of
\* it than the control plane stands behind.
LEMMA ReportFinds ==
    ASSUME Typed, Held, NEW h \in Hosts, NEW v \in VolumeIds, ReportVolume(h, v)
    PROVE  /\ v \in Live /\ vols[v].host = h /\ disks[h][v] > 0
           /\ Floor(vols[v]) <= disks[h][v] /\ disks[h][v] <= Committed(vols[v])
<1>1. v \in Live /\ disks[h][v] > 0
  BY Zenon DEF ReportVolume
<1>2. Within(disks[h][v], v, h)
  BY DEF Held
<1>3. disks[h][v] \in 0 .. MaxSize
  BY DEF Typed, TypeOK
<1> QED
  BY <1>1, <1>2, <1>3, VolumesAssumption DEF Within

LEMMA SizedStep ==
    ASSUME Typed, PlacedOnce, Sized, Asked, Held, Next
    PROVE  Sized'
<1>0. ASSUME UNCHANGED vols
      PROVE  Sized'
  BY <1>0 DEF Sized, Live
<1>1. CASE Plan \/ AbandonPass \/ Elsewhere
  BY <1>0, <1>1, ElsewhereKeeps DEF Plan, AbandonPass
<1>2. ASSUME NEW v \in Live, Live' = Live,
             \A u \in VolumeIds : u # v => vols'[u] = vols[u], Sound(vols'[v])
      PROVE  Sized'
  BY <1>2 DEF Sized, Live
<1>3. CASE Commit
  <2>1. PICK i \in intents : \/ AssignVolumeHost(i) \/ MarkVolumeResizePending(i)
                             \/ MarkVolumeResizing(i) \/ MarkVolumeAttached(i)
    BY <1>3 DEF Commit
  <2>2. Live' = Live /\ \A v \in VolumeIds : v # i.vol => vols'[v] = vols[v]
    BY <2>1, Committing
  <2>3. CASE i.vol \notin Live
    BY <2>2, <2>3 DEF Sized, Live
  <2>4. CASE i.vol \in Live
    <3>1. vols[i.vol] \in Row /\ Sound(vols[i.vol])
      BY <2>4, RowsAreRows DEF Sized
    <3>2. i.host # None
      BY VolumesAssumption DEF Typed
    <3>3. CASE AssignVolumeHost(i)
      <4>1. /\ vols'[i.vol] \in Row /\ vols'[i.vol].desired = vols[i.vol].desired
            /\ vols'[i.vol].observed = vols[i.vol].observed
            /\ vols'[i.vol].host = i.host /\ vols'[i.vol].status = "attached"
            /\ i.kind = "place"
        BY <2>4, <3>3, CommitRow
      <4>2. vols[i.vol].host = None
        BY <2>4, <4>1 DEF PlacedOnce
      <4>3. Sound(vols'[i.vol])
        BY <3>1, <3>2, <4>1, <4>2, RowTypes DEF Sound, Reported, Drifting
      <4> QED
        BY <1>2, <2>2, <2>4, <4>3
    <3>4. CASE MarkVolumeResizePending(i) \/ MarkVolumeResizing(i) \/ MarkVolumeAttached(i)
      <4>1. /\ vols'[i.vol] \in Row /\ vols'[i.vol].desired = vols[i.vol].desired
            /\ vols'[i.vol].observed = vols[i.vol].observed
            /\ vols'[i.vol].previous = vols[i.vol].previous
            /\ vols'[i.vol].host = vols[i.vol].host
            /\ \/ vols'[i.vol].status = vols[i.vol].status
               \/ /\ vols[i.vol].status = "attached" /\ Drifting(vols[i.vol])
                  /\ vols'[i.vol].status = "resize_pending"
               \/ Drifting(vols[i.vol]) /\ vols'[i.vol].status = "resizing"
               \/ CaughtUp(vols[i.vol]) /\ vols'[i.vol].status = "attached"
        BY <2>4, <3>4, CommitRow
      <4>2. Sound(vols'[i.vol])
        BY <3>1, <4>1, RowTypes DEF Sound, Reported, Drifting, CaughtUp
      <4> QED
        BY <1>2, <2>2, <2>4, <4>2
    <3> QED
      BY <2>1, <3>3, <3>4
  <2> QED
    BY <2>3, <2>4
<1>4. ASSUME NEW o \in Operators, NEW v \in VolumeIds, NEW n \in Sizes, AddVolume(o, v, n)
      PROVE  Sized'
  <2> DEFINE row == Record(None, "pending", n, 0, 0)
  <2>1. Sound(row)
    BY VolumesAssumption DEF Record, Sound, Reported, Drifting, Sizes
  <2>2. vols' = [vols EXCEPT ![v] = row] /\ vols \in [VolumeIds -> Row \cup {NoVolume}]
    BY <1>4 DEF AddVolume, Record, Typed, TypeOK
  <2> HIDE DEF row
  <2>3. vols'[v] = row /\ \A u \in VolumeIds : u # v => vols'[u] = vols[u]
    BY <2>2, Zenon
  <2> QED
    BY <2>1, <2>3 DEF Sized, Live
<1>5. ASSUME NEW o \in Operators, NEW v \in VolumeIds, RemoveVolume(o, v)
      PROVE  Sized'
  BY <1>5 DEF RemoveVolume, Sized, Live, Typed, TypeOK
<1>6. ASSUME NEW o \in Operators, UpdateVolumeSize(o) \/ RevertVolumeSize(o)
      PROVE  Sized'
  <2> DEFINE v == calls[o].vol
  <2>1. Live' = Live /\ \A u \in VolumeIds : u # v => vols'[u] = vols[u]
    BY <1>6, Writing
  <2>2. CASE v \notin Live
    BY <2>1, <2>2 DEF Sized, Live
  <2>3. CASE v \in Live
    <3>1. vols[v] \in Row /\ Sound(vols[v])
      BY <2>3, RowsAreRows DEF Sized
    <3>2. CASE UpdateVolumeSize(o)
      <4>1. /\ calls[o].kind = "resize" /\ calls[o].size \in Sizes
            /\ vols'[v] \in Row /\ vols'[v].host = vols[v].host /\ vols'[v].status = vols[v].status
            /\ vols'[v].observed = vols[v].observed
            /\ vols'[v].desired = calls[o].size /\ vols'[v].previous = vols[v].desired
        BY <2>3, <3>2, WriteRow
      <4>2. vols[v].status = "attached" /\ CaughtUp(vols[v]) /\ calls[o].size > vols[v].desired
        BY <2>3, <4>1 DEF Asked
      <4>3. Sound(vols'[v])
        BY <3>1, <4>1, <4>2, RowTypes DEF Sound, Reported, Drifting, CaughtUp
      <4> QED
        BY <1>2, <2>1, <2>3, <4>3
    <3>3. CASE RevertVolumeSize(o)
      <4>1. /\ vols'[v] \in Row /\ vols'[v].host = vols[v].host /\ vols'[v].status = vols[v].status
            /\ vols'[v].observed = vols[v].observed
            /\ \/ vols'[v].desired = vols[v].desired /\ vols'[v].previous = vols[v].previous
               \/ /\ vols[v].status = "resize_pending" /\ vols[v].previous # 0
                  /\ vols'[v].desired = vols[v].previous /\ vols'[v].previous = 0
        BY <2>3, <3>3, WriteRow
      <4>2. Sound(vols'[v])
        BY <3>1, <4>1, RowTypes DEF Sound, Reported, Drifting
      <4> QED
        BY <1>2, <2>1, <2>3, <4>2
    <3> QED
      BY <1>6, <3>2, <3>3
  <2> QED
    BY <2>2, <2>3
<1>7. ASSUME NEW h \in Hosts, NEW v \in VolumeIds, ReportVolume(h, v)
      PROVE  Sized'
  <2>1. /\ v \in Live /\ vols[v].host = h /\ disks[h][v] > 0
        /\ Floor(vols[v]) <= disks[h][v] /\ disks[h][v] <= Committed(vols[v])
    BY <1>7, ReportFinds
  <2>2. vols[v] \in Row /\ Sound(vols[v]) /\ disks[h][v] \in Int /\ h # None
    BY <2>1, RowsAreRows, VolumesAssumption DEF Sized, Typed, TypeOK
  <2>3. /\ Live' = Live /\ \A u \in VolumeIds : u # v => vols'[u] = vols[u]
        /\ vols'[v].host = vols[v].host /\ vols'[v].status = vols[v].status
        /\ vols'[v].desired = vols[v].desired /\ vols'[v].previous = vols[v].previous
        /\ vols'[v].observed = disks[h][v]
    BY <1>7, Reporting
  <2>4. vols[v].status \in Statuses
    BY <2>2, RowTypes
  <2>5. Sound(vols'[v])
    BY <2>1, <2>2, <2>3, <2>4, RowTypes DEF Sound, Reported, Drifting, Floor, Committed, Statuses
  <2> QED
    BY <1>2, <2>1, <2>3, <2>5
<1> QED
  BY <1>1, <1>3, <1>4, <1>5, <1>6, <1>7, Steps, Zenon

LEMMA JudgedStep ==
    ASSUME Typed, PlacedOnce, Sized, Judged, Asked, Held, Next
    PROVE  Judged'
<1>0. \A i \in intents : i.vol \in VolumeIds
  BY DEF Typed
<1>1. CASE Plan
  <2>1. PICK p \in placeVolumes : \E grows \in resizeVolumes(p) : intents' = planVolumes(p, grows)
    BY <1>1 DEF Plan
  <2>2. PICK grows \in resizeVolumes(p) : intents' = planVolumes(p, grows)
    BY <2>1
  <2>3. \A i \in intents' : i.kind = "resize" => i.vol \in growable
    BY <2>2, Decided
  <2> QED
    BY <1>1, <2>3 DEF Judged, growable, Plan
<1>2. CASE Commit
  <2>1. PICK i \in intents : \/ AssignVolumeHost(i) \/ MarkVolumeResizePending(i)
                             \/ MarkVolumeResizing(i) \/ MarkVolumeAttached(i)
    BY <1>2 DEF Commit
  <2>2. /\ intents' = intents \ {i} /\ Live' = Live
        /\ \A v \in VolumeIds : v # i.vol => vols'[v] = vols[v]
    BY <2>1, Committing
  <2> QED
    BY <1>0, <2>2 DEF Judged, PlacedOnce
<1>3. CASE AbandonPass
  BY <1>3 DEF AbandonPass, Judged
<1>4. CASE Elsewhere
  <2>1. UNCHANGED <<vols, intents>>
    BY <1>4, ElsewhereKeeps
  <2> QED
    BY <2>1 DEF Judged, Live
<1>5. ASSUME NEW o \in Operators, NEW v \in VolumeIds, NEW n \in Sizes, AddVolume(o, v, n)
      PROVE  Judged'
  <2>1. /\ intents' = intents /\ \A i \in intents : i.vol # v
        /\ \A u \in VolumeIds : u # v => vols'[u] = vols[u]
    BY <1>5 DEF AddVolume, Fresh, Typed, TypeOK
  <2> QED
    BY <1>0, <2>1 DEF Judged, Live
<1>6. ASSUME NEW o \in Operators, NEW v \in VolumeIds, RemoveVolume(o, v)
      PROVE  Judged'
  BY <1>0, <1>6 DEF RemoveVolume, Judged, Live, Typed, TypeOK
<1>7. ASSUME NEW o \in Operators, UpdateVolumeSize(o) \/ RevertVolumeSize(o)
      PROVE  Judged'
  <2> DEFINE v == calls[o].vol
  <2>1. UNCHANGED intents /\ Live' = Live /\ \A u \in VolumeIds : u # v => vols'[u] = vols[u]
    BY <1>7, Writing
  <2>2. ASSUME v \in Live, NEW i \in intents, i.kind = "resize", i.vol = v
        PROVE  vols'[v].status = "resize_pending" \/ (vols'[v].status = "attached" /\ Drifting(vols'[v]))
    <3>1. vols[v] \in Row
      BY <2>2, RowsAreRows
    <3>2. vols[v].status = "resize_pending" \/ (vols[v].status = "attached" /\ Drifting(vols[v]))
      BY <2>2 DEF Judged
    <3>3. CASE UpdateVolumeSize(o)
      <4>1. vols[v].status = "attached" /\ CaughtUp(vols[v])
        BY <2>2, <3>3, WriteRow DEF Asked
      <4> QED
        BY <3>1, <3>2, <4>1, RowTypes DEF CaughtUp, Drifting
    <3>4. CASE RevertVolumeSize(o)
      <4>1. /\ vols'[v].status = vols[v].status /\ vols'[v].observed = vols[v].observed
            /\ vols'[v].desired = vols[v].desired \/ vols[v].status = "resize_pending"
        BY <2>2, <3>4, WriteRow
      <4> QED
        BY <3>2, <4>1 DEF Drifting, Reported
    <3> QED
      BY <1>7, <3>3, <3>4
  <2>3. CASE v \in Live
    <3> HIDE DEF v
    <3> QED
      BY <1>0, <2>1, <2>2, <2>3 DEF Judged
  <2>4. CASE v \notin Live
    <3> HIDE DEF v
    <3> QED
      BY <1>0, <2>1, <2>4 DEF Judged
  <2> QED
    BY <2>3, <2>4
<1>8. ASSUME NEW h \in Hosts, NEW v \in VolumeIds, ReportVolume(h, v)
      PROVE  Judged'
  <2>1. /\ v \in Live /\ vols[v].host = h /\ disks[h][v] > 0
        /\ Floor(vols[v]) <= disks[h][v] /\ disks[h][v] <= Committed(vols[v])
    BY <1>8, ReportFinds
  <2>2. /\ UNCHANGED intents /\ Live' = Live
        /\ \A u \in VolumeIds : u # v => vols'[u] = vols[u]
        /\ vols'[v].host = vols[v].host /\ vols'[v].status = vols[v].status
        /\ vols'[v].desired = vols[v].desired /\ vols'[v].observed = disks[h][v]
    BY <1>8, Reporting
  <2>3. vols[v] \in Row /\ Sound(vols[v]) /\ disks[h][v] \in Int
    BY <2>1, RowsAreRows DEF Sized, Typed, TypeOK
  <2>4. vols[v].status = "attached" /\ Drifting(vols[v]) => Drifting(vols'[v])
    BY <2>1, <2>2, <2>3, RowTypes DEF Sound, Reported, Drifting, Floor, Committed
  <2> QED
    BY <1>0, <2>2, <2>4 DEF Judged
<1> QED
  BY <1>1, <1>2, <1>3, <1>4, <1>5, <1>6, <1>7, <1>8, Steps, Zenon

LEMMA AskedStep ==
    ASSUME Orderly, Typed, PlacedOnce, Sized, Judged, Asked, Held, Next
    PROVE  Asked'
<1>0. \A o \in Operators : calls[o].kind = "resize" => calls[o].vol \in VolumeIds
  BY DEF Typed, Calls, NoCall
<1>1. CASE Plan \/ AbandonPass
  BY <1>1 DEF Plan, AbandonPass, Asked, Live
<1>2. CASE Commit
  <2>1. PICK i \in intents : \/ AssignVolumeHost(i) \/ MarkVolumeResizePending(i)
                             \/ MarkVolumeResizing(i) \/ MarkVolumeAttached(i)
    BY <1>2 DEF Commit
  <2>2. /\ UNCHANGED calls /\ Live' = Live
        /\ \A v \in VolumeIds : v # i.vol => vols'[v] = vols[v]
    BY <2>1, Committing
  <2>3. ASSUME i.vol \in Live, vols[i.vol].status = "attached", CaughtUp(vols[i.vol])
        PROVE  /\ vols'[i.vol].status = "attached" /\ vols'[i.vol].desired = vols[i.vol].desired
               /\ vols'[i.vol].observed = vols[i.vol].observed
    <3>1. vols[i.vol] \in Row
      BY <2>3, RowsAreRows
    <3>2. ~Drifting(vols[i.vol])
      BY <2>3, <3>1, RowTypes DEF CaughtUp, Drifting
    <3>3. CASE AssignVolumeHost(i)
      BY <2>3, <3>3, CommitRow
    <3>4. CASE MarkVolumeResizePending(i) \/ MarkVolumeResizing(i) \/ MarkVolumeAttached(i)
      BY <2>3, <3>2, <3>4, CommitRow
    <3> QED
      BY <2>1, <3>3, <3>4
  <2> QED
    BY <1>0, <2>2, <2>3 DEF Asked, CaughtUp, Reported
<1>3. ASSUME NEW o \in Operators, NEW v \in VolumeIds,
             (\E n \in Sizes : AddVolume(o, v, n)) \/ RemoveVolume(o, v)
      PROVE  Asked'
  <2>1. calls[o] = NoCall /\ UNCHANGED calls
    BY <1>3 DEF AddVolume, RemoveVolume, Op
  <2>2. \A p \in Operators : calls[p] = NoCall
    BY <2>1 DEF Orderly
  <2> QED
    BY <2>1, <2>2 DEF Asked, NoCall
<1>4. ASSUME NEW o \in Operators, NEW v \in VolumeIds, NEW n \in Sizes, ResizeVolume(o, v, n)
      PROVE  Asked'
  <2>1. /\ v \in Live /\ Resizable(vols[v], n) /\ Reported(vols[v]) /\ UNCHANGED vols
        /\ calls' = [calls EXCEPT ![o] = [kind |-> "resize", vol |-> v, size |-> n]]
    BY <1>4 DEF ResizeVolume, Orderly
  <2>2. vols[v] \in Row /\ Sound(vols[v]) /\ (vols[v].status = "pending" <=> vols[v].host = None)
    BY <2>1, RowsAreRows DEF Sized, Typed, TypeOK
  <2>3. vols[v].status = "attached" /\ CaughtUp(vols[v]) /\ n > vols[v].desired
    BY <2>1, <2>2, RowTypes DEF Resizable, Sound, Drifting, CaughtUp, Reported
  <2>4. \A p \in Operators : p = o /\ calls'[p] = [kind |-> "resize", vol |-> v, size |-> n]
    BY <2>1 DEF Orderly, Typed
  <2> QED
    BY <2>1, <2>3, <2>4 DEF Asked, Live
<1>5. ASSUME NEW o \in Operators, NEW v \in VolumeIds, RevertVolume(o, v)
      PROVE  Asked'
  <2>1. calls' = [calls EXCEPT ![o] = [kind |-> "revert", vol |-> v]]
    BY <1>5 DEF RevertVolume
  <2>2. \A p \in Operators : calls'[p].kind = "revert"
    BY <2>1 DEF Orderly, Typed
  <2> QED
    BY <2>2 DEF Asked
<1>6. ASSUME NEW o \in Operators, UpdateVolumeSize(o) \/ RevertVolumeSize(o)
      PROVE  Asked'
  <2>1. calls' = [calls EXCEPT ![o] = NoCall]
    BY <1>6, Writing
  <2>2. \A p \in Operators : calls'[p] = NoCall
    BY <2>1 DEF Orderly, Typed
  <2> QED
    BY <2>2 DEF Asked, NoCall
<1>7. ASSUME NEW h \in Hosts, NEW v \in VolumeIds, ReportVolume(h, v)
      PROVE  Asked'
  <2>1. /\ v \in Live /\ vols[v].host = h /\ disks[h][v] > 0
        /\ Floor(vols[v]) <= disks[h][v] /\ disks[h][v] <= Committed(vols[v])
    BY <1>7, ReportFinds
  <2>2. /\ UNCHANGED calls /\ Live' = Live
        /\ \A u \in VolumeIds : u # v => vols'[u] = vols[u]
        /\ vols'[v].status = vols[v].status
        /\ vols'[v].desired = vols[v].desired /\ vols'[v].observed = disks[h][v]
    BY <1>7, Reporting
  <2>3. vols[v] \in Row /\ disks[h][v] \in Int
    BY <2>1, RowsAreRows DEF Typed, TypeOK
  <2>4. CaughtUp(vols[v]) => CaughtUp(vols'[v])
    BY <2>1, <2>2, <2>3, RowTypes DEF CaughtUp, Reported, Floor
  <2> QED
    BY <1>0, <2>2, <2>4 DEF Asked
<1>8. ASSUME NEW h \in Hosts,
             \/ AgentRestarts(h) \/ HostSilent(h) \/ HostBack(h) \/ PushState(h) \/ ApplyState(h)
             \/ \E v \in VolumeIds : Grow(h, v)
             \/ \E n \in -1 .. 1 : ReplicasMove(h, n)
      PROVE  Asked'
  <2>1. UNCHANGED <<vols, calls>>
    BY <1>8, Zenon DEF AgentRestarts, HostSilent, HostBack, PushState, ApplyState, Grow, ReplicasMove
  <2> QED
    BY <2>1 DEF Asked, Live
<1>9. CASE Elsewhere
  BY <1>4, <1>5, <1>8, <1>9, Zenon DEF Elsewhere
<1> QED
  BY <1>1, <1>2, <1>3, <1>6, <1>7, <1>9, Steps, Zenon

-----------------------------------------------------------------------------
(* What the agents hold.                                                   *)

LEMMA Bounds ==
    ASSUME NEW row \in Row, Sound(row)
    PROVE  /\ Floor(row) \in Int /\ Committed(row) \in Int
           /\ 0 < Floor(row) /\ Floor(row) <= Committed(row) /\ Committed(row) <= row.desired
BY RowTypes DEF Sound, Floor, Committed, Reported

LEMMA AgentTypes ==
    ASSUME Typed, NEW h \in Hosts, NEW v \in VolumeIds
    PROVE  /\ target[h][v] \in 0 .. MaxSize /\ target[h][v] \in Int /\ 0 <= target[h][v]
           /\ disks[h][v] \in 0 .. MaxSize /\ disks[h][v] \in Int /\ 0 <= disks[h][v]
           /\ wire[h] # NoState =>
                 wire[h][v] \in 0 .. MaxSize /\ wire[h][v] \in Int /\ 0 <= wire[h][v]
BY VolumesAssumption DEF Typed, TypeOK

\* A row may promise more, or require less, of the disks there are.
LEMMA HeldKept ==
    ASSUME Typed, Typed', Sized, Sized', Held, UNCHANGED <<wire, target, disks>>,
           \A v \in Live' :
              \/ \A h \in Hosts : /\ target[h][v] = 0 /\ disks[h][v] = 0
                                  /\ wire[h] # NoState => wire[h][v] = 0
              \/ /\ v \in Live
                 /\ \/ vols[v].host = None
                    \/ /\ vols'[v].host = vols[v].host
                       /\ Floor(vols'[v]) <= Floor(vols[v])
                       /\ Committed(vols[v]) <= Committed(vols'[v])
    PROVE  Held'
<1>1. ASSUME NEW h \in Hosts, NEW v \in Live', NEW x \in Int, x # 0, Within(x, v, h),
             v \in Live,
             \/ vols[v].host = None
             \/ /\ vols'[v].host = vols[v].host
                /\ Floor(vols'[v]) <= Floor(vols[v])
                /\ Committed(vols[v]) <= Committed(vols'[v])
      PROVE  vols'[v].host = h /\ Floor(vols'[v]) <= x /\ x <= Committed(vols'[v])
  <2>1. vols[v].host = h /\ Floor(vols[v]) <= x /\ x <= Committed(vols[v])
    BY <1>1 DEF Within
  <2>2. h # None
    BY VolumesAssumption
  <2>3. vols[v] \in Row /\ Sound(vols[v]) /\ vols'[v] \in Row /\ Sound(vols'[v])
    BY <1>1 DEF Sized, Typed, TypeOK, Live
  <2>4. /\ Floor(vols[v]) \in Int /\ Committed(vols[v]) \in Int
        /\ Floor(vols'[v]) \in Int /\ Committed(vols'[v]) \in Int
    BY <1>1, <2>3, Bounds
  <2> QED
    BY <1>1, <2>1, <2>2, <2>4
<1>2. ASSUME NEW h \in Hosts, NEW v \in VolumeIds
      PROVE  /\ Within(target[h][v], v, h)' /\ Within(disks[h][v], v, h)'
             /\ disks'[h][v] <= target'[h][v]
             /\ wire'[h] # NoState =>
                   Within(wire[h][v], v, h)' /\ (wire'[h][v] # 0 => target'[h][v] <= wire'[h][v])
  <2>1. /\ Within(target[h][v], v, h) /\ Within(disks[h][v], v, h)
        /\ disks[h][v] <= target[h][v]
        /\ wire[h] # NoState =>
              Within(wire[h][v], v, h) /\ (wire[h][v] # 0 => target[h][v] <= wire[h][v])
    BY DEF Held
  <2>2. /\ target[h][v] \in Int /\ disks[h][v] \in Int
        /\ wire[h] # NoState => wire[h][v] \in Int
    BY AgentTypes
  <2>3. ASSUME NEW x \in Int, Within(x, v, h), x = target[h][v] \/ x = disks[h][v]
                  \/ (wire[h] # NoState /\ x = wire[h][v])
        PROVE  x # 0 /\ v \in Live' =>
                  vols'[v].host = h /\ Floor(vols'[v]) <= x /\ x <= Committed(vols'[v])
    BY <1>1, <2>3
  <2>4. /\ Within(target[h][v], v, h)' /\ Within(disks[h][v], v, h)'
        /\ wire'[h] # NoState => Within(wire[h][v], v, h)'
    BY <2>1, <2>2, <2>3 DEF Within
  <2> QED
    BY <2>1, <2>4
<1> QED
  BY <1>2 DEF Held

LEMMA HeldStep ==
    ASSUME Typed, Typed', PlacedOnce, Sized, Sized', Asked, Held, Next
    PROVE  Held'
<1>1. CASE UNCHANGED <<vols, wire, target, disks>>
  BY <1>1 DEF Held, Within, Live
<1>2. ASSUME NEW v \in Live, UNCHANGED <<wire, target, disks>>, Live' = Live,
             \A u \in VolumeIds : u # v => vols'[u] = vols[u],
             \/ vols[v].host = None
             \/ /\ vols'[v].host = vols[v].host
                /\ Floor(vols'[v]) <= Floor(vols[v])
                /\ Committed(vols[v]) <= Committed(vols'[v])
      PROVE  Held'
  <2>1. ASSUME NEW u \in Live', u # v
        PROVE  /\ u \in Live /\ vols'[u].host = vols[u].host
               /\ Floor(vols'[u]) <= Floor(vols[u]) /\ Committed(vols[u]) <= Committed(vols'[u])
    <3>1. u \in Live /\ vols'[u] = vols[u] /\ vols[u] \in Row /\ Sound(vols[u])
      BY <1>2, <2>1, RowsAreRows DEF Live, Sized
    <3>2. Floor(vols[u]) \in Int /\ Committed(vols[u]) \in Int
      BY <3>1, Bounds
    <3> QED
      BY <3>1, <3>2
  <2> QED
    BY <1>2, <2>1, HeldKept
<1>3. CASE Commit
  <2>1. PICK i \in intents : \/ AssignVolumeHost(i) \/ MarkVolumeResizePending(i)
                             \/ MarkVolumeResizing(i) \/ MarkVolumeAttached(i)
    BY <1>3 DEF Commit
  <2>2. /\ UNCHANGED <<wire, target, disks>> /\ Live' = Live
        /\ \A v \in VolumeIds : v # i.vol => vols'[v] = vols[v]
    BY <2>1, Committing
  <2>3. CASE i.vol \notin Live
    <3>1. \A v \in Live : vols'[v] = vols[v]
      BY <2>2, <2>3 DEF Live
    <3> QED
      BY <2>2, <3>1 DEF Held, Within
  <2>4. CASE i.vol \in Live
    <3>1. vols[i.vol] \in Row /\ Sound(vols[i.vol])
      BY <2>4, RowsAreRows DEF Sized
    <3>2. CASE AssignVolumeHost(i)
      <4>1. vols[i.vol].host = None
        BY <2>4, <3>2, CommitRow DEF PlacedOnce
      <4> QED
        BY <1>2, <2>2, <2>4, <4>1
    <3>3. CASE MarkVolumeResizePending(i) \/ MarkVolumeResizing(i) \/ MarkVolumeAttached(i)
      <4>1. /\ vols'[i.vol].desired = vols[i.vol].desired
            /\ vols'[i.vol].observed = vols[i.vol].observed
            /\ vols'[i.vol].host = vols[i.vol].host
            /\ \/ vols'[i.vol].status = vols[i.vol].status
               \/ /\ vols[i.vol].status = "attached" /\ Drifting(vols[i.vol])
                  /\ vols'[i.vol].status = "resize_pending"
               \/ Drifting(vols[i.vol]) /\ vols'[i.vol].status = "resizing"
               \/ CaughtUp(vols[i.vol]) /\ vols'[i.vol].status = "attached"
        BY <2>4, <3>3, CommitRow
      <4>2. /\ Floor(vols'[i.vol]) <= Floor(vols[i.vol])
            /\ Committed(vols[i.vol]) <= Committed(vols'[i.vol])
        BY <3>1, <4>1, RowTypes DEF Sound, Reported, Drifting, CaughtUp, Floor, Committed
      <4> QED
        BY <1>2, <2>2, <2>4, <4>1, <4>2
    <3> QED
      BY <2>1, <3>2, <3>3
  <2> QED
    BY <2>3, <2>4
<1>4. ASSUME NEW o \in Operators, NEW v \in VolumeIds, NEW n \in Sizes, AddVolume(o, v, n)
      PROVE  Held'
  <2>1. /\ UNCHANGED <<wire, target, disks>>
        /\ \A u \in VolumeIds : u # v => vols'[u] = vols[u]
        /\ \A h \in Hosts : target[h][v] = 0 /\ (wire[h] # NoState => wire[h][v] = 0)
    BY <1>4 DEF AddVolume, Fresh, agentVars, Typed, TypeOK
  <2>2. \A h \in Hosts : disks[h][v] = 0
    <3>1. ASSUME NEW h \in Hosts PROVE disks[h][v] = 0
      BY <2>1, AgentTypes DEF Held
    <3> QED
      BY <3>1
  <2>3. ASSUME NEW h \in Hosts, NEW u \in VolumeIds, NEW x, x = 0 \/ u # v, Within(x, u, h)
        PROVE  Within(x, u, h)'
    BY <2>1, <2>3 DEF Within, Live
  <2>4. ASSUME NEW h \in Hosts, NEW u \in VolumeIds
        PROVE  /\ Within(target[h][u], u, h)' /\ Within(disks[h][u], u, h)'
               /\ disks'[h][u] <= target'[h][u]
               /\ wire'[h] # NoState =>
                     Within(wire[h][u], u, h)' /\ (wire'[h][u] # 0 => target'[h][u] <= wire'[h][u])
    BY <2>1, <2>2, <2>3 DEF Held, Within, Live
  <2> QED
    BY <2>4 DEF Held
<1>5. ASSUME NEW o \in Operators, NEW v \in VolumeIds, RemoveVolume(o, v)
      PROVE  Held'
  <2>1. /\ UNCHANGED <<wire, target, disks>> /\ Live' \subseteq Live
        /\ \A u \in Live' : vols'[u] = vols[u]
    BY <1>5 DEF RemoveVolume, agentVars, Live, Typed, TypeOK
  <2> QED
    BY <2>1 DEF Held, Within
<1>6. ASSUME NEW o \in Operators, UpdateVolumeSize(o) \/ RevertVolumeSize(o)
      PROVE  Held'
  <2>1. /\ UNCHANGED <<wire, target, disks>> /\ Live' = Live
        /\ \A u \in VolumeIds : u # calls[o].vol => vols'[u] = vols[u]
    BY <1>6, Writing
  <2>2. CASE calls[o].vol \notin Live
    <3>1. \A v \in Live : vols'[v] = vols[v]
      BY <2>1, <2>2 DEF Live
    <3> QED
      BY <2>1, <3>1 DEF Held, Within
  <2>3. CASE calls[o].vol \in Live
    <3>1. PICK v \in Live : v = calls[o].vol
      BY <2>3
    <3>2. vols[v] \in Row /\ Sound(vols[v])
      BY RowsAreRows DEF Sized
    <3>3. /\ vols'[v].host = vols[v].host /\ vols'[v].status = vols[v].status
          /\ vols'[v].observed = vols[v].observed
          /\ vols[v].status \in {"attached", "resize_pending"} \/ vols'[v].desired = vols[v].desired
          /\ vols[v].status = "attached" => Reported(vols[v]) \/ vols'[v].desired = vols[v].desired
      <4>1. CASE UpdateVolumeSize(o)
        BY <2>3, <3>1, <4>1, WriteRow DEF Asked, CaughtUp
      <4>2. CASE RevertVolumeSize(o)
        BY <2>3, <3>1, <4>2, WriteRow
      <4> QED
        BY <1>6, <4>1, <4>2
    <3>4. Floor(vols'[v]) <= Floor(vols[v]) /\ Committed(vols[v]) <= Committed(vols'[v])
      BY <3>2, <3>3, RowTypes DEF Sound, Reported, Floor, Committed
    <3> QED
      BY <1>2, <2>1, <3>1, <3>3, <3>4
  <2> QED
    BY <2>2, <2>3
<1>7. ASSUME NEW h \in Hosts, NEW v \in VolumeIds, ReportVolume(h, v)
      PROVE  Held'
  <2>1. /\ v \in Live /\ vols[v].host = h /\ disks[h][v] > 0
        /\ Floor(vols[v]) <= disks[h][v] /\ disks[h][v] <= Committed(vols[v])
    BY <1>7, ReportFinds
  <2>2. /\ UNCHANGED <<wire, target, disks>> /\ Live' = Live
        /\ \A u \in VolumeIds : u # v => vols'[u] = vols[u]
        /\ vols'[v].host = vols[v].host /\ vols'[v].status = vols[v].status
        /\ vols'[v].desired = vols[v].desired /\ vols'[v].observed = disks[h][v]
    BY <1>7, Reporting
  <2>3. /\ vols[v] \in Row /\ Sound(vols[v])
        /\ vols[v].status = "pending" <=> vols[v].host = None
    BY <2>1, RowsAreRows DEF Sized, Typed, TypeOK
  <2>4. disks[h][v] \in Int /\ h # None /\ vols[v].status \in Statuses
    BY <2>3, AgentTypes, RowTypes, VolumesAssumption
  <2>5. Floor(vols'[v]) = disks[h][v] /\ Committed(vols[v]) <= Committed(vols'[v])
    BY <2>1, <2>2, <2>3, <2>4, RowTypes DEF Sound, Reported, Floor, Committed, Statuses
  <2>6. Committed(vols[v]) \in Int /\ Committed(vols'[v]) \in Int
    <3>1. vols'[v] \in Row
      BY <2>1, <2>2 DEF Typed, TypeOK, Live
    <3>2. vols[v].desired \in Int /\ vols[v].observed \in Int
          /\ vols'[v].desired \in Int /\ vols'[v].observed \in Int
      BY <2>3, <3>1, RowTypes
    <3> QED
      BY <3>2 DEF Committed
  <2>7. ASSUME NEW g \in Hosts
        PROVE  /\ Within(target[g][v], v, g)' /\ Within(disks[g][v], v, g)'
               /\ wire[g] # NoState => Within(wire[g][v], v, g)'
    <3>1. /\ Within(target[g][v], v, g) /\ Within(disks[g][v], v, g)
          /\ disks[g][v] <= target[g][v]
          /\ wire[g] # NoState =>
                Within(wire[g][v], v, g) /\ (wire[g][v] # 0 => target[g][v] <= wire[g][v])
      BY DEF Held
    <3>2. /\ target[g][v] \in Int /\ disks[g][v] \in Int
          /\ wire[g] # NoState => wire[g][v] \in Int
      BY AgentTypes
    <3>3. target'[g][v] = target[g][v] /\ disks'[g][v] = disks[g][v] /\ wire'[g] = wire[g]
      BY <2>2
    <3>4. ASSUME NEW x \in Int, Within(x, v, g), x = 0 \/ g # h \/ disks[h][v] <= x
          PROVE  x # 0 /\ v \in Live' =>
                    vols'[v].host = g /\ Floor(vols'[v]) <= x /\ x <= Committed(vols'[v])
      BY <2>1, <2>2, <2>4, <2>5, <2>6, <3>4 DEF Within
    <3>5. /\ Within(target[g][v], v, g)' /\ Within(disks[g][v], v, g)'
      BY <2>4, <3>1, <3>2, <3>3, <3>4 DEF Within
    <3>6. wire[g] # NoState => Within(wire[g][v], v, g)'
      BY <2>4, <3>1, <3>2, <3>3, <3>4 DEF Within
    <3> QED
      BY <3>5, <3>6
  <2>8. ASSUME NEW g \in Hosts, NEW u \in VolumeIds, u # v
        PROVE  /\ Within(target[g][u], u, g)' /\ Within(disks[g][u], u, g)'
               /\ wire[g] # NoState => Within(wire[g][u], u, g)'
    BY <2>2, <2>8 DEF Held, Within, Live
  <2> QED
    BY <2>2, <2>7, <2>8 DEF Held
<1>8. ASSUME NEW h \in Hosts, PushState(h)
      PROVE  Held'
  <2>1. /\ wire' = [wire EXCEPT ![h] = HostState(h)] /\ UNCHANGED <<vols, target, disks>>
        /\ wire \in [Hosts -> [VolumeIds -> 0 .. MaxSize] \cup {NoState}]
    BY <1>8 DEF PushState, Typed
  <2>2. Live' = Live
    BY <2>1 DEF Live
  <2>3. ASSUME NEW v \in VolumeIds
        PROVE  /\ Within(HostState(h)[v], v, h)
               /\ HostState(h)[v] # 0 => target[h][v] <= HostState(h)[v]
    <3>1. CASE v \in On(h)
      <4>1. HostState(h)[v] = Committed(vols[v]) /\ v \in Live /\ vols[v].host = h
        BY <3>1 DEF HostState, On, volumeTargetSize
      <4>2. /\ Floor(vols[v]) \in Int /\ Committed(vols[v]) \in Int
            /\ 0 < Floor(vols[v]) /\ Floor(vols[v]) <= Committed(vols[v])
        BY <4>1, RowsAreRows, Bounds DEF Sized
      <4>3. Within(target[h][v], v, h) /\ target[h][v] \in Int /\ 0 <= target[h][v]
        BY AgentTypes DEF Held
      <4> QED
        BY <4>1, <4>2, <4>3 DEF Within
    <3>2. CASE v \notin On(h)
      BY <3>2 DEF HostState, Within
    <3> QED
      BY <3>1, <3>2
  <2>4. ASSUME NEW g \in Hosts, NEW v \in VolumeIds
        PROVE  /\ Within(target[g][v], v, g)' /\ Within(disks[g][v], v, g)'
               /\ disks'[g][v] <= target'[g][v]
               /\ wire'[g] # NoState =>
                     Within(wire[g][v], v, g)' /\ (wire'[g][v] # 0 => target'[g][v] <= wire'[g][v])
    <3>1. /\ Within(target[g][v], v, g)' /\ Within(disks[g][v], v, g)'
          /\ disks'[g][v] <= target'[g][v]
      BY <2>1, <2>2 DEF Held, Within
    <3>2. CASE g = h
      <4>1. wire'[g] = HostState(h)
        BY <2>1, <3>2
      <4> HIDE DEF HostState
      <4> QED
        BY <2>1, <2>2, <2>3, <3>1, <3>2, <4>1 DEF Within
    <3>3. CASE g # h
      <4>1. wire'[g] = wire[g]
        BY <2>1, <3>3
      <4> QED
        BY <2>1, <2>2, <3>1, <4>1 DEF Held, Within
    <3> QED
      BY <3>2, <3>3
  <2> QED
    BY <2>4 DEF Held
<1>9. ASSUME NEW h \in Hosts, ApplyState(h)
      PROVE  Held'
  <2>1. /\ wire[h] # NoState /\ target' = [target EXCEPT ![h] = wire[h]]
        /\ disks' = [disks EXCEPT ![h] = [v \in VolumeIds |->
               IF wire[h][v] = 0 \/ disks[h][v] = 0 THEN wire[h][v] ELSE disks[h][v]]]
        /\ wire' = [wire EXCEPT ![h] = NoState] /\ UNCHANGED vols
    BY <1>9 DEF ApplyState, Typed, TypeOK
  <2>2. /\ wire \in [Hosts -> [VolumeIds -> 0 .. MaxSize] \cup {NoState}]
        /\ target \in [Hosts -> [VolumeIds -> 0 .. MaxSize]]
        /\ disks \in [Hosts -> [VolumeIds -> 0 .. MaxSize]]
    BY DEF Typed, TypeOK
  <2>3. Live' = Live
    BY <2>1 DEF Live
  <2>4. ASSUME NEW g \in Hosts, NEW v \in VolumeIds
        PROVE  /\ Within(target[g][v], v, g)' /\ Within(disks[g][v], v, g)'
               /\ disks'[g][v] <= target'[g][v]
               /\ wire'[g] # NoState =>
                     Within(wire[g][v], v, g)' /\ (wire'[g][v] # 0 => target'[g][v] <= wire'[g][v])
    <3>1. CASE g = h
      <4>1. /\ target'[g][v] = wire[h][v] /\ wire'[g] = NoState
            /\ disks'[g][v] = wire[h][v]
               \/ (disks'[g][v] = disks[h][v] /\ wire[h][v] # 0 /\ disks[h][v] # 0)
        BY <2>1, <2>2, <3>1
      <4>2. /\ Within(wire[h][v], v, h) /\ (wire[h][v] # 0 => target[h][v] <= wire[h][v])
            /\ Within(disks[h][v], v, h) /\ disks[h][v] <= target[h][v]
        BY <2>1 DEF Held
      <4>3. /\ target[h][v] \in Int /\ disks[h][v] \in Int /\ wire[h][v] \in Int
        BY <2>1, AgentTypes
      <4> QED
        BY <2>1, <2>3, <3>1, <4>1, <4>2, <4>3 DEF Within
    <3>2. CASE g # h
      <4>1. target'[g] = target[g] /\ disks'[g] = disks[g] /\ wire'[g] = wire[g]
        BY <2>1, <2>2, <3>2
      <4> QED
        BY <2>1, <2>3, <4>1 DEF Held, Within
    <3> QED
      BY <3>1, <3>2
  <2> QED
    BY <2>4 DEF Held
<1>10. ASSUME NEW h \in Hosts, NEW v \in VolumeIds, Grow(h, v)
       PROVE  Held'
  <2>1. /\ disks' = [disks EXCEPT ![h][v] = target[h][v]] /\ UNCHANGED <<vols, wire, target>>
        /\ disks \in [Hosts -> [VolumeIds -> 0 .. MaxSize]]
    BY <1>10 DEF Grow, Typed, TypeOK
  <2>2. ASSUME NEW g \in Hosts, NEW u \in VolumeIds
        PROVE  disks'[g][u] = disks[g][u] \/ disks'[g][u] = target[g][u]
    BY <2>1
  <2>3. ASSUME NEW g \in Hosts, NEW u \in VolumeIds
        PROVE  target[g][u] \in Int
    BY AgentTypes
  <2> QED
    BY <2>1, <2>2, <2>3 DEF Held, Within, Live
<1>11. ASSUME NEW h \in Hosts, AgentRestarts(h)
       PROVE  Held'
  <2>1. /\ wire' = [wire EXCEPT ![h] = NoState] /\ target' = [target EXCEPT ![h] = NoDisks]
        /\ disks' = [disks EXCEPT ![h] = NoDisks] /\ UNCHANGED vols
        /\ wire \in [Hosts -> [VolumeIds -> 0 .. MaxSize] \cup {NoState}]
        /\ target \in [Hosts -> [VolumeIds -> 0 .. MaxSize]]
        /\ disks \in [Hosts -> [VolumeIds -> 0 .. MaxSize]]
    BY <1>11 DEF AgentRestarts, Typed, TypeOK
  <2>2. ASSUME NEW g \in Hosts, NEW v \in VolumeIds
        PROVE  \/ target'[g][v] = 0 /\ disks'[g][v] = 0 /\ wire'[g] = NoState
               \/ target'[g] = target[g] /\ disks'[g] = disks[g] /\ wire'[g] = wire[g]
    BY <2>1 DEF NoDisks
  <2> QED
    BY <2>1, <2>2 DEF Held, Within, Live
<1>12. ASSUME NEW h \in Hosts,
              HostSilent(h) \/ HostBack(h) \/ \E n \in -1 .. 1 : ReplicasMove(h, n)
       PROVE  Held'
  <2>1. UNCHANGED <<vols, wire, target, disks>>
    BY <1>12, Zenon DEF HostSilent, HostBack, ReplicasMove, agentVars
  <2> QED
    BY <1>1, <2>1
<1>13. ASSUME NEW o \in Operators, NEW v \in VolumeIds,
              RevertVolume(o, v) \/ \E n \in Sizes : ResizeVolume(o, v, n)
       PROVE  Held'
  <2>1. UNCHANGED <<vols, wire, target, disks>>
    BY <1>13 DEF RevertVolume, ResizeVolume, agentVars
  <2> QED
    BY <1>1, <2>1
<1>14. CASE Plan \/ AbandonPass
  BY <1>1, <1>14 DEF Plan, AbandonPass, agentVars
<1>15. CASE Elsewhere
  BY <1>8, <1>9, <1>10, <1>11, <1>12, <1>13, <1>15, Zenon DEF Elsewhere
<1> QED
  BY <1>3, <1>4, <1>5, <1>6, <1>7, <1>14, <1>15, Steps, Zenon

-----------------------------------------------------------------------------
(* The bytes on a host.                                                    *)

LEMMA BytesFinite ==
    ASSUME NEW S \in SUBSET VolumeIds, NEW size
    PROVE  IsFiniteSet(Bytes(S, size)) /\ Cardinality(Bytes(S, size)) \in Nat
<1>1. IsFiniteSet(S)
  BY VolumesAssumption, FS_Subset
<1>2. IsFiniteSet(Sizes)
  BY VolumesAssumption, FS_Interval DEF Sizes
<1>3. IsFiniteSet(S \X Sizes)
  BY <1>1, <1>2, FS_Product
<1>4. Bytes(S, size) \subseteq S \X Sizes
  BY DEF Bytes
<1> QED
  BY <1>3, <1>4, FS_Subset, FS_CardinalityType

\* Fewer volumes, or smaller ones, take no more bytes.
LEMMA BytesSubset ==
    ASSUME NEW S, NEW T, S \subseteq T, NEW f, NEW g,
           \A v \in S : f[v] \in Int /\ g[v] \in Int /\ f[v] <= g[v]
    PROVE  Bytes(S, f) \subseteq Bytes(T, g)
<1> SUFFICES ASSUME NEW b \in Bytes(S, f)
             PROVE  b \in Bytes(T, g)
  OBVIOUS
<1>1. b \in S \X Sizes /\ b[2] <= f[b[1]]
  BY DEF Bytes
<1>2. b[1] \in S /\ b[2] \in Int
  BY <1>1 DEF Sizes
<1>3. b \in T \X Sizes /\ b[2] <= g[b[1]]
  BY <1>1, <1>2
<1> QED
  BY <1>3 DEF Bytes

LEMMA BytesFewer ==
    ASSUME NEW S, NEW T \in SUBSET VolumeIds, S \subseteq T, NEW f, NEW g,
           \A v \in S : f[v] \in Int /\ g[v] \in Int /\ f[v] <= g[v]
    PROVE  Cardinality(Bytes(S, f)) <= Cardinality(Bytes(T, g))
BY BytesSubset, BytesFinite, FS_Subset

\* Three sets hold at most the sum of what they hold.
LEMMA ThreeSets ==
    ASSUME NEW A, NEW B, NEW C, IsFiniteSet(A), IsFiniteSet(B), IsFiniteSet(C),
           NEW D, D \subseteq A \cup B \cup C
    PROVE  Cardinality(D) <= Cardinality(A) + Cardinality(B) + Cardinality(C)
<1>1. /\ IsFiniteSet(A \cup B)
      /\ Cardinality(A \cup B) = Cardinality(A) + Cardinality(B) - Cardinality(A \cap B)
  BY FS_Union
<1>2. /\ IsFiniteSet((A \cup B) \cup C)
      /\ Cardinality((A \cup B) \cup C)
            = Cardinality(A \cup B) + Cardinality(C) - Cardinality((A \cup B) \cap C)
  BY <1>1, FS_Union
<1>3. IsFiniteSet(A \cap B) /\ IsFiniteSet((A \cup B) \cap C)
  BY FS_Intersection
<1>4. /\ Cardinality(A) \in Nat /\ Cardinality(B) \in Nat /\ Cardinality(C) \in Nat
      /\ Cardinality(A \cap B) \in Nat /\ Cardinality((A \cup B) \cap C) \in Nat
  BY <1>3, FS_CardinalityType
<1>5. Cardinality(D) \in Nat /\ Cardinality(D) <= Cardinality((A \cup B) \cup C)
  BY <1>2, FS_Subset, FS_CardinalityType
<1> QED
  BY <1>1, <1>2, <1>4, <1>5

-----------------------------------------------------------------------------
(* The budget, with what a pass has promised and not yet committed.        *)

\* The volumes of a host, those on their way to it included.
Bound(h) == On(h) \cup {v \in hostless : \E i \in intents : i.kind = "place" /\ i.vol = v /\ i.host = h}

\* The size a volume is promised, a grow on its way to approval included.
Promise(v) == IF \E i \in intents : i.kind = "resize" /\ i.vol = v
              THEN vols[v].desired ELSE Committed(vols[v])

promised == [v \in Live |-> Promise(v)]

Budgeted == \A h \in Hosts : Cardinality(Bytes(Bound(h), promised)) <= Budget

\* What an agent was told, and is about to be told, fits its disk.
Fits ==
    \A h \in Hosts :
        /\ Cardinality(Bytes(VolumeIds, target[h])) <= Budget
        /\ wire[h] # NoState => Cardinality(Bytes(VolumeIds, wire[h])) <= Budget

LEMMA PromiseBounds ==
    ASSUME Typed, Sized, NEW v \in Live
    PROVE  /\ Promise(v) \in Int /\ Committed(vols[v]) \in Int /\ vols[v].desired \in Int
           /\ Committed(vols[v]) <= Promise(v) /\ Promise(v) <= vols[v].desired
<1>1. vols[v] \in Row /\ Sound(vols[v])
  BY RowsAreRows DEF Sized
<1> QED
  BY <1>1, Bounds, RowTypes DEF Promise

LEMMA BoundVolumes ==
    ASSUME NEW h
    PROVE  Bound(h) \subseteq Live /\ On(h) \subseteq Bound(h) /\ Live \subseteq VolumeIds
BY DEF Bound, On, hostless, Live

\* The promises imply the property.
LEMMA BudgetedImplies == Typed /\ Sized /\ Budgeted => BudgetRespected
<1> SUFFICES ASSUME Typed, Sized, Budgeted, NEW h \in Hosts
             PROVE  Cardinality(Bytes(On(h), committed)) <= Budget
  BY DEF BudgetRespected
<1>1. \A v \in On(h) : committed[v] \in Int /\ promised[v] \in Int /\ committed[v] <= promised[v]
  BY PromiseBounds, BoundVolumes DEF committed, promised
<1>2. On(h) \subseteq Bound(h) /\ Bound(h) \in SUBSET VolumeIds
  BY BoundVolumes
<1>3. Cardinality(Bytes(On(h), committed)) <= Cardinality(Bytes(Bound(h), promised))
  BY <1>1, <1>2, BytesFewer
<1>4. Cardinality(Bytes(On(h), committed)) \in Nat /\ Cardinality(Bytes(Bound(h), promised)) \in Nat
  BY <1>2, BytesFinite
<1> QED
  BY <1>3, <1>4, VolumesAssumption DEF Budgeted

\* A step that binds no volume to a host, and promises none more, keeps it.
LEMMA BudgetKept ==
    ASSUME Typed, Typed', Sized, Sized', Budgeted,
           \A h \in Hosts : \A v \in VolumeIds : v \in Bound(h)' =>
               v \in Bound(h) /\ Promise(v)' <= Promise(v)
    PROVE  Budgeted'
<1> SUFFICES ASSUME NEW h \in Hosts
             PROVE  Cardinality(Bytes(Bound(h)', promised')) <= Budget
  BY DEF Budgeted
<1>1. Bound(h)' \subseteq Live' /\ Live' \subseteq VolumeIds
  BY DEF Bound, On, hostless, Live
<1>2. \A v \in Live' : Promise(v)' \in Int
  <2>1. \A v \in Live : Promise(v) \in Int
    BY PromiseBounds
  <2> SUFFICES ASSUME NEW v \in Live' PROVE Promise(v)' \in Int
    OBVIOUS
  <2>2. vols'[v] \in Row
    BY DEF Typed, TypeOK, Live
  <2> QED
    BY <2>2, RowTypes DEF Promise, Committed
<1>3. \A v \in Bound(h)' : /\ promised'[v] = Promise(v)' /\ promised[v] = Promise(v)
                           /\ Promise(v) \in Int /\ v \in Bound(h) /\ Promise(v)' <= Promise(v)
  BY <1>1, BoundVolumes, PromiseBounds DEF promised
<1>4. Bound(h)' \subseteq Bound(h) /\ Bound(h) \in SUBSET VolumeIds
  BY <1>3, BoundVolumes
<1>5. Cardinality(Bytes(Bound(h)', promised')) <= Cardinality(Bytes(Bound(h), promised))
  BY <1>1, <1>2, <1>3, <1>4, BytesFewer
<1>6. /\ Cardinality(Bytes(Bound(h), promised)) \in Nat
      /\ Cardinality(Bytes(Bound(h)', promised')) \in Nat
  BY <1>1, <1>4, BytesFinite
<1> QED
  BY <1>5, <1>6, VolumesAssumption DEF Budgeted

\* What a pass adds fits in what it found.
LEMMA PlanBudget ==
    ASSUME Typed, Sized, Budgeted, Plan
    PROVE  Budgeted'
<1> SUFFICES ASSUME NEW h \in Hosts
             PROVE  Cardinality(Bytes(Bound(h)', promised')) <= Budget
  BY DEF Budgeted
<1>1. PICK p \in placeVolumes : \E grows \in resizeVolumes(p) : intents' = planVolumes(p, grows)
  BY DEF Plan
<1>2. PICK grows \in resizeVolumes(p) : intents' = planVolumes(p, grows)
  BY <1>1
<1>3. UNCHANGED vols /\ Live' = Live
  BY DEF Plan, Live
<1> DEFINE C == Bytes(On(h), committed)
           L == Landing(p, h)
           G == Growing(grows, h)
<1>4. /\ p \in [hostless -> up \cup {None}] /\ grows \subseteq growable
      /\ hostless \subseteq Live /\ growable \subseteq Live /\ Live \subseteq VolumeIds
      /\ On(h) \subseteq Live
  BY DEF placeVolumes, resizeVolumes, hostless, growable, Live, On
<1>5. Bytes(Bound(h)', promised') \subseteq C \cup L \cup G
  <2> SUFFICES ASSUME NEW b \in Bytes(Bound(h)', promised')
               PROVE  b \in C \cup L \cup G
    OBVIOUS
  <2>1. b \in Bound(h)' \X Sizes /\ b[2] <= promised'[b[1]]
    BY DEF Bytes
  <2>2. PICK v, n : b = <<v, n>> /\ v \in Bound(h)' /\ n \in Sizes /\ n <= promised'[v]
    BY <2>1
  <2>3. v \in Live /\ v \in Live' /\ n \in Int
    BY <1>3, <2>2 DEF Bound, On, hostless, Live, Sizes
  <2>4. vols[v] \in Row /\ Sound(vols[v]) /\ promised'[v] = Promise(v)'
    BY <2>3, RowsAreRows DEF Sized, promised
  <2>5. /\ vols[v].desired \in Int /\ vols[v].observed \in Int /\ Committed(vols[v]) \in Int
        /\ Committed(vols[v]) <= vols[v].desired
    BY <2>4, Bounds, RowTypes
  <2>6. CASE \E i \in intents' : i.kind = "resize" /\ i.vol = v
    <3>1. v \in grows /\ v \in growable
      BY <1>2, <2>6, Decided
    <3>2. n <= vols[v].desired
      BY <1>3, <2>2, <2>4, <2>6 DEF Promise
    <3>3. v \in On(h)
      BY <1>3, <2>2, <3>1 DEF Bound, On, hostless, growable, Typed, TypeOK, Live
    <3>4. Committed(vols[v]) = vols[v].observed
      BY <3>1 DEF growable, Drifting, Committed
    <3>5. CASE n <= vols[v].observed
      BY <2>2, <2>3, <3>3, <3>4, <3>5 DEF Bytes, committed
    <3>6. CASE ~(n <= vols[v].observed)
      <4>1. v \in grows \cap On(h)
        BY <3>1, <3>3
      <4>2. b \in Bytes(grows \cap On(h), desired)
        BY <2>2, <2>3, <3>2, <4>1 DEF Bytes, desired
      <4>3. b \notin Bytes(grows \cap On(h), observed)
        BY <2>2, <2>3, <3>6 DEF Bytes, observed
      <4> QED
        BY <4>2, <4>3 DEF Growing
    <3> QED
      BY <3>5, <3>6
  <2>7. CASE ~\E i \in intents' : i.kind = "resize" /\ i.vol = v
    <3>1. n <= Committed(vols[v])
      BY <1>3, <2>2, <2>4, <2>7 DEF Promise
    <3>2. CASE v \in On(h)
      BY <2>2, <2>3, <3>1, <3>2 DEF Bytes, committed
    <3>3. CASE v \notin On(h)
      <4>1. v \in hostless /\ \E i \in intents' : i.kind = "place" /\ i.vol = v /\ i.host = h
        BY <1>3, <2>2, <3>3 DEF Bound, On, hostless
      <4>2. p[v] = h
        BY <1>2, <4>1, Decided
      <4>3. v \in {u \in hostless : p[u] = h} /\ n <= vols[v].desired
        BY <2>3, <2>5, <3>1, <4>1, <4>2
      <4> QED
        BY <2>2, <2>3, <4>3 DEF Landing, Bytes, desired
    <3> QED
      BY <3>2, <3>3
  <2> QED
    BY <2>6, <2>7
<1>6. IsFiniteSet(C) /\ Cardinality(C) \in Nat
  BY <1>4, BytesFinite
<1>7. IsFiniteSet(L) /\ Cardinality(L) \in Nat
  <2>1. {v \in hostless : p[v] = h} \in SUBSET VolumeIds
    BY <1>4
  <2> QED
    BY <2>1, BytesFinite DEF Landing
<1>8. IsFiniteSet(G) /\ Cardinality(G) \in Nat
  <2>1. grows \cap On(h) \in SUBSET VolumeIds
    BY <1>4
  <2>2. IsFiniteSet(Bytes(grows \cap On(h), desired))
    BY <2>1, BytesFinite
  <2>3. G \subseteq Bytes(grows \cap On(h), desired)
    BY DEF Growing
  <2> QED
    BY <2>2, <2>3, FS_Subset, FS_CardinalityType
<1>9. Cardinality(C) <= Budget
  BY BudgetedImplies DEF BudgetRespected
<1>10. h \in up => newLedger[h] = Budget - Cardinality(C)
  BY DEF newLedger
<1> HIDE DEF C
<1>11. CASE \E v \in grows : v \in On(h)
  <2>1. PICK v \in growable : v \in grows /\ v \in On(h) /\ vols[v].host = h
    BY <1>4, <1>11 DEF On
  <2>2. h \in up /\ newLedger[h] - Cardinality(L) - Cardinality(G) >= 0
    BY <2>1 DEF resizeVolumes
  <2>3. Cardinality(Bytes(Bound(h)', promised')) <= Cardinality(C) + Cardinality(L) + Cardinality(G)
    BY <1>5, <1>6, <1>7, <1>8, ThreeSets
  <2>4. Cardinality(Bytes(Bound(h)', promised')) \in Nat
    BY <1>3, BytesFinite DEF Bound, On, hostless, Live
  <2> HIDE DEF L, G
  <2> QED
    BY <1>6, <1>7, <1>8, <1>10, <2>2, <2>3, <2>4, VolumesAssumption
<1>12. CASE ~\E v \in grows : v \in On(h)
  <2>1. G = {}
    <3>1. grows \cap On(h) = {}
      BY <1>12
    <3> QED
      BY <3>1 DEF Growing, Bytes
  <2>2. CASE \E v \in hostless : p[v] = h
    <3>1. h \in up
      BY <1>4, <2>2, VolumesAssumption
    <3>2. newLedger[h] - Cardinality(L) >= Reserve
      BY <2>2, <3>1 DEF placeVolumes
    <3>3. Cardinality(Bytes(Bound(h)', promised')) <= Cardinality(C) + Cardinality(L) + Cardinality(G)
      BY <1>5, <1>6, <1>7, <1>8, ThreeSets
    <3>4. Cardinality(Bytes(Bound(h)', promised')) \in Nat /\ Cardinality(G) = 0
      BY <1>3, <2>1, BytesFinite, FS_EmptySet DEF Bound, On, hostless, Live
    <3> HIDE DEF L, G
    <3> QED
      BY <1>6, <1>7, <1>8, <1>10, <3>1, <3>2, <3>3, <3>4, VolumesAssumption
  <2>3. CASE ~\E v \in hostless : p[v] = h
    <3>1. L = {}
      <4>1. {v \in hostless : p[v] = h} = {}
        BY <2>3
      <4> QED
        BY <4>1 DEF Landing, Bytes
    <3>2. Bytes(Bound(h)', promised') \subseteq C
      BY <1>5, <2>1, <3>1
    <3>3. Cardinality(Bytes(Bound(h)', promised')) <= Cardinality(C)
      BY <1>6, <3>2, FS_Subset
    <3>4. Cardinality(Bytes(Bound(h)', promised')) \in Nat
      BY <1>3, BytesFinite DEF Bound, On, hostless, Live
    <3> QED
      BY <1>6, <1>9, <3>3, <3>4, VolumesAssumption
  <2> QED
    BY <2>2, <2>3
<1> QED
  BY <1>11, <1>12

\* A volume whose row and intents stay as they are is bound and promised as before.
LEMMA SamePromise ==
    ASSUME NEW v \in VolumeIds, vols'[v] = vols[v], intents' \subseteq intents,
           \A i \in intents : i.vol = v => i \in intents', NEW h \in Hosts, v \in Bound(h)',
           v \in Live => Promise(v) \in Int
    PROVE  v \in Bound(h) /\ Promise(v)' <= Promise(v)
<1>1. v \in Bound(h) /\ v \in Live
  BY DEF Bound, On, hostless, Live
<1>2. Promise(v)' = Promise(v)
  BY DEF Promise
<1> QED
  BY <1>1, <1>2

LEMMA BudgetedStep ==
    ASSUME Typed, Typed', PlacedOnce, Sized, Sized', Judged, Asked, Held, Budgeted, Next
    PROVE  Budgeted'
<1>0. \A v \in Live : /\ v \in VolumeIds /\ Promise(v) \in Int /\ Committed(vols[v]) \in Int
                      /\ Committed(vols[v]) <= Promise(v) /\ vols[v] \in Row /\ Sound(vols[v])
  BY PromiseBounds, RowsAreRows DEF Live, Sized
<1>1. CASE UNCHANGED <<vols, intents>>
  BY <1>0, <1>1, SamePromise, BudgetKept
<1>2. ASSUME NEW w \in Live, intents' \subseteq intents,
             \A v \in VolumeIds : v # w =>
                vols'[v] = vols[v] /\ \A i \in intents : i.vol = v => i \in intents',
             \A h \in Hosts : w \in Bound(h)' => w \in Bound(h),
             Promise(w)' <= Promise(w)
      PROVE  Budgeted'
  BY <1>0, <1>2, SamePromise, BudgetKept
<1>3. CASE Commit
  <2>1. PICK i \in intents : \/ AssignVolumeHost(i) \/ MarkVolumeResizePending(i)
                             \/ MarkVolumeResizing(i) \/ MarkVolumeAttached(i)
    BY <1>3 DEF Commit
  <2>2. /\ intents' = intents \ {i} /\ Live' = Live
        /\ \A v \in VolumeIds : v # i.vol => vols'[v] = vols[v]
    BY <2>1, Committing
  <2>3. \A j \in intents' : j.vol # i.vol
    BY <2>2 DEF PlacedOnce
  <2>4. CASE i.vol \notin Live
    <3>1. \A v \in VolumeIds : \A h \in Hosts : v \in Bound(h)' => v # i.vol
      BY <2>2, <2>4 DEF Bound, On, hostless
    <3>2. ASSUME NEW h \in Hosts, NEW v \in VolumeIds, v \in Bound(h)'
          PROVE  v \in Bound(h) /\ Promise(v)' <= Promise(v)
      <4>1. v # i.vol
        BY <3>1, <3>2
      <4>2. vols'[v] = vols[v] /\ intents' \subseteq intents
            /\ \A j \in intents : j.vol = v => j \in intents'
        BY <2>2, <4>1
      <4> QED
        BY <1>0, <3>2, <4>2, SamePromise
    <3> QED
      BY <3>2, BudgetKept
  <2>5. CASE i.vol \in Live
    <3>1. PICK w \in Live : w = i.vol
      BY <2>5
    <3>2. vols[w] \in Row /\ Sound(vols[w]) /\ Committed(vols[w]) <= Promise(w)
          /\ Committed(vols[w]) \in Int /\ Promise(w) \in Int
      BY <1>0
    <3>3. Promise(w)' = Committed(vols'[w])
      BY <2>3, <3>1 DEF Promise
    <3>4. CASE AssignVolumeHost(i)
      <4>1. /\ vols'[w].desired = vols[w].desired /\ vols'[w].observed = vols[w].observed
            /\ vols'[w].host = i.host /\ vols'[w].status = "attached" /\ i.kind = "place"
        BY <2>5, <3>1, <3>4, CommitRow
      <4>2. vols[w].host = None /\ i.host # None
        BY <2>5, <3>1, <4>1, VolumesAssumption DEF PlacedOnce, Typed
      <4>3. Committed(vols'[w]) = Committed(vols[w])
        BY <3>2, <4>1, <4>2 DEF Sound, Committed, Reported
      <4>4. \A h \in Hosts : w \in Bound(h)' => w \in Bound(h)
        BY <3>1, <4>1, <4>2 DEF Bound, On, hostless
      <4> QED
        BY <1>2, <2>2, <3>1, <3>2, <3>3, <4>3, <4>4
    <3>5. CASE MarkVolumeResizePending(i) \/ MarkVolumeResizing(i) \/ MarkVolumeAttached(i)
      <4>1. /\ vols'[w].desired = vols[w].desired /\ vols'[w].observed = vols[w].observed
            /\ vols'[w].host = vols[w].host
            /\ \/ vols'[w].status = vols[w].status
               \/ /\ vols[w].status = "attached" /\ Drifting(vols[w])
                  /\ vols'[w].status = "resize_pending"
               \/ i.kind = "resize" /\ vols'[w].status = "resizing"
               \/ CaughtUp(vols[w]) /\ vols'[w].status = "attached"
        BY <2>5, <3>1, <3>5, CommitRow
      <4>2. Committed(vols'[w]) <= Promise(w)
        <5>1. i.kind = "resize" => Promise(w) = vols[w].desired
          BY <3>1 DEF Promise
        <5> QED
          BY <3>2, <4>1, <5>1, RowTypes DEF Sound, Committed, Reported, Drifting, CaughtUp
      <4>3. \A h \in Hosts : w \in Bound(h)' => w \in Bound(h)
        BY <2>2, <4>1 DEF Bound, On, hostless
      <4> QED
        BY <1>2, <2>2, <3>1, <3>3, <4>2, <4>3
    <3> QED
      BY <2>1, <3>4, <3>5
  <2> QED
    BY <2>4, <2>5
<1>4. CASE AbandonPass
  <2>1. UNCHANGED vols /\ intents' = {} /\ Live' = Live
    BY <1>4 DEF AbandonPass, Live
  <2>2. ASSUME NEW h \in Hosts, NEW v \in VolumeIds, v \in Bound(h)'
        PROVE  v \in Bound(h) /\ Promise(v)' <= Promise(v)
    <3>1. v \in Bound(h) /\ v \in Live
      BY <2>1, <2>2 DEF Bound, On, hostless, Live
    <3>2. Promise(v)' = Committed(vols[v])
      BY <2>1 DEF Promise
    <3> QED
      BY <1>0, <3>1, <3>2
  <2> QED
    BY <2>2, BudgetKept
<1>5. ASSUME NEW o \in Operators, NEW v \in VolumeIds, NEW n \in Sizes, AddVolume(o, v, n)
      PROVE  Budgeted'
  <2>1. /\ intents' = intents /\ \A i \in intents : i.vol # v
        /\ \A u \in VolumeIds : u # v => vols'[u] = vols[u]
        /\ vols'[v].host = None
    BY <1>5 DEF AddVolume, Fresh, Typed, TypeOK
  <2>2. ASSUME NEW h \in Hosts, NEW u \in VolumeIds, u \in Bound(h)'
        PROVE  u \in Bound(h) /\ Promise(u)' <= Promise(u)
    <3>1. u # v
      BY <2>1, <2>2, VolumesAssumption DEF Bound, On, hostless
    <3>2. vols'[u] = vols[u] /\ intents' \subseteq intents
          /\ \A i \in intents : i.vol = u => i \in intents'
      BY <2>1, <3>1
    <3> QED
      BY <1>0, <2>2, <3>2, SamePromise
  <2> QED
    BY <2>2, BudgetKept
<1>6. ASSUME NEW o \in Operators, NEW v \in VolumeIds, RemoveVolume(o, v)
      PROVE  Budgeted'
  <2>1. intents' = intents /\ v \notin Live' /\ \A u \in VolumeIds : u # v => vols'[u] = vols[u]
    BY <1>6 DEF RemoveVolume, Live, Typed, TypeOK
  <2>2. ASSUME NEW h \in Hosts, NEW u \in VolumeIds, u \in Bound(h)'
        PROVE  u \in Bound(h) /\ Promise(u)' <= Promise(u)
    <3>1. u # v
      BY <2>1, <2>2 DEF Bound, On, hostless
    <3>2. vols'[u] = vols[u] /\ intents' \subseteq intents
          /\ \A i \in intents : i.vol = u => i \in intents'
      BY <2>1, <3>1
    <3> QED
      BY <1>0, <2>2, <3>2, SamePromise
  <2> QED
    BY <2>2, BudgetKept
<1>7. ASSUME NEW o \in Operators, UpdateVolumeSize(o) \/ RevertVolumeSize(o)
      PROVE  Budgeted'
  <2>1. /\ UNCHANGED intents /\ Live' = Live
        /\ \A u \in VolumeIds : u # calls[o].vol => vols'[u] = vols[u]
    BY <1>7, Writing
  <2>2. CASE calls[o].vol \notin Live
    <3>1. \A h \in Hosts : calls[o].vol \notin Bound(h)'
      BY <2>1, <2>2 DEF Bound, On, hostless
    <3>2. ASSUME NEW h \in Hosts, NEW u \in VolumeIds, u \in Bound(h)'
          PROVE  u \in Bound(h) /\ Promise(u)' <= Promise(u)
      <4>1. u # calls[o].vol
        BY <3>1, <3>2
      <4>2. vols'[u] = vols[u] /\ intents' \subseteq intents
            /\ \A i \in intents : i.vol = u => i \in intents'
        BY <2>1, <4>1
      <4> QED
        BY <1>0, <3>2, <4>2, SamePromise
    <3> QED
      BY <3>2, BudgetKept
  <2>3. CASE calls[o].vol \in Live
    <3>1. PICK w \in Live : w = calls[o].vol
      BY <2>3
    <3>2. vols[w] \in Row /\ Sound(vols[w])
      BY <1>0
    <3>3. vols'[w].host = vols[w].host /\ vols'[w].status = vols[w].status
          /\ vols'[w].observed = vols[w].observed /\ vols'[w] \in Row
      BY <1>7, <2>3, <3>1, WriteRow
    <3>4. Promise(w)' <= Promise(w)
      <4>1. CASE UpdateVolumeSize(o)
        <5>1. vols[w].status = "attached" /\ CaughtUp(vols[w])
          BY <2>3, <3>1, <4>1, WriteRow DEF Asked
        <5>2. ~Drifting(vols[w])
          BY <3>2, <5>1, RowTypes DEF CaughtUp, Drifting
        <5>3. ~\E i \in intents : i.kind = "resize" /\ i.vol = w
          BY <5>1, <5>2 DEF Judged
        <5>4. Promise(w) = vols[w].observed /\ Promise(w)' = vols[w].observed
          BY <2>1, <3>3, <5>1, <5>3 DEF Promise, Committed, CaughtUp, Reported
        <5> QED
          BY <3>2, <5>4, RowTypes
      <4>2. CASE RevertVolumeSize(o)
        <5>1. \/ vols'[w].desired = vols[w].desired
              \/ /\ vols[w].status = "resize_pending" /\ vols[w].previous # 0
                 /\ vols'[w].desired = vols[w].previous
          BY <2>3, <3>1, <4>2, WriteRow
        <5>2. vols'[w].desired <= vols[w].desired /\ Committed(vols'[w]) = Committed(vols[w])
          BY <3>2, <3>3, <5>1, RowTypes DEF Sound, Drifting, Reported, Committed
        <5>3. vols[w].desired \in Int /\ vols'[w].desired \in Int /\ Committed(vols[w]) \in Int
          BY <1>0, <3>2, <3>3, RowTypes
        <5> QED
          BY <2>1, <5>2, <5>3 DEF Promise
      <4> QED
        BY <1>7, <4>1, <4>2
    <3>5. \A h \in Hosts : w \in Bound(h)' => w \in Bound(h)
      BY <2>1, <3>3 DEF Bound, On, hostless
    <3> QED
      BY <1>2, <2>1, <3>1, <3>4, <3>5
  <2> QED
    BY <2>2, <2>3
<1>8. ASSUME NEW h \in Hosts, NEW v \in VolumeIds, ReportVolume(h, v)
      PROVE  Budgeted'
  <2>1. /\ v \in Live /\ vols[v].host = h /\ disks[h][v] > 0
        /\ Floor(vols[v]) <= disks[h][v] /\ disks[h][v] <= Committed(vols[v])
    BY <1>8, ReportFinds
  <2>2. /\ UNCHANGED intents /\ Live' = Live
        /\ \A u \in VolumeIds : u # v => vols'[u] = vols[u]
        /\ vols'[v].host = vols[v].host /\ vols'[v].status = vols[v].status
        /\ vols'[v].desired = vols[v].desired /\ vols'[v].observed = disks[h][v]
    BY <1>8, Reporting
  <2>3. /\ vols[v] \in Row /\ Sound(vols[v]) /\ Promise(v) \in Int
        /\ Committed(vols[v]) \in Int /\ disks[h][v] \in Int
    BY <1>0, <2>1, AgentTypes
  <2>4. Committed(vols'[v]) = Committed(vols[v])
    BY <2>1, <2>2, <2>3, RowTypes DEF Sound, Reported, Floor, Committed
  <2>5. Promise(v)' = Promise(v)
    BY <2>2, <2>4 DEF Promise
  <2>6. \A g \in Hosts : v \in Bound(g)' => v \in Bound(g)
    BY <2>2 DEF Bound, On, hostless
  <2> QED
    BY <1>2, <2>1, <2>2, <2>3, <2>5, <2>6
<1>9. CASE Plan
  BY <1>9, PlanBudget
<1>10. CASE Elsewhere
  BY <1>1, <1>10, ElsewhereKeeps
<1> QED
  BY <1>3, <1>4, <1>5, <1>6, <1>7, <1>8, <1>9, <1>10, Steps, Zenon

\* A state that is sent tells what the control plane stands behind.
LEMMA StateFits ==
    ASSUME Typed, Sized, Budgeted, NEW h \in Hosts
    PROVE  Cardinality(Bytes(VolumeIds, HostState(h))) <= Budget
<1>1. Cardinality(Bytes(On(h), committed)) <= Budget
  BY BudgetedImplies DEF BudgetRespected
<1>2. Bytes(VolumeIds, HostState(h)) \subseteq Bytes(On(h), committed)
  <2> SUFFICES ASSUME NEW b \in Bytes(VolumeIds, HostState(h))
               PROVE  b \in Bytes(On(h), committed)
    OBVIOUS
  <2>1. PICK v \in VolumeIds, n \in Sizes : b = <<v, n>> /\ n <= HostState(h)[v]
    BY DEF Bytes
  <2>2. v \in On(h)
    BY <2>1 DEF HostState, Sizes
  <2>3. n <= committed[v]
    BY <2>1, <2>2 DEF HostState, volumeTargetSize, committed, On
  <2> QED
    BY <2>1, <2>2, <2>3 DEF Bytes
<1>3. On(h) \in SUBSET VolumeIds
  BY DEF On, Live
<1>4. /\ IsFiniteSet(Bytes(On(h), committed)) /\ Cardinality(Bytes(On(h), committed)) \in Nat
      /\ Cardinality(Bytes(VolumeIds, HostState(h))) \in Nat
  BY <1>3, BytesFinite
<1>5. Cardinality(Bytes(VolumeIds, HostState(h))) <= Cardinality(Bytes(On(h), committed))
  BY <1>2, <1>4, FS_Subset
<1> QED
  BY <1>1, <1>4, <1>5, VolumesAssumption

LEMMA FitsStep ==
    ASSUME Typed, Sized, Budgeted, Fits, Next
    PROVE  Fits'
<1>1. ASSUME UNCHANGED <<wire, target>>
      PROVE  Fits'
  BY <1>1 DEF Fits
<1>2. CASE Plan \/ Commit \/ AbandonPass
  <2>1. UNCHANGED agentVars
    BY <1>2, Zenon DEF Plan, Commit, AbandonPass, AssignVolumeHost, MarkVolumeResizePending,
                       MarkVolumeResizing, MarkVolumeAttached, Take
  <2> QED
    BY <1>1, <2>1 DEF agentVars
<1>3. CASE Operator
  <2>1. UNCHANGED agentVars
    BY <1>3, OperatorSteps, Zenon DEF AddVolume, ResizeVolume, RevertVolume, RemoveVolume,
                                      UpdateVolumeSize, RevertVolumeSize
  <2> QED
    BY <1>1, <2>1 DEF agentVars
<1>4. ASSUME NEW h \in Hosts, PushState(h)
      PROVE  Fits'
  <2>1. /\ wire' = [wire EXCEPT ![h] = HostState(h)] /\ UNCHANGED target
        /\ wire \in [Hosts -> [VolumeIds -> 0 .. MaxSize] \cup {NoState}]
    BY <1>4 DEF PushState, Typed
  <2>2. Cardinality(Bytes(VolumeIds, HostState(h))) <= Budget
    BY StateFits
  <2> HIDE DEF HostState
  <2> QED
    BY <2>1, <2>2 DEF Fits
<1>5. ASSUME NEW h \in Hosts, ApplyState(h)
      PROVE  Fits'
  <2>1. /\ wire[h] # NoState /\ target' = [target EXCEPT ![h] = wire[h]]
        /\ wire' = [wire EXCEPT ![h] = NoState]
        /\ wire \in [Hosts -> [VolumeIds -> 0 .. MaxSize] \cup {NoState}]
        /\ target \in [Hosts -> [VolumeIds -> 0 .. MaxSize]]
    BY <1>5 DEF ApplyState, Typed, TypeOK
  <2> QED
    BY <2>1 DEF Fits
<1>6. ASSUME NEW h \in Hosts, AgentRestarts(h)
      PROVE  Fits'
  <2>1. /\ wire' = [wire EXCEPT ![h] = NoState] /\ target' = [target EXCEPT ![h] = NoDisks]
        /\ wire \in [Hosts -> [VolumeIds -> 0 .. MaxSize] \cup {NoState}]
        /\ target \in [Hosts -> [VolumeIds -> 0 .. MaxSize]]
    BY <1>6 DEF AgentRestarts, Typed, TypeOK
  <2>2. Bytes(VolumeIds, NoDisks) = {}
    BY DEF Bytes, NoDisks, Sizes
  <2>3. Cardinality(Bytes(VolumeIds, NoDisks)) <= Budget
    BY <2>2, FS_EmptySet, VolumesAssumption
  <2> QED
    BY <2>1, <2>3 DEF Fits
<1>7. ASSUME NEW h \in Hosts, NEW v \in VolumeIds,
             HostSilent(h) \/ HostBack(h) \/ Grow(h, v) \/ ReportVolume(h, v)
      PROVE  Fits'
  <2>1. UNCHANGED <<wire, target>>
    BY <1>7, Zenon DEF HostSilent, HostBack, Grow, ReportVolume, agentVars
  <2> QED
    BY <1>1, <2>1
<1>8. ASSUME NEW h \in Hosts,
             HostSilent(h) \/ HostBack(h) \/ \E n \in -1 .. 1 : ReplicasMove(h, n)
      PROVE  Fits'
  <2>1. UNCHANGED <<wire, target>>
    BY <1>8, Zenon DEF HostSilent, HostBack, ReplicasMove, agentVars
  <2> QED
    BY <1>1, <2>1
<1> QED
  BY <1>2, <1>3, <1>4, <1>5, <1>6, <1>7, <1>8, Zenon DEF Next, Engine, Failures, Agent

-----------------------------------------------------------------------------
(* The theorems.                                                           *)

Inv == Typed /\ PlacedOnce /\ Sized /\ Judged /\ Asked /\ Held /\ Budgeted /\ Fits

LEMMA InvStart == Init => Inv
<1> SUFFICES ASSUME Init PROVE Inv
  OBVIOUS
<1>1. Typed /\ PlacedOnce
  BY TypedStart
<1>2. Live = {} /\ intents = {} /\ \A o \in Operators : calls[o] = NoCall
  BY DEF Init, Live
<1>3. Sized /\ Judged /\ Asked
  BY <1>2 DEF Sized, Judged, Asked, NoCall
<1>4. \A h \in Hosts : target[h] = NoDisks /\ disks[h] = NoDisks /\ wire[h] = NoState
  BY DEF Init
<1>5. Held
  BY <1>4 DEF Held, Within, NoDisks
<1>6. \A S, f : Cardinality(Bytes({}, f)) = 0
  BY FS_EmptySet DEF Bytes
<1>7. Budgeted
  <2>1. \A h \in Hosts : Bound(h) = {}
    BY <1>2 DEF Bound, On, hostless
  <2> QED
    BY <1>6, <2>1, VolumesAssumption DEF Budgeted
<1>8. Fits
  <2>1. Bytes(VolumeIds, NoDisks) = {}
    BY DEF Bytes, NoDisks, Sizes
  <2> QED
    BY <1>4, <2>1, FS_EmptySet, VolumesAssumption DEF Fits
<1> QED
  BY <1>1, <1>3, <1>5, <1>7, <1>8 DEF Inv

LEMMA InvStep == Orderly /\ Inv /\ [Next]_vars => Inv'
<1> SUFFICES ASSUME Orderly, Inv, [Next]_vars PROVE Inv'
  OBVIOUS
<1> USE DEF Inv
<1>1. CASE Next
  <2>1. Typed' /\ PlacedOnce'
    BY <1>1, TypedStep
  <2>2. Sized'
    BY <1>1, SizedStep
  <2>3. Judged' /\ Asked'
    BY <1>1, JudgedStep, AskedStep
  <2>4. Held'
    BY <1>1, <2>1, <2>2, HeldStep
  <2>5. Budgeted' /\ Fits'
    BY <1>1, <2>1, <2>2, BudgetedStep, FitsStep
  <2> QED
    BY <2>1, <2>2, <2>3, <2>4, <2>5
<1>2. CASE UNCHANGED vars
  <2>1. Typed' /\ PlacedOnce'
    BY TypedStep
  <2>2. UNCHANGED <<vols, intents, calls, wire, target, disks>>
    BY <1>2, Zenon DEF vars
  <2>3. Sized' /\ Judged' /\ Asked' /\ Held' /\ Fits'
    BY <2>2 DEF Sized, Judged, Asked, Held, Within, Fits, Live
  <2>4. Budgeted'
    BY <2>2, Zenon DEF Budgeted, Bound, On, hostless, promised, Promise, Live
  <2> QED
    BY <2>1, <2>3, <2>4
<1> QED
  BY <1>1, <1>2

LEMMA InvAlways == Orderly => (Spec => []Inv)
<1>1. Orderly /\ Inv /\ [Next]_vars => Inv'
  BY InvStep
<1>2. SUFFICES ASSUME Orderly PROVE Spec => []Inv
  OBVIOUS
<1>3. Inv /\ [Next]_vars => Inv'
  BY <1>1, <1>2
<1> QED
  BY <1>3, InvStart, PTL DEF Spec

\* No host is promised more than its disk has for volumes, whatever moves
\* between the snapshot a pass decides on and the transactions that commit it:
\* reports, reverts, removals, lost passes.
THEOREM PromisesFit == Orderly => (Spec => []BudgetRespected)
<1>1. Inv => BudgetRespected
  BY BudgetedImplies DEF Inv
<1> QED
  BY <1>1, InvAlways, PTL

\* What lies on a disk is at most what the agent was told last.
LEMMA DisksImplied ==
    ASSUME Typed, Held, Fits
    PROVE  DisksFit
<1> SUFFICES ASSUME NEW h \in Hosts
             PROVE  Cardinality(Bytes(VolumeIds, disks[h])) <= Budget
  BY DEF DisksFit
<1>1. \A v \in VolumeIds : /\ disks[h][v] \in Int /\ target[h][v] \in Int
                           /\ disks[h][v] <= target[h][v]
  BY AgentTypes DEF Held
<1>2. Cardinality(Bytes(VolumeIds, disks[h])) <= Cardinality(Bytes(VolumeIds, target[h]))
  BY <1>1, BytesFewer
<1>3. /\ Cardinality(Bytes(VolumeIds, disks[h])) \in Nat
      /\ Cardinality(Bytes(VolumeIds, target[h])) \in Nat
  BY BytesFinite
<1> QED
  BY <1>2, <1>3, VolumesAssumption DEF Fits

\* The disks an agent really holds never outgrow the host, although it works on
\* states older than the rows and keeps a removed volume until it hears of it.
THEOREM DisksNeverOverfill == Orderly => (Spec => []DisksFit)
<1>1. Inv => DisksFit
  BY DisksImplied DEF Inv
<1> QED
  BY <1>1, InvAlways, PTL

LEMMA ParkedImplied ==
    ASSUME Typed, Sized
    PROVE  ParkedCanRevert
<1> SUFFICES ASSUME NEW v \in Live, vols[v].status = "resize_pending", Drifting(vols[v])
             PROVE  vols[v].previous \in 1 .. vols[v].observed
  BY DEF ParkedCanRevert
<1>1. vols[v] \in Row /\ Sound(vols[v])
  BY RowsAreRows DEF Sized
<1> QED
  BY <1>1, RowTypes DEF Sound, Drifting, Reported

\* A grow that waits for room can be taken back to a size its disk already has.
THEOREM ParkedGrowsRevert == Orderly => (Spec => []ParkedCanRevert)
<1>1. Inv => ParkedCanRevert
  BY ParkedImplied DEF Inv
<1> QED
  BY <1>1, InvAlways, PTL
=============================================================================
