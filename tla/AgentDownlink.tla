---------------------------- MODULE AgentDownlink -----------------------------
(***************************************************************************)
(* The downlink of one host: how the rows the database holds for it reach  *)
(* its agent (internal/api/agentapi.go, internal/storage/notify.go, the    *)
(* notify triggers of db/migrations/00001) and what the agent makes of     *)
(* them (agentsim/agent.go).                                               *)
(*                                                                         *)
(* Every message is the whole state of the host.  It is read and pushed by *)
(* pushState, which runs on four kinds of goroutine at once: the LISTEN    *)
(* loop, the resync ticker, the hook of a new LISTEN and the opening of a  *)
(* session.  Notifications are lost while nobody listens, streams break    *)
(* and are replaced, reads fail, the apiserver restarts.                   *)
(*                                                                         *)
(* Data abstractions.  A host state is the phase of each replica the query *)
(* returns ("gone": no such row, on another host, or failed) and the       *)
(* target size of one volume (0: none). The agent's disk is the target it  *)
(* was given, a container runs or does not. The digest of a state is the   *)
(* state. A push into the mailbox of size one is a single step: pushMu     *)
(* leaves it one producer, and a push ends with exactly its own message in *)
(* the mailbox. Observations in flight are left to Rollout, whose reports  *)
(* may say anything; here a report lands as it is sent. What an agent has  *)
(* not read from a stream when it leaves it is lost: the reconnect delay   *)
(* outlasts the old receive loop.                                          *)
(***************************************************************************)
EXTENDS Integers, Sequences

CONSTANTS
    Replicas,
    MaxSize,    \* bound: size of the volume
    MaxWrites,  \* bound: changes of the host's rows by the control plane
    MaxFaults,  \* bound: broken streams and LISTENs, failed reads, restarts
    WireDepth,  \* bound: messages in flight on a stream (flow control)
    LateHello   \* whether the Hello of a stream its agent gave up may still arrive

ASSUME DownlinkAssumption ==
    /\ MaxSize \in Nat /\ MaxWrites \in Nat /\ MaxFaults \in Nat
    /\ WireDepth \in Nat \ {0}
    /\ LateHello \in BOOLEAN

VARIABLES
    rows, size,                  \* the host's state in the database
    listening, listens, notes,   \* LISTEN: up, times established, undelivered
    registered,                  \* sessions[host], or NoStream
    stage, lastHash, mailbox,    \* per stream: the Session handler and its agentSession
    pushMu,                      \* per stream: the pusher that holds it, or Nobody
    push,                        \* the running calls of pushState
    unread,                      \* streams owed a state by a failed read (history)
    wire, conn,                  \* messages in flight, the agent's own stream
    containers, disk,            \* the replicas the agent runs, its volume
    writes, faults

dbVars      == <<rows, size, writes>>
listenVars  == <<listening, listens, notes>>
agentVars   == <<conn, containers, disk>>
sessionVars == <<registered, stage, lastHash, mailbox, pushMu, unread>>
vars == <<rows, size, writes, listening, listens, notes, registered, stage, lastHash,
          mailbox, pushMu, push, unread, wire, conn, containers, disk, faults>>

-----------------------------------------------------------------------------
NoStream == 0
Streams  == 1 .. MaxFaults + 1      \* each break costs a fault
Nobody   == <<"nobody", 0>>
Pushers  == {<<"listener", 0>>, <<"resync", 0>>}
              \cup ({"opening", "relisten"} \X Streams)

Phases   == {"scheduling", "active", "draining"}
State    == [rows : [Replicas -> Phases \cup {"gone"}], size : 0 .. MaxSize]
NoDigest == <<>>                    \* the zero hash no state has

Idle == [at |-> "idle"]

\* A call of pushState.  The session is looked up as it starts (a look-up that
\* comes later only finds a newer session, which has an opening of its own);
\* without one it returns at once.
Call(p, force, s) ==
    push' = IF s = NoStream THEN push
            ELSE [push EXCEPT ![p] = [at |-> "lock", force |-> force, on |-> s]]

Fault == faults < MaxFaults /\ faults' = faults + 1

-----------------------------------------------------------------------------
(* The database.  Every write commits with its notification, which only a  *)
(* connection that is listening receives.                                  *)

Notify == notes' = IF listening THEN notes + 1 ELSE notes

\* Placed, drained, or taken off the host (reaped, moved, frozen).
WriteReplica(r, p) ==
    /\ writes < MaxWrites /\ writes' = writes + 1
    /\ \/ rows[r] = "gone" /\ p = "scheduling"
       \/ rows[r] \notin {"gone", "draining"} /\ p = "draining"
       \/ rows[r] # "gone" /\ p = "gone"
    /\ rows' = [rows EXCEPT ![r] = p]
    /\ Notify
    /\ UNCHANGED <<size, listening, listens, sessionVars, push, wire, agentVars, faults>>

WriteVolume(n) ==
    /\ writes < MaxWrites /\ writes' = writes + 1
    /\ size # n /\ size' = n
    /\ Notify
    /\ UNCHANGED <<rows, listening, listens, sessionVars, push, wire, agentVars, faults>>

-----------------------------------------------------------------------------
(* The LISTEN loop.                                                        *)

\* Every new LISTEN treats the host as changed: what was notified meanwhile
\* is gone.  pushAll takes the sessions of this moment.
Listen ==
    /\ ~listening /\ push[<<"listener", 0>>] = Idle
    /\ listens + 1 \in Streams
    /\ listening' = TRUE /\ listens' = listens + 1
    /\ Call(<<"relisten", listens + 1>>, TRUE, registered)
    /\ UNCHANGED <<dbVars, notes, sessionVars, wire, agentVars, faults>>

ListenDrops ==
    /\ listening /\ Fault
    /\ listening' = FALSE /\ notes' = 0
    /\ UNCHANGED <<dbVars, listens, sessionVars, push, wire, agentVars>>

OnChange ==
    /\ notes > 0 /\ push[<<"listener", 0>>] = Idle
    /\ notes' = notes - 1
    /\ Call(<<"listener", 0>>, FALSE, registered)
    /\ UNCHANGED <<dbVars, listening, listens, sessionVars, wire, agentVars, faults>>

Resync ==
    /\ registered # NoStream /\ push[<<"resync", 0>>] = Idle
    /\ Call(<<"resync", 0>>, TRUE, registered)
    /\ UNCHANGED <<dbVars, listenVars, sessionVars, wire, agentVars, faults>>

-----------------------------------------------------------------------------
(* pushState: lock the session, read the replicas, read the volumes,       *)
(* compare, push.                                                          *)

\* Seeded fault: no lock around read, compare and push.
ReadReplicasUnlocked(p) ==
    /\ push[p].at = "lock"
    /\ push' = [push EXCEPT ![p] =
           [at |-> "volumes", force |-> @.force, on |-> @.on, rows |-> rows]]
    /\ UNCHANGED <<dbVars, listenVars, sessionVars, wire, agentVars, faults>>

ReadReplicas(p) ==
    /\ push[p].at = "lock"
    /\ pushMu[push[p].on] = Nobody
    /\ pushMu' = [pushMu EXCEPT ![push[p].on] = p]
    /\ push' = [push EXCEPT ![p] =
           [at |-> "volumes", force |-> @.force, on |-> @.on, rows |-> rows]]
    /\ UNCHANGED <<dbVars, listenVars, registered, stage, lastHash, mailbox, unread,
                   wire, agentVars, faults>>

Unlock(s) == pushMu' = [pushMu EXCEPT ![s] = Nobody]

\* Seeded fault: a push queues behind the state it supersedes.
PushQueued(p) ==
    /\ push[p].at = "volumes"
    /\ LET s     == push[p].on
           state == [rows |-> push[p].rows, size |-> size]
       IN  /\ IF stage[s] = "gone" \/ (~push[p].force /\ lastHash[s] = <<state>>)
              THEN UNCHANGED <<lastHash, mailbox>>
              ELSE /\ lastHash' = [lastHash EXCEPT ![s] = <<state>>]
                   /\ mailbox'  = [mailbox EXCEPT ![s] = Append(@, state)]
           /\ Unlock(s)
    /\ push' = [push EXCEPT ![p] = Idle]
    /\ unread' = unread \ {push[p].on}
    /\ UNCHANGED <<dbVars, listenVars, registered, stage, wire, agentVars, faults>>

\* The mailbox is latest-wins.  What is pushed to a session that has ended is
\* seen by nobody.
PushState(p) ==
    /\ push[p].at = "volumes"
    /\ LET s     == push[p].on
           state == [rows |-> push[p].rows, size |-> size]
       IN  /\ IF stage[s] = "gone" \/ (~push[p].force /\ lastHash[s] = <<state>>)
              THEN UNCHANGED <<lastHash, mailbox>>
              ELSE /\ lastHash' = [lastHash EXCEPT ![s] = <<state>>]
                   /\ mailbox'  = [mailbox EXCEPT ![s] = <<state>>]
           /\ Unlock(s)
    /\ push' = [push EXCEPT ![p] = Idle]
    /\ unread' = unread \ {push[p].on}
    /\ UNCHANGED <<dbVars, listenVars, registered, stage, wire, agentVars, faults>>

ReadFails(p) ==
    /\ push[p].at = "volumes" /\ Fault
    /\ Unlock(push[p].on)
    /\ push' = [push EXCEPT ![p] = Idle]
    /\ unread' = unread \cup ({push[p].on} \ {s \in Streams : stage[s] = "gone"})
    /\ UNCHANGED <<dbVars, listenVars, registered, stage, lastHash, mailbox, wire, agentVars>>

-----------------------------------------------------------------------------
(* Sessions.                                                               *)

\* The agent dials again; its Hello is on the way.
Connect ==
    /\ conn = NoStream
    /\ \E s \in Streams :
          /\ stage[s] = "unborn" /\ \A q \in Streams : q < s => stage[q] # "unborn"
          /\ conn' = s
          /\ stage' = [stage EXCEPT ![s] = "hello"]
    /\ UNCHANGED <<dbVars, listenVars, registered, lastHash, mailbox, pushMu, unread, push,
                   wire, containers, disk, faults>>

\* Session: register, then the opening push.
Register(s) ==
    /\ stage[s] = "hello" /\ (conn = s \/ LateHello)
    /\ registered' = s
    /\ stage' = [stage EXCEPT ![s] = "open"]
    /\ Call(<<"opening", s>>, TRUE, s)
    /\ UNCHANGED <<dbVars, listenVars, lastHash, mailbox, pushMu, wire, agentVars, faults, unread>>

Serving(s) == stage[s] = "open" /\ push[<<"opening", s>>] = Idle

\* The downlink goroutine; on a stream nobody holds the message is lost.
Send(s) ==
    /\ Serving(s) /\ mailbox[s] # <<>>
    /\ conn = s => Len(wire) < WireDepth
    /\ wire' = IF conn = s THEN wire \o mailbox[s] ELSE wire
    /\ mailbox' = [mailbox EXCEPT ![s] = <<>>]
    /\ UNCHANGED <<dbVars, listenVars, registered, stage, lastHash, pushMu, unread,
                   push, agentVars, faults>>

\* Seeded fault: the old stream's handler drops whatever session is there.
UnregisterAny(s) == registered' = NoStream

unregister(s) == registered' = IF registered = s THEN NoStream ELSE registered

\* The handler sees that the agent hung up, before or after its Hello.
EndSession(s) ==
    /\ conn # s
    /\ \/ Serving(s) /\ unregister(s)
       \/ stage[s] = "hello" /\ UNCHANGED registered
    /\ stage' = [stage EXCEPT ![s] = "gone"]
    /\ lastHash' = [lastHash EXCEPT ![s] = NoDigest]
    /\ mailbox' = [mailbox EXCEPT ![s] = <<>>]
    /\ unread' = unread \ {s}
    /\ UNCHANGED <<dbVars, listenVars, pushMu, push, wire, agentVars, faults>>

-----------------------------------------------------------------------------
(* The agent.                                                              *)

\* The next messages of this stream are lost with it.  keep: a process that
\* restarts forgets what it ran.
HangUp(keep) ==
    /\ conn # NoStream /\ Fault
    /\ conn' = NoStream /\ wire' = <<>>
    /\ IF keep THEN UNCHANGED <<containers, disk>>
       ELSE containers' = {} /\ disk' = 0
    /\ UNCHANGED <<dbVars, listenVars, sessionVars, push>>

\* The apiserver goes and comes back: its sessions, its LISTEN and every call
\* in progress with it.
ServerRestarts ==
    /\ listens # 0 /\ Fault
    /\ listening' = FALSE /\ notes' = 0
    /\ registered' = NoStream
    /\ stage' = [s \in Streams |-> IF stage[s] = "unborn" THEN "unborn" ELSE "gone"]
    /\ pushMu' = [s \in Streams |-> Nobody]
    /\ push' = [p \in Pushers |-> Idle]
    /\ conn' = NoStream /\ wire' = <<>>
    /\ lastHash' = [s \in Streams |-> NoDigest]
    /\ mailbox' = [s \in Streams |-> <<>>]
    /\ unread' = {}
    /\ UNCHANGED <<dbVars, listens, containers, disk>>

\* Seeded fault: a container that is drained is left to run.
RunsWhileListed(state) ==
    {r \in Replicas : \/ state.rows[r] = "draining" /\ r \in containers
                      \/ state.rows[r] \notin {"gone", "draining"}}

\* applyState: scheduling starts a container, draining stops it, absence
\* removes it, any other phase is adopted, a known container runs on.
Runs(state) == {r \in Replicas : state.rows[r] \notin {"gone", "draining"}}

ApplyState ==
    /\ wire # <<>>
    /\ containers' = Runs(Head(wire)) /\ disk' = Head(wire).size
    /\ wire' = Tail(wire)
    /\ UNCHANGED <<dbVars, listenVars, sessionVars, push, conn, faults>>

\* report and RecordReplicaObservation: the row takes the phase the container
\* has come to; a retiring row keeps its own.
Report(r) ==
    /\ conn # NoStream
    /\ r \in containers /\ rows[r] = "scheduling"
    /\ rows' = [rows EXCEPT ![r] = "active"]
    /\ Notify
    /\ UNCHANGED <<size, writes, listening, listens, sessionVars, push, wire, agentVars, faults>>

-----------------------------------------------------------------------------
Init ==
    /\ rows \in [Replicas -> {"gone", "active"}] /\ size \in 0 .. MaxSize
    /\ listening = FALSE /\ listens = 0 /\ notes = 0
    /\ registered = NoStream
    /\ stage = [s \in Streams |-> "unborn"]
    /\ lastHash = [s \in Streams |-> NoDigest]
    /\ mailbox = [s \in Streams |-> <<>>]
    /\ pushMu = [s \in Streams |-> Nobody]
    /\ push = [p \in Pushers |-> Idle] /\ unread = {}
    /\ wire = <<>> /\ conn = NoStream
    /\ containers = {} /\ disk = 0
    /\ writes = 0 /\ faults = 0

Server == \/ Listen \/ OnChange \/ Resync
          \/ \E p \in Pushers : ReadReplicas(p) \/ PushState(p)
          \/ \E s \in Streams : Register(s) \/ Send(s) \/ EndSession(s)

Agent == Connect \/ ApplyState \/ \E r \in Replicas : Report(r)

Failures == \/ ListenDrops \/ ServerRestarts \/ \E keep \in BOOLEAN : HangUp(keep)
            \/ \E p \in Pushers : ReadFails(p)

Writers == \/ \E r \in Replicas, p \in Phases \cup {"gone"} : WriteReplica(r, p)
           \/ \E n \in 0 .. MaxSize : WriteVolume(n)

Next == Server \/ Agent \/ Failures \/ Writers

Spec == Init /\ [][Next]_vars

\* Every goroutine that can run does: the LISTEN loop, the ticker, the calls a
\* new LISTEN starts, each session's handler and its sender, the agent's own.
\* A handler that waits for pushMu gets it (sync.Mutex hands over to a waiter
\* that starves); a broken LISTEN or stream is dialled again and a dead stream
\* is noticed (keepalive).
PushSteps(p) == ReadReplicas(p) \/ PushState(p)

Fairness ==
    /\ WF_vars(Listen \/ OnChange \/ PushSteps(<<"listener", 0>>))
    /\ WF_vars(Resync \/ PushSteps(<<"resync", 0>>))
    /\ \A s \in Streams : /\ WF_vars(PushSteps(<<"relisten", s>>))
                          /\ SF_vars(Register(s) \/ EndSession(s) \/ PushSteps(<<"opening", s>>))
                          /\ WF_vars(Send(s))
    /\ WF_vars(Connect) /\ WF_vars(ApplyState)
    /\ \A r \in Replicas : WF_vars(Report(r))

FairSpec == Spec /\ Fairness

-----------------------------------------------------------------------------
(* Properties.                                                             *)

\* Every variable holds a value of its type; the mailbox never holds more than
\* one state.
TypeOK ==
    /\ [rows |-> rows, size |-> size] \in State
    /\ listening \in BOOLEAN /\ listens \in 0 .. MaxFaults + 1 /\ notes \in Nat
    /\ registered \in Streams \cup {NoStream} /\ conn \in Streams \cup {NoStream}
    /\ stage \in [Streams -> {"unborn", "hello", "open", "gone"}]
    /\ \A s \in Streams : /\ lastHash[s] = NoDigest \/ Head(lastHash[s]) \in State
                          /\ Len(mailbox[s]) <= 1
                          /\ pushMu[s] \in Pushers \cup {Nobody}
    /\ Len(wire) <= WireDepth /\ unread \subseteq Streams
    /\ containers \subseteq Replicas /\ disk \in 0 .. MaxSize

\* The agent runs what the database wants of the host, and nothing else.
InSync ==
    /\ containers = {r \in Replicas : rows[r] \in {"scheduling", "active"}}
    /\ disk = size

\* Nothing about the host is being read, carried or awaited.
Quiet ==
    /\ listening /\ notes = 0
    /\ conn # NoStream /\ Serving(conn)
    /\ \A p \in Pushers : push[p] = Idle
    /\ mailbox[conn] = <<>> /\ wire = <<>>

\* The fast path alone keeps the agent in step: whatever overtakes whatever
\* (two reads of a row and its volume, a notification and a reconnect, a lost
\* LISTEN), once nothing is in flight the agent is on the newest state.  No
\* resync is needed unless a read has failed.
SettledInSync == Quiet /\ registered = conn /\ conn \notin unread => InSync

\* The stream an agent is on stays the registered one until the agent leaves
\* it: the end of an older stream never evicts it (unregister).
LiveStreamStays ==
    [][conn # NoStream /\ registered = conn => registered' = conn \/ conn' # conn]_vars

\* No agent is stuck: whatever was lost, the agent comes to run what the
\* database wants of its host.
AgentConverges == []<>InSync
=============================================================================
