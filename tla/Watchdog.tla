------------------------------- MODULE Watchdog --------------------------------
(***************************************************************************)
(* Who may be declared dead, and who is left to declare it.                *)
(*                                                                         *)
(* Agents heartbeat through whichever apiserver is up; every apiserver     *)
(* keeps a liveness row (internal/api/server.go); the watchdog             *)
(* (internal/engine/watchdog.go) frees the replicas of a host silent past  *)
(* hostDeadAfter, but only if some apiserver has been live for as long;    *)
(* and the watchdog's process is under a supervisor with a restart budget  *)
(* (internal/engine/supervisor.go).  Apiservers crash, stop and start, the *)
(* database goes away and comes back, hosts fall silent and recover.       *)
(*                                                                         *)
(* Time is a tick, and a timestamp is its age in ticks, capped once no     *)
(* comparison can tell it from an older one.  The statements of a sweep    *)
(* are separate steps that use the time the sweep began at.                *)
(***************************************************************************)
EXTENDS Integers, FiniteSets

CONSTANTS
    Hosts, Instances,      \* apiserver processes; an id is reused once its row is gone
    HostUnhealthyAfter, HostDeadAfter, LivenessWindow,
    RegisterWithin,        \* ticks an apiserver tries to register before it exits
    AgentWithin,           \* a live agent's heartbeat lands within so many
                           \* ticks of a control plane that is up
    MaxAway,               \* bound: ticks the database is away in all
    MaxConsecutiveFailures, MaxRestarts, StableAfter,
    MaxFaults              \* bound: apiserver stops and crashes, database
                           \* outages, hosts falling silent

ASSUME WatchdogAssumption ==
    /\ {HostUnhealthyAfter, HostDeadAfter, LivenessWindow, AgentWithin} \subseteq Nat
    /\ RegisterWithin \in 0 .. HostDeadAfter
    /\ {MaxAway, MaxRestarts, StableAfter, MaxFaults} \subseteq Nat
    /\ MaxConsecutiveFailures \in Nat \ {0}

VARIABLES
    beat,       \* host -> age of last_heartbeat
    healthy,    \* host -> host_healthy
    bound,      \* host -> whether replicas are bound to it
    reporting,  \* host -> whether its agent heartbeats
    overdue,    \* host -> ticks its agent could have been heard in and was not
    blamed,     \* host -> it has fallen silent since its last heartbeat
    up,         \* apiserver -> whether the process runs
    joined,     \* apiserver -> whether it has registered
    started,    \* apiserver -> age of the process
    row,        \* apiserver -> age of heartbeat_at in its liveness row, or NoRow
    db, away,   \* whether the database answers, and the ticks it has not
    sweep,      \* the watchdog's sweep: the next statement, the age of its
                \* `now', and the dead hosts it listed
    sweeps, passes,     \* consecutive failures of the watchdog and of the engine loop
    ran, restarts,      \* age of the run, and the supervisor's count
    streak,     \* loop -> its failures since it last succeeded
    spent,      \* the failures that ended the runs since one was last stable
    exited,     \* the process gave up
    faults

hosts == <<beat, healthy, bound, reporting, overdue, blamed>>
plane == <<up, joined, started, row>>
budget == <<ran, restarts, spent, exited>>
process == <<sweep, sweeps, passes, streak, budget>>
store == <<db, away>>
vars == <<hosts, plane, store, process, faults>>

-----------------------------------------------------------------------------
NoRow == -1
Idle == [at |-> "idle", now |-> 0, dead |-> {}]
NoStreak == [sweep |-> 0, pass |-> 0]
MaxLag == 1                           \* ticks a sweep takes at most
Older(age, cap) == IF age < cap THEN age + 1 ELSE age
\* The ages at which a timestamp is past every comparison.
OldBeat == HostDeadAfter + MaxLag + 1
OldStart == HostDeadAfter
OldRow == LivenessWindow + 1
Fault == faults < MaxFaults /\ faults' = faults + 1

SomeUp == \E i \in Instances : up[i]

-----------------------------------------------------------------------------
(* Agents and apiservers.                                                  *)

\* RecordHostHeartbeat; a beat that fails to be recorded is dropped.
Heartbeat(h) ==
    /\ reporting[h] /\ SomeUp /\ db
    /\ beat' = [beat EXCEPT ![h] = 0] /\ healthy' = [healthy EXCEPT ![h] = TRUE]
    /\ overdue' = [overdue EXCEPT ![h] = 0] /\ blamed' = [blamed EXCEPT ![h] = FALSE]
    /\ UNCHANGED <<bound, reporting, plane, store, process, faults>>

KillHost(h) ==
    /\ reporting[h] /\ Fault
    /\ reporting' = [reporting EXCEPT ![h] = FALSE] /\ blamed' = [blamed EXCEPT ![h] = TRUE]
    /\ overdue' = [overdue EXCEPT ![h] = 0]
    /\ UNCHANGED <<beat, healthy, bound, plane, store, process>>

RecoverHost(h) ==
    /\ ~reporting[h]
    /\ reporting' = [reporting EXCEPT ![h] = TRUE]
    /\ UNCHANGED <<beat, healthy, bound, overdue, blamed, plane, store, process, faults>>

\* A pass of the engine places replicas on a healthy host that has none.
PlaceOn(h) ==
    /\ healthy[h] /\ ~bound[h] /\ db /\ ~exited
    /\ bound' = [bound EXCEPT ![h] = TRUE]
    /\ UNCHANGED <<beat, healthy, reporting, overdue, blamed, plane, store, process, faults>>

\* registerWithRetry takes the start before the first attempt.
StartApiserver(i) ==
    /\ ~up[i] /\ row[i] = NoRow
    /\ up' = [up EXCEPT ![i] = TRUE] /\ started' = [started EXCEPT ![i] = 0]
    /\ joined' = [joined EXCEPT ![i] = FALSE]
    /\ UNCHANGED <<hosts, row, store, process, faults>>

\* The last attempt has failed: the process exits.
RegisterFails(i) ==
    /\ up[i] /\ ~joined[i] /\ ~db /\ started[i] >= RegisterWithin
    /\ up' = [up EXCEPT ![i] = FALSE]
    /\ UNCHANGED <<hosts, joined, started, row, store, process, faults>>

DeleteStale(rows) ==
    [i \in Instances |-> IF rows[i] > LivenessWindow THEN NoRow ELSE rows[i]]

\* The instance's heartbeat, which registers it as well and reaps stale rows.
UpsertInstance(i) ==
    /\ up[i] /\ db /\ row[i] # 0
    /\ row' = DeleteStale([row EXCEPT ![i] = 0])
    /\ joined' = [joined EXCEPT ![i] = TRUE]
    /\ UNCHANGED <<hosts, up, started, store, process, faults>>

\* livenessLoop deregisters on the way out if the database lets it; a crash
\* leaves what row there is.
StopApiserver(i) ==
    /\ up[i] /\ Fault
    /\ up' = [up EXCEPT ![i] = FALSE]
    /\ \/ db /\ row' = [row EXCEPT ![i] = NoRow]
       \/ UNCHANGED row
    /\ UNCHANGED <<hosts, joined, started, store, process>>

DatabaseDown ==
    /\ db /\ Fault
    /\ db' = FALSE
    /\ UNCHANGED <<away, hosts, plane, process>>

DatabaseBack ==
    /\ ~db
    /\ db' = TRUE
    /\ UNCHANGED <<away, hosts, plane, process, faults>>

-----------------------------------------------------------------------------
(* The sweep.                                                              *)

\* OldestLiveApiserverStart: live is what has heartbeated within the window.
LiveInstances == {i \in Instances : row[i] # NoRow /\ row[i] <= LivenessWindow}

\* Seeded fault: the grace is keyed on a row being fresh, not on its start.
VerdictOnAnyLive == LiveInstances # {}

deathVerdictFair == \E i \in LiveInstances : started[i] >= HostDeadAfter

SweepEnds ==
    /\ sweep' = Idle /\ sweeps' = 0 /\ streak' = [streak EXCEPT !.sweep = 0]
    /\ UNCHANGED <<passes, budget>>

\* MarkStaleHostsUnhealthy, and the verdict's fairness.  (settleDrains, in
\* between, is Rollout's CompleteDrainedHosts.)
BeginSweep ==
    /\ sweep.at = "idle" /\ db /\ ~exited
    /\ healthy' = [h \in Hosts |-> healthy[h] /\ beat[h] <= HostUnhealthyAfter]
    /\ IF deathVerdictFair
       THEN /\ sweep' = [Idle EXCEPT !.at = "list"]
            /\ UNCHANGED <<sweeps, passes, streak, budget>>
       ELSE SweepEnds
    /\ UNCHANGED <<beat, bound, reporting, overdue, blamed, plane, store, faults>>

\* last_heartbeat < now - hostDeadAfter.
SilentPastDeath(h) == beat[h] - sweep.now > HostDeadAfter

ListDeadHosts ==
    /\ sweep.at = "list" /\ db
    /\ LET dead == {h \in Hosts : SilentPastDeath(h) /\ bound[h]}
       IN  IF dead = {} THEN SweepEnds
           ELSE /\ sweep' = [sweep EXCEPT !.at = "mark", !.dead = dead]
                /\ UNCHANGED <<sweeps, passes, streak, budget>>
    /\ UNCHANGED <<hosts, plane, store, faults>>

\* Seeded fault: only a host still in scheduling is taken down.
MarkHealthyDown(h) ==
    /\ healthy' = [healthy EXCEPT ![h] = @ /\ ~SilentPastDeath(h)]
    /\ bound' = [bound EXCEPT ![h] = @ /\ ~(healthy[h] /\ SilentPastDeath(h))]

\* The write asserts the silence again.
MarkHostDown(h) ==
    /\ healthy' = [healthy EXCEPT ![h] = @ /\ ~SilentPastDeath(h)]
    /\ bound' = [bound EXCEPT ![h] = @ /\ ~SilentPastDeath(h)]

MarkNext ==
    /\ sweep.at = "mark" /\ db
    /\ \E h \in sweep.dead :
          /\ MarkHostDown(h)
          /\ IF sweep.dead = {h} THEN SweepEnds
             ELSE /\ sweep' = [sweep EXCEPT !.dead = @ \ {h}]
                  /\ UNCHANGED <<sweeps, passes, streak, budget>>
    /\ UNCHANGED <<beat, reporting, overdue, blamed, plane, store, faults>>

-----------------------------------------------------------------------------
(* The two loops and their supervisor.                                     *)

\* supervisor.run: whether this crash is one too many.
Crash(count) == count > MaxRestarts

\* Seeded fault: a loop gives up one failure short.
CountFailureShort(n) == [fail |-> n + 1, crash |-> n + 2 >= MaxConsecutiveFailures]

\* A loop gives up when so many passes or sweeps in a row have failed.
CountFailure(n) == [fail |-> n + 1, crash |-> n + 1 >= MaxConsecutiveFailures]

\* A crash of one loop cancels the other's context: both start again, unless
\* the budget is spent.
CrashRun(loop) ==
    /\ sweep' = Idle /\ sweeps' = 0 /\ passes' = 0 /\ ran' = 0
    /\ restarts' = restarts + 1
    /\ exited' = Crash(restarts + 1)
    /\ spent' = spent + streak[loop] + 1 /\ streak' = NoStreak

\* A run that has lasted renews the budget: the code finds out at its crash,
\* nobody reads the count before.
RunLasts ==
    /\ ran' = Older(ran, StableAfter)
    /\ restarts' = IF ran' = StableAfter THEN 0 ELSE restarts
    /\ spent' = IF ran' = StableAfter THEN 0 ELSE spent

\* Any statement of a sweep fails while the database is away.
SweepFails ==
    /\ ~db /\ ~exited
    /\ LET c == CountFailure(sweeps)
       IN  IF c.crash THEN CrashRun("sweep")
           ELSE /\ sweeps' = c.fail /\ sweep' = Idle
                /\ streak' = [streak EXCEPT !.sweep = @ + 1]
                /\ UNCHANGED <<passes, budget>>
    /\ UNCHANGED <<hosts, plane, store, faults>>

PassFails ==
    /\ ~db /\ ~exited
    /\ LET c == CountFailure(passes)
       IN  IF c.crash THEN CrashRun("pass")
           ELSE /\ passes' = c.fail /\ streak' = [streak EXCEPT !.pass = @ + 1]
                /\ UNCHANGED <<sweep, sweeps, budget>>
    /\ UNCHANGED <<hosts, plane, store, faults>>

PassSucceeds ==
    /\ db /\ ~exited /\ passes > 0
    /\ passes' = 0 /\ streak' = [streak EXCEPT !.pass = 0]
    /\ UNCHANGED <<hosts, plane, store, sweep, sweeps, budget, faults>>

\* compose starts an exited engine again (restart: unless-stopped); with the
\* database away it fails to connect and exits.
RestartProcess ==
    /\ exited /\ db
    /\ exited' = FALSE /\ restarts' = 0 /\ ran' = 0 /\ spent' = 0
    /\ UNCHANGED <<hosts, plane, store, sweep, sweeps, passes, streak, faults>>

-----------------------------------------------------------------------------
\* A tick passes.  Nobody dawdles: a live apiserver has refreshed its row or
\* has given up registering, an agent is not overdue, a sweep is not stuck, and
\* the database is back in time.
OnTime ==
    /\ db => \A i \in Instances : up[i] => row[i] # NoRow /\ row[i] < LivenessWindow
    /\ \A i \in Instances : up[i] /\ ~joined[i] => started[i] < RegisterWithin
    /\ db /\ SomeUp => \A h \in Hosts : reporting[h] => overdue[h] < AgentWithin
    /\ sweep.at # "idle" => sweep.now < MaxLag
    /\ ~db => away < MaxAway

Tick ==
    /\ OnTime
    /\ beat' = [h \in Hosts |-> Older(beat[h], OldBeat)]
    /\ overdue' = [h \in Hosts |->
           IF ~SomeUp THEN 0
           ELSE IF reporting[h] /\ db THEN overdue[h] + 1 ELSE overdue[h]]
    /\ started' = [i \in Instances |-> IF up[i] \/ row[i] # NoRow THEN Older(started[i], OldStart) ELSE 0]
    /\ row' = [i \in Instances |-> IF row[i] = NoRow THEN NoRow ELSE Older(row[i], OldRow)]
    /\ away' = IF db THEN away ELSE away + 1
    /\ sweep' = IF sweep.at = "idle" THEN sweep ELSE [sweep EXCEPT !.now = @ + 1]
    /\ IF exited THEN UNCHANGED <<ran, restarts, spent>> ELSE RunLasts
    /\ UNCHANGED <<healthy, bound, reporting, blamed, up, joined, db,
                   sweeps, passes, streak, exited, faults>>

-----------------------------------------------------------------------------
Init ==
    /\ beat = [h \in Hosts |-> 0] /\ healthy = [h \in Hosts |-> TRUE]
    /\ bound = [h \in Hosts |-> TRUE] /\ reporting = [h \in Hosts |-> TRUE]
    /\ overdue = [h \in Hosts |-> 0] /\ blamed = [h \in Hosts |-> FALSE]
    /\ up = [i \in Instances |-> FALSE] /\ joined = [i \in Instances |-> FALSE]
    /\ started = [i \in Instances |-> 0]
    /\ row = [i \in Instances |-> NoRow]
    /\ db = TRUE /\ away = 0 /\ sweep = Idle /\ sweeps = 0 /\ passes = 0
    /\ ran = 0 /\ restarts = 0 /\ streak = NoStreak /\ spent = 0 /\ exited = FALSE /\ faults = 0

Sweep == BeginSweep \/ ListDeadHosts \/ MarkNext

Host(h) == Heartbeat(h) \/ KillHost(h) \/ RecoverHost(h) \/ PlaceOn(h)

Apiserver(i) ==
    StartApiserver(i) \/ RegisterFails(i) \/ UpsertInstance(i) \/ StopApiserver(i)

Next ==
    \/ Tick \/ Sweep \/ SweepFails \/ PassFails \/ PassSucceeds
    \/ RestartProcess \/ DatabaseDown \/ DatabaseBack
    \/ \E h \in Hosts : Host(h)
    \/ \E i \in Instances : Apiserver(i)

Spec == Init /\ [][Next]_vars

\* The clock runs, the loops sweep, compose restarts what has exited, agents
\* and apiservers tick, and the database comes back.  Recovery of a host and
\* the reuse of its capacity are nobody's promise.
FairSpec ==
    /\ Spec
    /\ WF_vars(Tick) /\ WF_vars(Sweep) /\ WF_vars(RestartProcess) /\ WF_vars(DatabaseBack)
    /\ \A h \in Hosts : WF_vars(Heartbeat(h))
    /\ \A i \in Instances : /\ WF_vars(UpsertInstance(i)) /\ WF_vars(StartApiserver(i))
                             /\ WF_vars(RegisterFails(i))

-----------------------------------------------------------------------------
(* Properties.                                                             *)

\* Nobody's replicas are freed for the control plane's absence: a host that is
\* declared dead has fallen silent on its own since its last heartbeat, however
\* apiservers restart and overlap, whatever rows their crashes leave, and also
\* when its heartbeat lands in the middle of the sweep that listed it.
NoWrongfulDeath ==
    [][\A h \in Hosts : bound[h] /\ ~bound'[h] => blamed[h]]_vars

\* The process gives up only when as many runs as the budget allows and one more
\* have each ended in MaxConsecutiveFailures failures of one loop, with no success
\* of that loop among them and no stable run in between.
GivesUpChronic == exited => spent >= (MaxRestarts + 1) * MaxConsecutiveFailures

\* A host that stays silent does not keep its replicas, through crashes of the
\* apiservers, of the database and of the engine.
DeadHostIsFreed == \A h \in Hosts : []<>(reporting[h] \/ ~bound[h])
=============================================================================
