---------------------------- MODULE WatchdogProofs ----------------------------
(***************************************************************************)
(* The watchdog and its supervisor for all their constants: the process    *)
(* gives up only after its whole budget of crashes, and the sweep frees    *)
(* the replicas of no host that reports.                                   *)
(*                                                                         *)
(* GivesUpChronic speaks of the state after the last crash only.  What is  *)
(* inductive: a loop's counter is never ahead of the failures it has had   *)
(* in a row, and every restart counted has left its failures in spent,     *)
(* which a stable run clears together with the count.                      *)
(***************************************************************************)
EXTENDS Watchdog, TLAPS

\* The counters of the loops (engine.go, watchdog.go) stand for failures in a
\* row, a restart for MaxConsecutiveFailures of them, and the process leaves
\* with more restarts than the budget (supervisor.run).
Budgeted ==
    /\ sweeps \in Nat /\ passes \in Nat /\ streak \in [sweep : Nat, pass : Nat]
    /\ sweeps <= streak.sweep /\ passes <= streak.pass
    /\ restarts \in Nat /\ spent \in Nat
    /\ spent >= restarts * MaxConsecutiveFailures
    /\ exited => restarts >= MaxRestarts + 1

\* What Budgeted speaks of.
tally == <<sweeps, passes, streak, restarts, spent, exited>>

\* A crash adds one restart and the failures that led to it.
LEMMA CrashBudgeted ==
    ASSUME Budgeted, NEW loop \in {"sweep", "pass"}, CrashRun(loop),
           streak[loop] + 1 >= MaxConsecutiveFailures
    PROVE  Budgeted'
  <1> USE WatchdogAssumption DEF Budgeted
  <1>1. restarts' = restarts + 1 /\ spent' = spent + streak[loop] + 1
    BY Zenon DEF CrashRun
  <1>2. (restarts + 1) * MaxConsecutiveFailures
            = restarts * MaxConsecutiveFailures + MaxConsecutiveFailures
    BY SMT
  <1>3. exited' => restarts' >= MaxRestarts + 1
    <2>1. exited' = (restarts + 1 > MaxRestarts)
      BY Zenon DEF CrashRun, Crash
    <2>2. MaxRestarts \in Nat
      OBVIOUS
    <2>3. restarts + 1 > MaxRestarts => restarts' >= MaxRestarts + 1
      BY <1>1, <2>2
    <2> QED
      BY <2>1, <2>3, Zenon
  <1>4. /\ sweeps' = 0 /\ passes' = 0
        /\ streak' \in [sweep : Nat, pass : Nat] /\ streak'.sweep = 0 /\ streak'.pass = 0
    BY DEF CrashRun, NoStreak
  <1>5. streak[loop] \in Nat /\ spent' \in Nat /\ restarts' \in Nat
    <2>1. streak["sweep"] \in Nat /\ streak["pass"] \in Nat
      OBVIOUS
    <2> QED
      BY <1>1, <2>1
  <1>6. spent' >= restarts' * MaxConsecutiveFailures
    <2>1. PICK k \in Nat : k = restarts * MaxConsecutiveFailures
      BY SMT
    <2>2. restarts' * MaxConsecutiveFailures = k + MaxConsecutiveFailures
      BY <1>1, <1>2, <2>1
    <2> QED
      BY <1>1, <1>5, <2>1, <2>2
  <1>7. sweeps' <= streak'.sweep /\ passes' <= streak'.pass /\ sweeps' \in Nat /\ passes' \in Nat
    BY <1>4
  <1> QED
    BY <1>3, <1>4, <1>5, <1>6, <1>7, Zenon

\* A failure is counted by its loop, and by the last one of the row the run ends.
LEMMA SweepFailureBudgeted == ASSUME Budgeted, SweepFails PROVE Budgeted'
  <1>1. CASE sweeps + 1 >= MaxConsecutiveFailures
    <2>1. CrashRun("sweep")
      BY <1>1 DEF SweepFails, CountFailure
    <2>2. streak["sweep"] + 1 >= MaxConsecutiveFailures
      BY <1>1, WatchdogAssumption DEF Budgeted
    <2> QED
      BY <2>1, <2>2, CrashBudgeted
  <1>2. CASE ~(sweeps + 1 >= MaxConsecutiveFailures)
    <2>1. /\ sweeps' = sweeps + 1 /\ passes' = passes
          /\ streak' = [streak EXCEPT !.sweep = @ + 1]
          /\ UNCHANGED <<restarts, spent, exited>>
      BY <1>2 DEF SweepFails, CountFailure, budget
    <2> QED
      BY <2>1 DEF Budgeted
  <1> QED
    BY <1>1, <1>2

LEMMA PassFailureBudgeted == ASSUME Budgeted, PassFails PROVE Budgeted'
  <1>1. CASE passes + 1 >= MaxConsecutiveFailures
    <2>1. CrashRun("pass")
      BY <1>1 DEF PassFails, CountFailure
    <2>2. streak["pass"] + 1 >= MaxConsecutiveFailures
      BY <1>1, WatchdogAssumption DEF Budgeted
    <2> QED
      BY <2>1, <2>2, CrashBudgeted
  <1>2. CASE ~(passes + 1 >= MaxConsecutiveFailures)
    <2>1. /\ passes' = passes + 1 /\ sweeps' = sweeps
          /\ streak' = [streak EXCEPT !.pass = @ + 1]
          /\ UNCHANGED <<restarts, spent, exited>>
      BY <1>2 DEF PassFails, CountFailure, budget
    <2> QED
      BY <2>1 DEF Budgeted
  <1> QED
    BY <1>1, <1>2

\* A success ends its loop's row, and the counter with it.
LEMMA SweepBudgeted == ASSUME Budgeted, Sweep PROVE Budgeted'
  <1>1. \/ sweeps' = 0 /\ streak' = [streak EXCEPT !.sweep = 0]
        \/ UNCHANGED <<sweeps, streak>>
    BY DEF Sweep, BeginSweep, ListDeadHosts, MarkNext, SweepEnds
  <1>2. UNCHANGED <<passes, restarts, spent, exited>>
    BY DEF Sweep, BeginSweep, ListDeadHosts, MarkNext, SweepEnds, budget
  <1> QED
    BY <1>1, <1>2 DEF Budgeted

\* Every other step leaves the count alone or clears it.
LEMMA BudgetStep == ASSUME Budgeted, [Next]_vars PROVE Budgeted'
  <1> USE WatchdogAssumption
  <1>1. CASE UNCHANGED tally
    BY <1>1 DEF tally, Budgeted
  <1>2. CASE SweepFails \/ PassFails
    BY <1>2, SweepFailureBudgeted, PassFailureBudgeted
  <1>3. CASE Tick
    <2>1. /\ UNCHANGED <<sweeps, passes, streak, exited>>
          /\ exited => restarts' = restarts /\ spent' = spent
      BY <1>3 DEF Tick
    <2>2. CASE exited
      BY <2>1, <2>2 DEF Budgeted
    <2>3. CASE ~exited
      <3>1. \/ restarts' = 0 /\ spent' = 0
            \/ restarts' = restarts /\ spent' = spent
        BY <1>3, <2>3 DEF Tick, RunLasts
      <3> QED
        BY <2>1, <2>3, <3>1 DEF Budgeted
    <2> QED
      BY <2>2, <2>3
  <1>4. CASE RestartProcess
    BY <1>4 DEF RestartProcess, Budgeted
  <1>5. CASE PassSucceeds
    <2>1. /\ passes' = 0 /\ streak' = [streak EXCEPT !.pass = 0]
          /\ UNCHANGED <<sweeps, restarts, spent, exited>>
      BY <1>5 DEF PassSucceeds, budget
    <2> QED
      BY <2>1 DEF Budgeted
  <1>6. DatabaseDown \/ DatabaseBack => UNCHANGED tally
    BY DEF DatabaseDown, DatabaseBack, process, budget, tally
  <1>7. ASSUME NEW h \in Hosts, Host(h) PROVE UNCHANGED tally
    BY <1>7 DEF Host, Heartbeat, KillHost, RecoverHost, PlaceOn, process, budget, tally
  <1>8. ASSUME NEW i \in Instances, Apiserver(i) PROVE UNCHANGED tally
    BY <1>8 DEF Apiserver, StartApiserver, RegisterFails, UpsertInstance, StopApiserver,
                process, budget, tally
  <1>9. UNCHANGED vars => UNCHANGED tally
    BY DEF vars, process, budget, tally
  <1> QED
    BY <1>1, <1>2, <1>3, <1>4, <1>5, <1>6, <1>7, <1>8, <1>9, SweepBudgeted DEF Next

\* The supervised engine gives up only when more runs than the budget allows have
\* each ended in a full row of failures of one loop, with no stable run in
\* between: for every budget, every number of hosts and apiservers, every outage.
THEOREM ChronicOnly == Spec => []GivesUpChronic
  <1>1. Init => Budgeted
    BY WatchdogAssumption DEF Init, Budgeted, NoStreak
  <1>2. Budgeted => GivesUpChronic
    <2> SUFFICES ASSUME Budgeted, exited
                 PROVE  spent >= (MaxRestarts + 1) * MaxConsecutiveFailures
      BY DEF GivesUpChronic
    <2>1. restarts * MaxConsecutiveFailures >= (MaxRestarts + 1) * MaxConsecutiveFailures
      BY WatchdogAssumption, SMT DEF Budgeted
    <2> QED
      BY <2>1, WatchdogAssumption, SMT DEF Budgeted
  <1> QED
    BY <1>1, <1>2, BudgetStep, PTL DEF Spec
-----------------------------------------------------------------------------
(***************************************************************************)
(* Nobody dies of the control plane's absence.  The verdict is fair when   *)
(* some apiserver with a fresh row is old enough; what makes it so is that *)
(* such an apiserver and an agent that reports cannot have been out of     *)
(* touch for long: the younger of the apiserver and the last heartbeat is  *)
(* no older than the time the agent was due in and the time the database   *)
(* was away, and once the apiserver is gone no older than that and the     *)
(* age of the row it left.                                                 *)
(***************************************************************************)

\* The timeouts leave room: the two minutes of hostDeadAfter (watchdog.go)
\* cover an agent's delay, the outages and the 30 seconds for which a row
\* outlives its process (ApiserverLivenessWindow).
TimeoutsLeaveRoom == AgentWithin + MaxAway + LivenessWindow < HostDeadAfter

Typed ==
    /\ beat \in [Hosts -> Nat] /\ overdue \in [Hosts -> Nat]
    /\ bound \in [Hosts -> BOOLEAN] /\ reporting \in [Hosts -> BOOLEAN]
    /\ blamed \in [Hosts -> BOOLEAN]
    /\ up \in [Instances -> BOOLEAN] /\ started \in [Instances -> Nat]
    /\ row \in [Instances -> Nat \cup {NoRow}]
    /\ away \in 0 .. MaxAway
    /\ sweep \in [at : {"idle", "list", "mark"}, now : Nat, dead : SUBSET Hosts]

\* An agent that has not fallen silent reports, and is not overdue.
Prompt ==
    \A h \in Hosts : (~blamed[h] => reporting[h]) /\ overdue[h] <= AgentWithin

\* How long an apiserver and a host have at most been there without a heartbeat.
Unheard(i, h) == IF started[i] < beat[h] THEN started[i] ELSE beat[h]

\* What the liveness rows say of the heartbeats.
Audible(i, h) ==
    ~blamed[h] =>
        /\ up[i] => Unheard(i, h) <= overdue[h] + away
        /\ row[i] \in 0 .. LivenessWindow => Unheard(i, h) <= AgentWithin + away + row[i]

Heard == \A i \in Instances, h \in Hosts : Audible(i, h)

\* A sweep that may kill began when no host that reports was past death.
Spared ==
    sweep.at # "idle" => \A h \in Hosts : ~blamed[h] => beat[h] - sweep.now < HostDeadAfter

Fair == Typed /\ Prompt /\ Heard /\ Spared

LEMMA FairInit == ASSUME TimeoutsLeaveRoom, Init PROVE Fair
  <1> USE WatchdogAssumption DEF Init
  <1>1. Typed
    BY DEF Typed, Idle, NoRow
  <1>2. Prompt
    BY DEF Prompt
  <1>3. Heard
    BY DEF Heard, Audible, Unheard, NoRow
  <1>4. Spared
    BY DEF Spared, Idle
  <1> QED
    BY <1>1, <1>2, <1>3, <1>4 DEF Fair

\* A heartbeat brings its host back in touch with every apiserver.
LEMMA HeartbeatFair ==
    ASSUME TimeoutsLeaveRoom, Fair, NEW h \in Hosts, Heartbeat(h) PROVE Fair'
  <1> USE WatchdogAssumption DEF Fair, Heartbeat, plane, store, process
  <1>1. Typed'
    BY DEF Typed
  <1>2. Prompt'
    BY DEF Prompt, Typed
  <1>3. Heard'
    <2> SUFFICES ASSUME NEW i \in Instances, NEW g \in Hosts PROVE Audible(i, g)'
      BY DEF Heard
    <2>1. Audible(i, g)
      BY DEF Heard
    <2> QED
      BY <2>1 DEF Audible, Unheard, Typed, NoRow
  <1>4. Spared'
    BY DEF Spared, Typed, TimeoutsLeaveRoom
  <1> QED
    BY <1>1, <1>2, <1>3, <1>4

\* A host that falls silent is past what the invariant speaks of, and one
\* that comes back stays there until it is heard.
LEMMA HostFair ==
    ASSUME Fair, NEW h \in Hosts, KillHost(h) \/ RecoverHost(h) \/ PlaceOn(h) PROVE Fair'
  <1> USE WatchdogAssumption DEF Fair, KillHost, RecoverHost, PlaceOn, plane, store, process
  <1>1. Typed'
    <2>1. CASE KillHost(h)
      BY <2>1 DEF Typed
    <2>2. CASE RecoverHost(h)
      BY <2>2 DEF Typed
    <2>3. CASE PlaceOn(h)
      BY <2>3 DEF Typed
    <2> QED
      BY <2>1, <2>2, <2>3
  <1>2. Prompt'
    BY DEF Prompt, Typed
  <1>3. Heard'
    <2> SUFFICES ASSUME NEW i \in Instances, NEW g \in Hosts PROVE Audible(i, g)'
      BY DEF Heard
    <2>1. Audible(i, g)
      BY DEF Heard
    <2> QED
      BY <2>1 DEF Audible, Unheard, Typed, NoRow
  <1>4. Spared'
    BY DEF Spared, Typed
  <1> QED
    BY <1>1, <1>2, <1>3, <1>4

\* An apiserver starts out in touch with everybody; the row it writes is as
\* young as it is live, and rows it reaps say nothing any more.
LEMMA ApiserverFair ==
    ASSUME Fair, NEW i \in Instances, Apiserver(i) PROVE Fair'
  <1> USE WatchdogAssumption
      DEF Fair, Apiserver, StartApiserver, RegisterFails, UpsertInstance, StopApiserver,
          DeleteStale, hosts, store, process
  <1>1. Typed'
    <2>1. CASE StartApiserver(i)
      BY <2>1 DEF Typed
    <2>2. CASE RegisterFails(i)
      BY <2>2 DEF Typed
    <2>3. CASE UpsertInstance(i)
      BY <2>3 DEF Typed
    <2>4. CASE StopApiserver(i)
      BY <2>4 DEF Typed
    <2> QED
      BY <2>1, <2>2, <2>3, <2>4
  <1>2. Prompt'
    BY DEF Prompt
  <1>3. Heard'
    <2> SUFFICES ASSUME NEW j \in Instances, NEW h \in Hosts PROVE Audible(j, h)'
      BY DEF Heard
    <2>1. Audible(j, h) /\ overdue[h] <= AgentWithin
      BY DEF Heard, Prompt
    <2>2. CASE StartApiserver(i)
      BY <2>1, <2>2 DEF Audible, Unheard, Typed, NoRow
    <2>3. CASE RegisterFails(i)
      BY <2>1, <2>3 DEF Audible, Unheard, Typed, NoRow
    <2>4. CASE UpsertInstance(i)
      BY <2>1, <2>4 DEF Audible, Unheard, Typed, NoRow
    <2>5. CASE StopApiserver(i)
      BY <2>1, <2>5 DEF Audible, Unheard, Typed, NoRow
    <2> QED
      BY <2>2, <2>3, <2>4, <2>5
  <1>4. Spared'
    BY DEF Spared
  <1> QED
    BY <1>1, <1>2, <1>3, <1>4

\* A tick ages everything; what it adds to the silence of a host it adds to
\* what its agent or the database is charged with.
LEMMA TickFair == ASSUME Fair, Tick PROVE Fair'
  <1> USE WatchdogAssumption DEF Fair
  <1>1. Typed'
    BY DEF Tick, OnTime, Typed, Older, NoRow
  <1>2. Prompt'
    BY DEF Tick, OnTime, Prompt, Typed, Older
  <1>3. Heard'
    <2> SUFFICES ASSUME NEW i \in Instances, NEW h \in Hosts, ~blamed[h] PROVE Audible(i, h)'
      BY DEF Heard, Tick, Audible
    <2>1. Audible(i, h) /\ reporting[h]
      BY DEF Heard, Prompt
    <2>2. Unheard(i, h)' <= Unheard(i, h) + 1 /\ Unheard(i, h) \in Nat /\ Unheard(i, h)' \in Nat
      BY DEF Tick, Unheard, Older, Typed, OldBeat, OldStart, MaxLag
    <2>3. up[i] => overdue[h]' + away' = overdue[h] + away + 1
      BY <2>1 DEF Tick, SomeUp, Typed
    <2>4. row[i]' \in 0 .. LivenessWindow => row[i] \in 0 .. LivenessWindow /\ row[i]' = row[i] + 1
      BY DEF Tick, Typed, Older, OldRow, NoRow
    <2>5. away' >= away /\ away' \in Nat /\ away \in Nat /\ overdue[h] \in Nat /\ up' = up
          /\ row[i] \in Nat \cup {NoRow} /\ overdue[h]' \in Nat
      BY <1>1 DEF Tick, Typed
    <2>6. up[i] => Unheard(i, h)' <= overdue[h]' + away'
      BY <2>1, <2>2, <2>3, <2>5 DEF Audible
    <2>7. row[i]' \in 0 .. LivenessWindow => Unheard(i, h)' <= AgentWithin + away' + row[i]'
      BY <2>1, <2>2, <2>4, <2>5 DEF Audible
    <2> QED
      BY <2>5, <2>6, <2>7 DEF Audible
  <1>4. Spared'
    <2> SUFFICES ASSUME NEW h \in Hosts, sweep.at # "idle", ~blamed[h]
                 PROVE  beat[h]' - sweep'.now < HostDeadAfter
      BY DEF Spared, Tick, Typed
    <2>1. beat[h] - sweep.now < HostDeadAfter
      BY DEF Spared
    <2>2. beat[h]' <= beat[h] + 1 /\ sweep'.now = sweep.now + 1
      BY DEF Tick, Typed, Older
    <2> QED
      BY <1>1, <2>1, <2>2 DEF Typed
  <1> QED
    BY <1>1, <1>2, <1>3, <1>4

\* What the statement that lists the dead makes of the sweep.
LEMMA ListedSweep ==
    ASSUME Typed, ListDeadHosts
    PROVE  /\ sweep.at = "list"
           /\ \/ sweep' = Idle
              \/ sweep' \in [at : {"mark"}, now : {sweep.now}, dead : SUBSET Hosts]
  <1> DEFINE dead == {h \in Hosts : SilentPastDeath(h) /\ bound[h]}
  <1>1. PICK d \in SUBSET Hosts : d = dead
    OBVIOUS
  <1>2. sweep' = Idle \/ sweep' = [sweep EXCEPT !.at = "mark", !.dead = d]
    BY <1>1, Zenon DEF ListDeadHosts, SweepEnds
  <1>3. sweep.at = "list"
    BY DEF ListDeadHosts
  <1> HIDE DEF dead
  <1> QED
    BY <1>2, <1>3 DEF Typed

\* A fair verdict finds no host past death that is not silent.
LEMMA SweepFair == ASSUME TimeoutsLeaveRoom, Fair, Sweep PROVE Fair'
  <1> USE WatchdogAssumption DEF Fair
  <1>1. UNCHANGED <<beat, reporting, overdue, blamed, up, started, row, away>>
    BY DEF Sweep, BeginSweep, ListDeadHosts, MarkNext, hosts, plane, store
  <1>2. bound' \in [Hosts -> BOOLEAN]
    BY DEF Sweep, BeginSweep, ListDeadHosts, MarkNext, MarkHostDown, hosts, Typed
  <1>3. sweep' \in [at : {"idle", "list", "mark"}, now : Nat, dead : SUBSET Hosts]
    <2>1. CASE BeginSweep
      BY <2>1 DEF BeginSweep, SweepEnds, Idle
    <2>2. CASE ListDeadHosts
      BY <2>2, ListedSweep DEF Idle, Typed
    <2>3. CASE MarkNext
      BY <2>3 DEF MarkNext, SweepEnds, Idle, Typed
    <2> QED
      BY <2>1, <2>2, <2>3 DEF Sweep
  <1>4. Typed' /\ Prompt'
    BY <1>1, <1>2, <1>3 DEF Typed, Prompt
  <1>5. Heard'
    BY <1>1 DEF Heard, Audible, Unheard
  <1>6. Spared'
    <2>1. CASE sweep'.at = "idle"
      BY <2>1 DEF Spared
    <2>2. CASE sweep'.at # "idle" /\ BeginSweep
      <3>1. deathVerdictFair /\ sweep'.now = 0
        BY <2>2 DEF BeginSweep, SweepEnds, Idle
      <3>2. PICK i \in LiveInstances : started[i] >= HostDeadAfter
        BY <3>1 DEF deathVerdictFair
      <3> SUFFICES ASSUME NEW h \in Hosts, ~blamed[h] PROVE beat[h] < HostDeadAfter
        BY <1>1, <3>1 DEF Spared, Typed
      <3>3. Unheard(i, h) <= AgentWithin + away + row[i] /\ row[i] \in 0 .. LivenessWindow
        BY DEF Heard, Audible, LiveInstances, Typed, NoRow
      <3> QED
        BY <3>2, <3>3 DEF Unheard, Typed, LiveInstances, TimeoutsLeaveRoom
    <2>3. CASE sweep'.at # "idle" /\ (ListDeadHosts \/ MarkNext)
      <3>1. sweep.at # "idle" /\ sweep'.now = sweep.now
        <4>1. CASE ListDeadHosts
          BY <2>3, <4>1, ListedSweep DEF Idle, Typed
        <4>2. CASE MarkNext
          BY <2>3, <4>2 DEF MarkNext, SweepEnds, Idle, Typed
        <4> QED
          BY <2>3, <4>1, <4>2
      <3> QED
        BY <1>1, <3>1 DEF Spared
    <2> QED
      BY <2>1, <2>2, <2>3 DEF Sweep
  <1> QED
    BY <1>4, <1>5, <1>6

\* What is left only ends sweeps, and touches no clock.
LEMMA ProcessFair ==
    ASSUME Fair,
           UNCHANGED <<hosts, plane, away>>,
           UNCHANGED sweep \/ sweep' = Idle
    PROVE  Fair'
  <1> USE DEF Fair, hosts, plane
  <1>1. Typed'
    BY DEF Typed, Idle
  <1>2. Prompt' /\ Heard'
    BY DEF Prompt, Heard, Audible, Unheard
  <1>3. Spared'
    BY DEF Spared, Idle
  <1> QED
    BY <1>1, <1>2, <1>3

LEMMA FairStep == ASSUME TimeoutsLeaveRoom, Fair, [Next]_vars PROVE Fair'
  <1>1. CASE Tick
    BY <1>1, TickFair
  <1>2. CASE Sweep
    BY <1>2, SweepFair
  <1>3. CASE SweepFails \/ PassFails
    BY <1>3, ProcessFair DEF SweepFails, PassFails, CrashRun, store
  <1>4. CASE PassSucceeds \/ RestartProcess \/ DatabaseDown \/ DatabaseBack \/ UNCHANGED vars
    BY <1>4, ProcessFair
    DEF PassSucceeds, RestartProcess, DatabaseDown, DatabaseBack, vars, store, process
  <1>5. ASSUME NEW h \in Hosts, Host(h) PROVE Fair'
    BY <1>5, HeartbeatFair, HostFair DEF Host
  <1>6. ASSUME NEW i \in Instances, Apiserver(i) PROVE Fair'
    BY <1>6, ApiserverFair
  <1> QED
    BY <1>1, <1>2, <1>3, <1>4, <1>5, <1>6 DEF Next

\* Replicas are freed by the sweep alone, and it takes only the silent down.
LEMMA FreedIsBlamed ==
    ASSUME Fair, [Next]_vars, NEW h \in Hosts, bound[h], ~bound'[h] PROVE blamed[h]
  <1> USE DEF Fair
  <1>1. CASE MarkNext
    <2>1. PICK g \in sweep.dead : MarkHostDown(g)
      BY <1>1 DEF MarkNext
    <2>2. g = h /\ SilentPastDeath(h)
      BY <2>1 DEF MarkHostDown, Typed
    <2>3. sweep.at # "idle"
      BY <1>1 DEF MarkNext
    <2> QED
      BY <2>2, <2>3, WatchdogAssumption DEF Spared, SilentPastDeath, Typed
  <1>2. CASE Tick \/ SweepFails \/ PassFails \/ PassSucceeds \/ RestartProcess
             \/ DatabaseDown \/ DatabaseBack \/ UNCHANGED vars
    BY <1>2 DEF Tick, SweepFails, PassFails, PassSucceeds, RestartProcess, DatabaseDown,
                DatabaseBack, vars, hosts
  <1>3. CASE BeginSweep \/ ListDeadHosts
    BY <1>3 DEF BeginSweep, ListDeadHosts, hosts
  <1>4. ASSUME NEW g \in Hosts, Host(g) PROVE FALSE
    BY <1>4 DEF Host, Heartbeat, KillHost, RecoverHost, PlaceOn, Typed
  <1>5. ASSUME NEW i \in Instances, Apiserver(i) PROVE FALSE
    BY <1>5 DEF Apiserver, StartApiserver, RegisterFails, UpsertInstance, StopApiserver, hosts
  <1> QED
    BY <1>1, <1>2, <1>3, <1>4, <1>5 DEF Next, Sweep

\* No host loses its replicas for the control plane's absence: for any number
\* of hosts and apiservers, any number of crashes, restarts and outages, as
\* long as hostDeadAfter exceeds an agent's delay, the outages and the
\* liveness window together.
THEOREM OnlyTheSilentDie == TimeoutsLeaveRoom => (Spec => NoWrongfulDeath)
  <1> SUFFICES ASSUME TimeoutsLeaveRoom PROVE Spec => NoWrongfulDeath
    OBVIOUS
  <1>1. Init => Fair
    BY FairInit
  <1>2. Fair /\ [Next]_vars => Fair'
    BY FairStep
  <1>3. Fair /\ [Next]_vars => [\A h \in Hosts : bound[h] /\ ~bound'[h] => blamed[h]]_vars
    BY FreedIsBlamed
  <1> QED
    BY <1>1, <1>2, <1>3, PTL DEF Spec, NoWrongfulDeath
=============================================================================
