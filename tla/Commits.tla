-------------------------------- MODULE Commits --------------------------------
(***************************************************************************)
(* The deployment commands of internal/project (deploy, rollback, scale,   *)
(* resize, down) as the READ COMMITTED transactions they are: operators    *)
(* run them at once, one SQL statement at a time, and the engine writes    *)
(* deployment statuses in between.                                         *)
(*                                                                         *)
(* A transaction's writes stay its own until it commits.  A statement      *)
(* reads what is committed, and its transaction's own writes; an UPDATE    *)
(* whose row another transaction has written waits for that one to end and *)
(* then looks at the row again, but not for other rows.  The tables have   *)
(* two unique keys: the version of a service, and its one current row.  A  *)
(* circle of waiting transactions lasts until the database refuses one.    *)
(*                                                                         *)
(* Data abstractions.  A deployment is its number, status and counts; the  *)
(* rest of the commit is carried verbatim.  A region is a number, and      *)
(* numbers sort as the region names do.  The service exists and is         *)
(* stateless, so no request is over its cap.                               *)
(***************************************************************************)
EXTENDS Integers, FiniteSets, FiniteSetsExt

CONSTANTS
    Operators,
    Regions,
    Requests,      \* the counts a command may ask for, by region
    MaxOps,        \* bound: commands
    MaxVersion,    \* bound: deployments, enough for every command to be one
    MaxVerdicts,   \* bound: statuses the engine decides on
    Kinds          \* the commands this instance allows

ASSUME CommitsAssumption ==
    /\ Regions \subseteq Nat /\ IsFiniteSet(Regions)
    /\ MaxOps \in Nat /\ MaxVersion \in Nat /\ MaxOps < MaxVersion /\ MaxVerdicts \in Nat
    /\ Kinds \subseteq {"deploy", "rollback", "scale", "resize", "down"}
    /\ \A want \in Requests : DOMAIN want \subseteq Regions /\ want \in [DOMAIN want -> Nat]

VARIABLES
    deps,       \* version -> the committed row
    counts,     \* <<version, region>> -> the committed replica count
    txs,        \* operator -> its transaction, or NoTx
    verdicts,   \* statuses the engine has decided on and not yet written
    ops, decided

vars == <<deps, counts, txs, verdicts, ops, decided>>

-----------------------------------------------------------------------------
Versions == 1 .. MaxVersion
Absent   == -1
Statuses == {"pending", "active", "failed", "superseded", "rolledback"}
NoDep    == [current |-> FALSE, status |-> "none"]
NoTx     == [kind |-> "none"]
Keys     == Versions \X Regions

Known    == {v \in Versions : deps[v] # NoDep}
Current  == {v \in Versions : deps[v].current}

\* What a command asks for: counts for some regions, and a version (rollback).
Begin(kind, want, v) ==
    [kind |-> kind, pc |-> IF kind = "deploy" THEN "version" ELSE "resolve", want |-> want, from |-> 0, to |-> v,
     next |-> 0, cand |-> {}, todo |-> DOMAIN want,
     deps |-> <<>>, counts |-> <<>>]

\* Rows the others have written and not committed: to write one is to wait.
LockedDeps(o)   == UNION {DOMAIN txs[p].deps : p \in {q \in Operators \ {o} : txs[q] # NoTx}}
LockedCounts(o) == UNION {DOMAIN txs[p].counts : p \in {q \in Operators \ {o} : txs[q] # NoTx}}

Put(f, k, x) == [i \in DOMAIN f \cup {k} |-> IF i = k THEN x ELSE f[i]]

\* The operator's transaction takes a step of its own.
Step(o, t)  == txs' = [txs EXCEPT ![o] = t]
Private     == UNCHANGED <<deps, counts, verdicts, ops, decided>>

\* WithTx: an error rolls the whole unit back.
Abort(o) == Step(o, NoTx) /\ Private

-----------------------------------------------------------------------------
(* The statements.                                                         *)

\* One command at a time per operator.
BeginCommand(o, kind, want, v) ==
    /\ txs[o] = NoTx
    /\ kind \in Kinds /\ ops < MaxOps
    /\ Step(o, Begin(kind, want, v))
    /\ ops' = ops + 1
    /\ UNCHANGED <<deps, counts, verdicts, decided>>

\* GetCurrentDeployment(Spec), CurrentDeploymentID: the version the command
\* works on, or nothing to work on.
Resolve(o) ==
    LET t == txs[o]
    IN  /\ t # NoTx /\ t.pc = "resolve"
        /\ IF Current = {} THEN Abort(o)
           ELSE \E cur \in Current :
                  /\ Step(o, [t EXCEPT
                        !.from = cur,
                        !.to   = IF t.kind \in {"scale", "down"} THEN cur ELSE @,
                        !.pc   = CASE t.kind = "scale" -> "regions"
                                   [] t.kind = "down"  -> "zero"
                                   [] OTHER            -> "counts"])
                  /\ Private

\* The target of a rollback: the version asked for, or the one before (0).
TargetOf(t) ==
    LET earlier == {v \in Known : v < t.from}
    IN  IF t.to # 0 THEN (Known \ {t.from}) \cap {t.to}
        ELSE IF earlier = {} THEN {} ELSE {Max(earlier)}

CountsOf(v) == [g \in {x \in Regions : counts[<<v, x>>] # Absent} |-> counts[<<v, g>>]]

\* carryRegionCounts: what the current version has, zero where only the
\* target has anything.
Carried(from, to) ==
    [g \in DOMAIN CountsOf(from) \cup DOMAIN CountsOf(to) |->
        IF counts[<<from, g>>] # Absent THEN counts[<<from, g>>] ELSE 0]

\* resize: the current counts, patched.
Merged(from, want) ==
    [g \in DOMAIN CountsOf(from) \cup DOMAIN want |->
        IF g \in DOMAIN want THEN want[g] ELSE counts[<<from, g>>]]

ReadCounts(o) ==
    LET t == txs[o]
    IN  /\ t # NoTx /\ t.pc = "counts"
        /\ \/ /\ t.kind = "resize"
              /\ LET want == Merged(t.from, t.want)
                 IN  Step(o, [t EXCEPT !.want = want, !.todo = DOMAIN want, !.pc = "version"]) /\ Private
           \/ /\ t.kind = "rollback"
              /\ IF TargetOf(t) = {} THEN Abort(o)
                 ELSE \E v \in TargetOf(t) :
                        Step(o, [t EXCEPT !.to = v, !.want = Carried(t.from, v),
                                          !.todo = DOMAIN Carried(t.from, v), !.pc = "regions"]) /\ Private

\* Seeded fault: a number is skipped.
ReadVersionSkips(o) ==
    LET t == txs[o]
    IN  /\ t # NoTx /\ t.pc = "version"
        /\ Step(o, [t EXCEPT !.next = Max(Known \cup {0}) + 2, !.pc = "clear"])
        /\ Private

\* NextDeploymentVersion.
ReadVersion(o) ==
    LET t == txs[o]
    IN  /\ t # NoTx /\ t.pc = "version"
        /\ Step(o, [t EXCEPT !.next = Max(Known \cup {0}) + 1, !.pc = "clear"])
        /\ Private

RegionCommitted(o) ==
    LET t == txs[o]
        g == Min(t.todo)
    IN  /\ t # NoTx /\ t.pc = "regions" /\ t.todo # {}
        /\ counts' = [counts EXCEPT ![<<t.to, g>>] = t.want[g]]
        /\ Step(o, [t EXCEPT !.todo = @ \ {g}])
        /\ UNCHANGED <<deps, verdicts, ops, decided>>

\* SetDeploymentRegion, an upsert, region by region in sorted order.
SetDeploymentRegion(o) ==
    LET t == txs[o]
        g == Min(t.todo)
    IN  /\ t # NoTx /\ t.pc = "regions" /\ t.todo # {}
        /\ <<t.to, g>> \notin LockedCounts(o)
        /\ Step(o, [t EXCEPT !.counts = Put(@, <<t.to, g>>, t.want[g]), !.todo = @ \ {g}])
        /\ Private

\* ZeroDeploymentRegions: one UPDATE without an order.  It has the version's
\* rows that are committed as it starts ...
ZeroStarts(o) ==
    LET t == txs[o]
    IN  /\ t # NoTx /\ t.pc = "zero"
        /\ Step(o, [t EXCEPT !.want = [g \in DOMAIN CountsOf(t.to) |-> 0],
                             !.todo = DOMAIN CountsOf(t.to), !.pc = "zeroing"])
        /\ Private

\* ... and locks them one by one as its scan meets them, in whatever order.
ZeroDeploymentRegions(o) ==
    LET t == txs[o]
    IN  /\ t # NoTx /\ t.pc = "zeroing" /\ t.todo # {}
        /\ \E g \in t.todo :
              /\ <<t.to, g>> \notin LockedCounts(o)
              /\ Step(o, [t EXCEPT !.counts = Put(@, <<t.to, g>>, t.want[g]), !.todo = @ \ {g}])
        /\ Private

\* The status the outgoing version gets.
Outgoing(t) == IF t.kind = "rollback" THEN "rolledback" ELSE "superseded"

\* SupersedeCurrentDeployments, MarkCurrentRolledBack: the row that is current
\* as the statement starts ...
ClearStarts(o) ==
    LET t == txs[o]
    IN  /\ t # NoTx
        /\ t.pc = "clear" \/ (t.kind = "rollback" /\ t.pc = "regions" /\ t.todo = {})
        /\ Step(o, [t EXCEPT !.cand = Current, !.pc = "clearing"])
        /\ Private

\* ... is cleared once no other transaction holds it, if it still is current.
ClearCurrent(o) ==
    LET t == txs[o]
    IN  /\ t # NoTx /\ t.pc = "clearing"
        /\ t.cand \cap LockedDeps(o) = {}
        /\ Step(o, [t EXCEPT
               !.deps = [v \in t.cand \cap Current |-> [current |-> FALSE, status |-> Outgoing(t)]],
               !.pc   = IF t.kind = "rollback" THEN "promote" ELSE "insert"])
        /\ Private

\* Whether another row than those this transaction cleared is current.
OneCurrentViolated(t) == Current \ DOMAIN t.deps # {}

\* Seeded fault: no unique index on the current row.
InsertUnchecked(o) ==
    LET t == txs[o]
    IN  /\ t # NoTx /\ t.pc = "insert"
        /\ t.next \notin LockedDeps(o)
        /\ IF t.next \in Known THEN Abort(o)
           ELSE /\ Step(o, [t EXCEPT !.deps = Put(@, t.next, [current |-> TRUE, status |-> "pending"]),
                                     !.to = t.next, !.pc = "regions"])
                /\ Private

\* CreateDeployment: a version or a current row that is there already ends it.
CreateDeployment(o) ==
    LET t == txs[o]
    IN  /\ t # NoTx /\ t.pc = "insert"
        /\ t.next \notin LockedDeps(o)
        /\ IF t.next \in Known \/ OneCurrentViolated(t) THEN Abort(o)
           ELSE /\ Step(o, [t EXCEPT !.deps = Put(@, t.next, [current |-> TRUE, status |-> "pending"]),
                                     !.to = t.next, !.pc = "regions"])
                /\ Private

\* Seeded fault: promoted with its old status.
PromoteOnly(o) ==
    LET t == txs[o]
    IN  /\ t # NoTx /\ t.pc = "promote"
        /\ t.to \notin LockedDeps(o)
        /\ IF OneCurrentViolated(t) THEN Abort(o)
           ELSE /\ Step(o, [t EXCEPT !.deps = Put(@, t.to, [deps[t.to] EXCEPT !.current = TRUE]), !.pc = "commit"])
                /\ Private

SetDeploymentCurrent(o) ==
    LET t == txs[o]
    IN  /\ t # NoTx /\ t.pc = "promote"
        /\ t.to \notin LockedDeps(o)
        /\ IF OneCurrentViolated(t) THEN Abort(o)
           ELSE /\ Step(o, [t EXCEPT !.deps = Put(@, t.to, [current |-> TRUE, status |-> "pending"]),
                                     !.pc = "commit"])
                /\ Private

CommitTx(o) ==
    LET t == txs[o]
    IN  /\ t # NoTx
        /\ \/ t.pc = "commit"
           \/ t.kind # "rollback" /\ t.pc = "regions" /\ t.todo = {}
           \/ t.pc = "zeroing" /\ t.todo = {}
        /\ deps'   = [v \in Versions |-> IF v \in DOMAIN t.deps THEN t.deps[v] ELSE deps[v]]
        /\ counts' = [k \in Keys |-> IF k \in DOMAIN t.counts THEN t.counts[k] ELSE counts[k]]
        /\ Step(o, NoTx)
        /\ UNCHANGED <<verdicts, ops, decided>>

-----------------------------------------------------------------------------
(* The database: transactions that wait for each other in a circle.        *)

\* The rows a transaction is to write next.
WantedDeps(t) == CASE t.pc = "clearing" -> t.cand
                   [] t.pc = "insert"   -> {t.next}
                   [] t.pc = "promote"  -> {t.to}
                   [] OTHER             -> {}
WantedCounts(t) == {t.to} \X (CASE t.pc = "regions" /\ t.todo # {} -> {Min(t.todo)}
                                [] t.pc = "zeroing"                -> t.todo
                                [] OTHER                           -> {})

WaitsFor(o) ==
    {p \in Operators \ {o} :
        /\ txs[o] # NoTx /\ txs[p] # NoTx
        /\ \/ WantedDeps(txs[o]) \cap DOMAIN txs[p].deps # {}
           \/ WantedCounts(txs[o]) \cap DOMAIN txs[p].counts # {}}

\* Each of them waits for another of them, and each is waited for.
Circle(S) ==
    /\ S # {} /\ \A o \in S : WaitsFor(o) \cap S # {}
    /\ \E next \in Bijection(S, S) : \A o \in S : next[o] \in WaitsFor(o)

\* The deadlock detector refuses a statement; WithTx rolls back.
DeadlockDetected(o) ==
    /\ \E S \in SUBSET Operators : o \in S /\ Circle(S)
    /\ Abort(o)

-----------------------------------------------------------------------------
(* The engine: a status decided on the current version of a snapshot, then *)
(* written by version, whatever has become of it.                          *)

DecideStatus(s) ==
    /\ decided < MaxVerdicts
    /\ \E v \in Current : deps[v].status \in {"pending", "active"} /\ verdicts' = verdicts \cup {<<v, s>>}
    /\ decided' = decided + 1
    /\ UNCHANGED <<deps, counts, txs, ops>>

SetDeploymentStatus(d) ==
    /\ \A o \in Operators : txs[o] # NoTx => d[1] \notin DOMAIN txs[o].deps
    /\ deps' = [deps EXCEPT ![d[1]].status = d[2]]
    /\ verdicts' = verdicts \ {d}
    /\ UNCHANGED <<counts, txs, ops, decided>>

-----------------------------------------------------------------------------
Init ==
    /\ deps = [v \in Versions |-> NoDep]
    /\ counts = [k \in Keys |-> Absent]
    /\ txs = [o \in Operators |-> NoTx]
    /\ verdicts = {}
    /\ ops = 0 /\ decided = 0

\* Version 1 is deployed and active already, with one replica in each region.
Deployed ==
    /\ 1 \in Versions
    /\ deps = [v \in Versions |-> IF v = 1 THEN [current |-> TRUE, status |-> "active"] ELSE NoDep]
    /\ counts = [k \in Keys |-> IF k[1] = 1 THEN 1 ELSE Absent]
    /\ txs = [o \in Operators |-> NoTx]
    /\ verdicts = {}
    /\ ops = 0 /\ decided = 0

Command(o) ==
    \/ \E kind \in {"deploy", "scale", "resize"}, want \in Requests : BeginCommand(o, kind, want, 0)
    \/ \E v \in {0} \cup Versions : BeginCommand(o, "rollback", <<>>, v)
    \/ BeginCommand(o, "down", <<>>, 0)

Statement(o) ==
    \/ Resolve(o) \/ ReadCounts(o) \/ ReadVersion(o)
    \/ SetDeploymentRegion(o) \/ ZeroStarts(o) \/ ZeroDeploymentRegions(o)
    \/ ClearStarts(o) \/ ClearCurrent(o)
    \/ CreateDeployment(o) \/ SetDeploymentCurrent(o)
    \/ CommitTx(o)

Engine == \/ \E s \in {"active", "failed"} : DecideStatus(s)
          \/ \E d \in verdicts : SetDeploymentStatus(d)

Deadlock == \E o \in Operators : DeadlockDetected(o)

Next == Engine \/ Deadlock \/ \E o \in Operators : Command(o) \/ Statement(o)

Spec == (Init \/ Deployed) /\ [][Next]_vars

\* A transaction under way sends its next statement; the database runs one
\* that need not wait, and finds a circle when its deadlock_timeout is over.
FairSpec == Spec /\ WF_vars(Deadlock) /\ \A o \in Operators : WF_vars(Statement(o))

-----------------------------------------------------------------------------
(* Properties.                                                             *)

\* The tables and the transactions hold values of their types.
TypeOK ==
    /\ deps \in [Versions -> [current : BOOLEAN, status : Statuses] \cup {NoDep}]
    /\ counts \in [Keys -> Nat \cup {Absent}]
    /\ \A o \in Operators : txs[o] # NoTx =>
          /\ txs[o].pc \in {"resolve", "counts", "version", "clear", "clearing", "insert", "regions",
                            "zero", "zeroing", "promote", "commit"}
          /\ DOMAIN txs[o].deps \subseteq Versions /\ DOMAIN txs[o].counts \subseteq Keys

History == INSTANCE VersionHistory
    WITH last <- Cardinality(Known), head <- Max(Current \cup {0})

\* However the statements of concurrent commands interleave, wait and abort,
\* what is committed is a version history: no gap and no repeated number, one
\* current version, moved only by a deploy or a rollback.
CommitsAreHistory == /\ [](Cardinality(Current) <= 1)
                     /\ History!Spec

\* The version the engine works toward is never one an operator retired, and
\* no retired version waits for a rollout, although the engine writes statuses
\* decided on older snapshots.
CurrentIsLive ==
    \A v \in Known : IF deps[v].current THEN deps[v].status \in {"pending", "active", "failed"}
                                        ELSE deps[v].status # "pending"

\* A multi-region patch is all or nothing: when every command names every
\* region with one number, no version ever holds two different ones, whichever
\* scale, resize, rollback and down run at once.
CountsNeverTorn ==
    \A v \in Versions, g, h \in Regions : counts[<<v, g>>] = counts[<<v, h>>]

\* The commands S do not wait for each other in a circle, or a down is one of them.
NoCircleWithoutDown(S) == Circle(S) => \E o \in S : txs[o].kind = "down"

=============================================================================
