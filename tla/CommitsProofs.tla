----------------------------- MODULE CommitsProofs -----------------------------
(***************************************************************************)
(* The deployment commands for every number of operators, regions,         *)
(* versions and requests.  A version history is only visible in what is    *)
(* committed; what is inductive is what a transaction under way may have   *)
(* written, and that the rows it wrote are its own.                        *)
(***************************************************************************)
EXTENDS Commits, FiniteSetTheorems, NaturalsInduction, WellFoundedInduction, TLAPS

-----------------------------------------------------------------------------
(* Partial functions and numbers.                                          *)

Partial(D, R) == UNION {[S -> R] : S \in SUBSET D}

LEMMA EmptyPartial ==
    ASSUME NEW D, NEW R PROVE <<>> \in Partial(D, R) /\ DOMAIN <<>> = {}
  <1>1. <<>> \in [{} -> R] /\ DOMAIN <<>> = {}
    OBVIOUS
  <1> QED
    BY <1>1 DEF Partial

LEMMA PartialIs ==
    ASSUME NEW D, NEW R, NEW f \in Partial(D, R)
    PROVE  DOMAIN f \subseteq D /\ f \in [DOMAIN f -> R]
  BY DEF Partial

LEMMA IsPartial ==
    ASSUME NEW D, NEW R, NEW S \in SUBSET D, NEW f \in [S -> R]
    PROVE  f \in Partial(D, R) /\ DOMAIN f = S
  BY DEF Partial

\* What a statement adds to its transaction's writes.
LEMMA PutPartial ==
    ASSUME NEW D, NEW R, NEW f \in Partial(D, R), NEW k \in D, NEW x \in R
    PROVE  Put(f, k, x) \in Partial(D, R)
  <1>1. DOMAIN f \cup {k} \subseteq D /\ f \in [DOMAIN f -> R]
    BY PartialIs
  <1>2. Put(f, k, x) \in [DOMAIN f \cup {k} -> R]
    BY <1>1 DEF Put
  <1> QED
    BY <1>1, <1>2, IsPartial

\* The highest of the numbers 1 .. n, or 0.
LEMMA MaxInterval == ASSUME NEW n \in Nat PROVE Max((1 .. n) \cup {0}) = n
  <1> DEFINE S == (1 .. n) \cup {0}
  <1>1. n \in S /\ \A y \in S : n >= y
    OBVIOUS
  <1>2. \A x \in S : (\A y \in S : x >= y) => x = n
    BY <1>1
  <1> HIDE DEF S
  <1>3. Max(S) = n
    BY <1>1, <1>2 DEF Max
  <1> QED
    BY <1>3 DEF S

LEMMA MaxZero == ASSUME NEW n \in Nat PROVE Max({n} \cup {0}) = n
  <1> DEFINE S == {n} \cup {0}
  <1>1. n \in S /\ \A y \in S : n >= y
    OBVIOUS
  <1>2. \A x \in S : (\A y \in S : x >= y) => x = n
    BY <1>1
  <1> HIDE DEF S
  <1>3. Max(S) = n
    BY <1>1, <1>2 DEF Max
  <1> QED
    BY <1>3 DEF S

\* The first region in sorted order is one of them.
LEMMA MinIsIn ==
    ASSUME NEW S \in SUBSET Nat, S # {} PROVE Min(S) \in S /\ \A y \in S : Min(S) =< y
  <1>1. PICK x \in S : \A y \in S : <<y, x>> \notin OpToRel(<, Nat)
    BY NatLessThanWellFounded, WFMin
  <1>2. \A y \in S : x =< y
    <2> SUFFICES ASSUME NEW y \in S, y < x PROVE FALSE
      OBVIOUS
    <2>1. <<y, x>> \in OpToRel(<, Nat)
      BY DEF OpToRel
    <2> QED
      BY <1>1, <2>1
  <1>3. \E z \in S : \A y \in S : z =< y
    BY <1>2
  <1> QED
    BY <1>3 DEF Min

-----------------------------------------------------------------------------
(* The inductive invariant.                                                *)

Creates == {"deploy", "resize"}
Outgone == {[current |-> FALSE, status |-> s] : s \in {"superseded", "rolledback"}}
Incoming == [current |-> TRUE, status |-> "pending"]
Written  == Outgone \cup {Incoming}
Early    == {"resolve", "counts", "version", "clear", "clearing", "insert"}

Tx == [kind : {"deploy", "rollback", "scale", "resize", "down"},
       pc : Early \cup {"regions", "zero", "zeroing", "promote", "commit"},
       want : Partial(Regions, Nat), from : Nat, to : Nat, next : Nat,
       cand : SUBSET Versions, todo : SUBSET Regions,
       deps : Partial(Versions, Written), counts : Partial(Keys, Nat)]

\* Which statements a command consists of.
PcOK(t) ==
    /\ t.todo \subseteq DOMAIN t.want
    /\ t.kind \in Creates => t.pc \in Early \cup {"regions"}
    /\ t.kind = "rollback" => t.pc \in {"resolve", "counts", "regions", "clearing", "promote", "commit"}
    /\ t.kind = "scale" => t.pc \in {"resolve", "regions"}
    /\ t.kind = "down" => t.pc \in {"resolve", "zero", "zeroing"}

Cleared(t)   == t.pc \in {"insert", "promote"}
Promoting(t) == (t.kind \in Creates /\ t.pc = "regions") \/ (t.kind = "rollback" /\ t.pc = "commit")

\* What a transaction knows of the versions stays true until it ends.
VersionsOK(t) ==
    /\ t.kind \in Creates /\ t.pc \in {"clear", "clearing", "insert"} =>
          t.next # 0 /\ \A v \in Versions : v < t.next => v \in Known
    /\ t.kind \in Creates /\ t.pc = "regions" => t.to \in Versions
    /\ t.kind \notin Creates /\ t.pc # "resolve" => t.from \in Known
    /\ t.kind \notin Creates /\ t.pc \notin {"resolve", "counts"} => t.to \in Known
    /\ t.kind \in Creates /\ t.pc = "counts" => t.from \in Known

\* The rows a transaction has written: none, what it cleared, and what it
\* makes current once nothing else is.
WritesOK(t) ==
    /\ ~Cleared(t) /\ ~Promoting(t) => DOMAIN t.deps = {}
    /\ Cleared(t) => \A v \in DOMAIN t.deps : v \in Known /\ t.deps[v] \in Outgone
    /\ Promoting(t) =>
          /\ t.to \in DOMAIN t.deps /\ t.deps[t.to] = Incoming
          /\ \A v \in DOMAIN t.deps \ {t.to} : v \in Known /\ t.deps[v] \in Outgone
          /\ Current \subseteq DOMAIN t.deps
          /\ t.kind \in Creates => Known = 1 .. (t.to - 1)

Active == {o \in Operators : txs[o] # NoTx}

Tables ==
    /\ deps \in [Versions -> [current : BOOLEAN, status : Statuses] \cup {NoDep}]
    /\ counts \in [Keys -> Nat \cup {Absent}]
    /\ verdicts \subseteq Known \X {"active", "failed"}
    /\ txs = [o \in Operators |-> txs[o]]

\* No gap, and one current version from the first on.
Numbered == \E n \in Nat : Known = 1 .. n /\ (n # 0 => \E c \in Known : Current = {c})

Sound(t) == t \in Tx /\ PcOK(t) /\ VersionsOK(t) /\ WritesOK(t)
Transactions == \A o \in Active : Sound(txs[o])

\* Row locks.
Exclusive == \A o, p \in Active : o # p => DOMAIN txs[o].deps \cap DOMAIN txs[p].deps = {}

\* A version costs a command, but for one that may be there from the start.
Counted ==
    /\ IsFiniteSet(Active) /\ ops \in 0 .. MaxOps
    /\ \A n \in Nat : Known = 1 .. n => n + Cardinality(Active) <= ops + 1

Inv == Tables /\ Numbered /\ Transactions /\ Exclusive /\ Counted /\ CurrentIsLive

-----------------------------------------------------------------------------
(* Steps of one transaction's own.                                         *)

\* Only o's transaction differs afterwards.
Others(o) == \A p \in Operators \ {o} : txs'[p] = txs[p]

LEMMA StepIs ==
    ASSUME Tables, NEW o \in Operators, NEW t, Step(o, t)
    PROVE  txs'[o] = t /\ Others(o) /\ txs' = [p \in Operators |-> txs'[p]]
  BY DEF Tables, Step, Others

LEMMA SameTables ==
    ASSUME deps' = deps
    PROVE  /\ Known' = Known /\ Current' = Current /\ CurrentIsLive' = CurrentIsLive
           /\ Numbered' = Numbered
  BY DEF Known, Current, CurrentIsLive, Numbered

\* What is sound stays sound while the deployments are what they were.
LEMMA SoundStays ==
    ASSUME Known' = Known, Current' = Current, NEW p, Sound(txs'[p])
    PROVE  Sound(txs[p])'
  BY DEF Sound, PcOK, VersionsOK, WritesOK, Cleared, Promoting, Tx

\* A statement keeps the invariant if what its transaction is then is sound
\* and no other transaction holds a row it wrote.
LEMMA StatementKeeps ==
    ASSUME Inv, NEW o \in Active, Others(o), Private,
           txs' = [p \in Operators |-> txs'[p]],
           Sound(txs'[o]),
           \A p \in Active \ {o} : DOMAIN txs'[o].deps \cap DOMAIN txs[p].deps = {}
    PROVE  Inv'
  <1> USE DEF Private
  <1>1. /\ Known' = Known /\ Current' = Current /\ CurrentIsLive' /\ Numbered'
    BY SameTables DEF Inv
  <1>2. txs'[o] # NoTx
    BY DEF Sound, Tx, NoTx
  <1>3. Active' = Active
    BY <1>2 DEF Active, Others
  <1>4. Tables'
    BY <1>1 DEF Inv, Tables
  <1>5. Transactions'
    <2>1. \A p \in Active : Sound(txs'[p])
      BY DEF Inv, Transactions, Others, Active
    <2> QED
      BY <1>1, <1>3, <2>1, SoundStays DEF Transactions
  <1>6. Exclusive'
    BY <1>3 DEF Inv, Exclusive, Others, Active
  <1>7. Counted'
    BY <1>1, <1>3 DEF Inv, Counted
  <1> QED
    BY <1>1, <1>4, <1>5, <1>6, <1>7 DEF Inv

LEMMA AbortKeeps == ASSUME Inv, NEW o \in Active, Abort(o) PROVE Inv'
  <1> USE DEF Abort, Private
  <1>0. o \in Operators
    BY DEF Active
  <1>1. /\ Known' = Known /\ Current' = Current /\ CurrentIsLive' /\ Numbered'
    BY SameTables DEF Inv
  <1>2. txs'[o] = NoTx /\ Others(o) /\ txs' = [p \in Operators |-> txs'[p]]
    BY <1>0, StepIs DEF Inv
  <1>3. Active' = Active \ {o}
    BY <1>2 DEF Active, Others
  <1>4. Tables'
    BY <1>1, <1>2 DEF Inv, Tables
  <1>5. \A p \in Active' : p \in Active /\ txs'[p] = txs[p]
    BY <1>2, <1>3 DEF Others, Active
  <1>6. Transactions' /\ Exclusive'
    BY <1>1, <1>5, SoundStays DEF Inv, Transactions, Exclusive
  <1>7. Counted'
    <2>0. IsFiniteSet(Active) /\ Cardinality(Active) \in Nat
      BY FS_CardinalityType DEF Inv, Counted
    <2>1. IsFiniteSet(Active') /\ Cardinality(Active') = Cardinality(Active) - 1
      BY <1>3, <2>0, FS_RemoveElement
    <2>2. Cardinality(Active) \in Nat /\ Cardinality(Active') \in Nat
      BY <2>0, <2>1, FS_CardinalityType
    <2> QED
      BY <1>1, <2>1, <2>2 DEF Inv, Counted
  <1> QED
    BY <1>1, <1>4, <1>6, <1>7 DEF Inv

\* The first statement of each command: nothing is written yet.
LEMMA BeginKeeps ==
    ASSUME Inv, NEW o \in Operators, NEW kind \in {"deploy", "rollback", "scale", "resize", "down"},
           NEW want \in Partial(Regions, Nat), NEW v \in Nat,
           BeginCommand(o, kind, want, v)
    PROVE  Inv'
  <1> USE DEF BeginCommand
  <1>1. /\ Known' = Known /\ Current' = Current /\ CurrentIsLive' /\ Numbered'
    BY SameTables DEF Inv
  <1>2. /\ txs'[o] = Begin(kind, want, v) /\ Others(o) /\ txs' = [p \in Operators |-> txs'[p]]
        /\ o \notin Active
    BY StepIs DEF Inv, Active
  <1>3. Begin(kind, want, v) \in Tx
    <2>1. DOMAIN want \subseteq Regions
      BY PartialIs
    <2> QED
      BY <2>1, EmptyPartial DEF Begin, Tx, Early
  <1>4. Begin(kind, want, v) # NoTx
    BY <1>3 DEF Tx, NoTx
  <1>5. Active' = Active \cup {o}
    BY <1>2, <1>4 DEF Active, Others
  <1>6. \A p \in Active' \ {o} : p \in Active /\ txs'[p] = txs[p]
    BY <1>2, <1>5 DEF Others, Active
  <1>7. Tables'
    BY <1>1, <1>2 DEF Inv, Tables
  <1>8. DOMAIN txs'[o].deps = {}
    BY <1>2, EmptyPartial DEF Begin
  <1>9. Transactions'
    <2>1. PcOK(txs'[o]) /\ ~Cleared(txs'[o]) /\ ~Promoting(txs'[o])
      BY <1>2 DEF Begin, PcOK, Cleared, Promoting, Creates, Early
    <2>2. VersionsOK(txs'[o]) /\ WritesOK(txs'[o])
      BY <1>2, <1>8, <2>1 DEF Begin, VersionsOK, WritesOK, Creates
    <2>3. \A p \in Active' : Sound(txs'[p])
      BY <1>2, <1>3, <1>6, <2>1, <2>2 DEF Inv, Transactions, Sound
    <2> QED
      BY <1>1, <2>3, SoundStays DEF Transactions
  <1>10. Exclusive'
    BY <1>6, <1>8 DEF Inv, Exclusive
  <1>11. Counted'
    <2>1. IsFiniteSet(Active') /\ Cardinality(Active') = Cardinality(Active) + 1
      BY <1>2, <1>5, FS_AddElement DEF Inv, Counted
    <2>2. Cardinality(Active) \in Nat
      BY FS_CardinalityType DEF Inv, Counted
    <2> QED
      BY <1>1, <2>1, <2>2, CommitsAssumption DEF Inv, Counted
  <1> QED
    BY <1>1, <1>7, <1>9, <1>10, <1>11 DEF Inv

-----------------------------------------------------------------------------
(* The statements that read.                                               *)

LEMMA KnownIs == Known \subseteq Versions /\ Versions \subseteq Nat /\ 0 \notin Versions
  BY CommitsAssumption DEF Known, Versions

LEMMA CurrentIsKnown == ASSUME Tables PROVE Current \subseteq Known
  BY DEF Tables, Current, Known, NoDep

LEMMA ResolveKeeps == ASSUME Inv, NEW o \in Operators, Resolve(o) PROVE Inv'
  <1> DEFINE t == txs[o]
  <1>1. o \in Active /\ Sound(t) /\ t.pc = "resolve"
    BY DEF Resolve, Inv, Transactions, Active
  <1>2. CASE Abort(o)
    BY <1>1, <1>2, AbortKeeps
  <1>3. CASE ~Abort(o)
    <2>1. PICK cur \in Current : Private /\
             Step(o, [t EXCEPT !.from = cur,
                               !.to   = IF t.kind \in {"scale", "down"} THEN cur ELSE @,
                               !.pc   = CASE t.kind = "scale" -> "regions"
                                          [] t.kind = "down"  -> "zero"
                                          [] OTHER            -> "counts"])
      BY <1>3 DEF Resolve
    <2>2. cur \in Known /\ cur \in Nat
      BY CurrentIsKnown, KnownIs DEF Inv
    <2>3. /\ txs'[o] = [t EXCEPT !.from = cur,
                               !.to   = IF t.kind \in {"scale", "down"} THEN cur ELSE @,
                               !.pc   = CASE t.kind = "scale" -> "regions"
                                          [] t.kind = "down"  -> "zero"
                                          [] OTHER            -> "counts"]
          /\ Others(o) /\ txs' = [p \in Operators |-> txs'[p]]
      BY <2>1, StepIs DEF Inv
    <2>4. DOMAIN txs'[o].deps = {}
      BY <1>1, <2>3 DEF Sound, Tx, WritesOK, Cleared, Promoting
    <2>5. Sound(txs'[o])
      <3>1. txs'[o] \in Tx
        BY <1>1, <2>2, <2>3 DEF Sound, Tx, Early
      <3>2. PcOK(txs'[o]) /\ ~Cleared(txs'[o]) /\ ~Promoting(txs'[o])
        BY <1>1, <2>3 DEF Sound, Tx, PcOK, Cleared, Promoting, Creates, Early
      <3>3. VersionsOK(txs'[o])
        BY <1>1, <2>2, <2>3 DEF Sound, Tx, VersionsOK, Creates
      <3> QED
        BY <2>4, <3>1, <3>2, <3>3 DEF Sound, WritesOK
    <2> QED
      BY <1>1, <2>1, <2>3, <2>4, <2>5, StatementKeeps
  <1> QED
    BY <1>2, <1>3

LEMMA CountsPartial ==
    ASSUME Tables, NEW v \in Versions
    PROVE  /\ DOMAIN CountsOf(v) = {g \in Regions : counts[<<v, g>>] # Absent}
           /\ \A g \in DOMAIN CountsOf(v) : counts[<<v, g>>] \in Nat
  <1>1. \A g \in Regions : counts[<<v, g>>] \in Nat \cup {Absent}
    BY DEF Tables, Keys
  <1> QED
    BY <1>1 DEF CountsOf

LEMMA CarriedPartial ==
    ASSUME Tables, NEW v \in Versions, NEW w \in Versions
    PROVE  Carried(v, w) \in Partial(Regions, Nat)
  <1> DEFINE D == DOMAIN CountsOf(v) \cup DOMAIN CountsOf(w)
  <1>1. D \subseteq Regions
    BY CountsPartial
  <1>2. \A g \in D : counts[<<v, g>>] # Absent => counts[<<v, g>>] \in Nat
    BY CountsPartial
  <1>3. Carried(v, w) \in [D -> Nat]
    BY <1>2 DEF Carried
  <1> QED
    BY <1>1, <1>3, IsPartial

LEMMA MergedPartial ==
    ASSUME Tables, NEW v \in Versions, NEW want \in Partial(Regions, Nat)
    PROVE  Merged(v, want) \in Partial(Regions, Nat)
  <1> DEFINE D == DOMAIN CountsOf(v) \cup DOMAIN want
  <1>1. D \subseteq Regions
    BY CountsPartial, PartialIs
  <1>2. /\ \A g \in DOMAIN want : want[g] \in Nat
        /\ \A g \in D \ DOMAIN want : counts[<<v, g>>] \in Nat
    <2>1. want \in [DOMAIN want -> Nat]
      BY PartialIs
    <2> QED
      BY <2>1, CountsPartial
  <1>3. Merged(v, want) \in [D -> Nat]
    BY <1>2 DEF Merged
  <1> QED
    BY <1>1, <1>3, IsPartial

\* The version before is one there is.
LEMMA TargetIsKnown ==
    ASSUME Inv, NEW t \in Tx, t.from \in Known PROVE TargetOf(t) \subseteq Known
  <1>1. PICK n \in Nat : Known = 1 .. n
    BY DEF Inv, Numbered
  <1> DEFINE earlier == {v \in Known : v < t.from}
  <1>2. earlier = 1 .. (t.from - 1)
    BY <1>1
  <1>3. earlier # {} => Max(earlier) = t.from - 1
    <2> HIDE DEF earlier
    <2> SUFFICES ASSUME earlier # {} PROVE Max(earlier) = t.from - 1
      OBVIOUS
    <2>1. t.from - 1 \in earlier /\ \A y \in earlier : t.from - 1 >= y
      BY <1>1, <1>2
    <2>2. \A x \in earlier : (\A y \in earlier : x >= y) => x = t.from - 1
      BY <2>1, <1>1, <1>2
    <2> QED
      BY <2>1, <2>2 DEF Max
  <1>4. earlier # {} => Max(earlier) \in Known
    BY <1>1, <1>2, <1>3
  <1> QED
    BY <1>4 DEF TargetOf

LEMMA ReadCountsKeeps == ASSUME Inv, NEW o \in Operators, ReadCounts(o) PROVE Inv'
  <1> DEFINE t == txs[o]
  <1>1. o \in Active /\ Sound(t) /\ t \in Tx /\ t.pc = "counts"
    BY DEF ReadCounts, Inv, Transactions, Active, Sound
  <1>2. t.from \in Known /\ t.from \in Versions /\ DOMAIN t.deps = {}
    BY <1>1, KnownIs DEF Sound, VersionsOK, WritesOK, Cleared, Promoting
  <1>3. CASE Abort(o)
    BY <1>1, <1>3, AbortKeeps
  <1>4. CASE t.kind = "resize"
    <2> DEFINE want == Merged(t.from, t.want)
    <2>1. want \in Partial(Regions, Nat) /\ DOMAIN want \subseteq Regions
      BY <1>1, <1>2, MergedPartial, PartialIs DEF Inv, Tx
    <2> HIDE DEF want
    <2>2. Step(o, [t EXCEPT !.want = want, !.todo = DOMAIN want, !.pc = "version"]) /\ Private
      BY <1>1, <1>4 DEF ReadCounts, want
    <2>3. /\ txs'[o] = [t EXCEPT !.want = want, !.todo = DOMAIN want, !.pc = "version"]
          /\ Others(o) /\ txs' = [p \in Operators |-> txs'[p]]
      BY <2>2, StepIs DEF Inv
    <2>4. /\ txs'[o] \in Tx /\ DOMAIN txs'[o].deps = {}
          /\ txs'[o].kind = "resize" /\ txs'[o].pc = "version"
          /\ txs'[o].todo = DOMAIN want /\ txs'[o].want = want
      BY <1>1, <1>2, <1>4, <2>1, <2>3 DEF Tx, Early
    <2>5. Sound(txs'[o])
      BY <2>4 DEF Sound, PcOK, VersionsOK, WritesOK, Cleared, Promoting, Creates, Early
    <2> QED
      BY <1>1, <2>2, <2>3, <2>4, <2>5, StatementKeeps
  <1>5. CASE t.kind = "rollback" /\ ~Abort(o)
    <2>1. PICK v \in TargetOf(t) :
             Step(o, [t EXCEPT !.to = v, !.want = Carried(t.from, v),
                               !.todo = DOMAIN Carried(t.from, v), !.pc = "regions"]) /\ Private
      BY <1>5 DEF ReadCounts
    <2>2. v \in Known /\ v \in Versions /\ v \in Nat
      BY <1>1, <1>2, TargetIsKnown, KnownIs
    <2> DEFINE want == Carried(t.from, v)
    <2>3. want \in Partial(Regions, Nat) /\ DOMAIN want \subseteq Regions
      BY <1>2, <2>2, CarriedPartial, PartialIs DEF Inv
    <2> HIDE DEF want
    <2>4. /\ txs'[o] = [t EXCEPT !.to = v, !.want = want, !.todo = DOMAIN want, !.pc = "regions"]
          /\ Others(o) /\ txs' = [p \in Operators |-> txs'[p]]
      BY <2>1, StepIs DEF Inv, want
    <2>5. /\ txs'[o] \in Tx /\ DOMAIN txs'[o].deps = {} /\ txs'[o].to \in Known
          /\ txs'[o].kind = "rollback" /\ txs'[o].pc = "regions" /\ txs'[o].from \in Known
          /\ txs'[o].todo = DOMAIN want /\ txs'[o].want = want
      BY <1>1, <1>2, <1>5, <2>2, <2>3, <2>4 DEF Tx
    <2>6. Sound(txs'[o])
      BY <2>5 DEF Sound, PcOK, VersionsOK, WritesOK, Cleared, Promoting, Creates
    <2> QED
      BY <1>1, <2>1, <2>4, <2>5, <2>6, StatementKeeps
  <1> QED
    BY <1>3, <1>4, <1>5 DEF ReadCounts

LEMMA ReadVersionKeeps == ASSUME Inv, NEW o \in Operators, ReadVersion(o) PROVE Inv'
  <1> DEFINE t == txs[o]
  <1>1. o \in Active /\ Sound(t) /\ t \in Tx /\ t.pc = "version"
    BY DEF ReadVersion, Inv, Transactions, Active, Sound
  <1>2. t.kind \in Creates /\ DOMAIN t.deps = {}
    BY <1>1 DEF Sound, PcOK, WritesOK, Cleared, Promoting, Tx, Creates
  <1>3. PICK n \in Nat : Known = 1 .. n
    BY DEF Inv, Numbered
  <1>4. PICK m \in Nat : m = n + 1 /\ m = Max(Known \cup {0}) + 1
    BY <1>3, MaxInterval
  <1>5. /\ txs'[o] = [t EXCEPT !.next = m, !.pc = "clear"]
        /\ Others(o) /\ txs' = [p \in Operators |-> txs'[p]]
    BY <1>4, StepIs DEF Inv, ReadVersion
  <1>6. /\ txs'[o] \in Tx /\ DOMAIN txs'[o].deps = {} /\ txs'[o].next = m
        /\ txs'[o].kind \in Creates /\ txs'[o].pc = "clear"
        /\ txs'[o].todo \subseteq DOMAIN txs'[o].want
    BY <1>1, <1>2, <1>5 DEF Sound, PcOK, Tx, Early
  <1>7. m # 0 /\ \A v \in Versions : v < m => v \in Known
    BY <1>3, <1>4, CommitsAssumption DEF Versions
  <1>8. VersionsOK(txs'[o])
    BY <1>6, <1>7 DEF VersionsOK, Creates
  <1>9. Sound(txs'[o])
    BY <1>6, <1>8 DEF Sound, PcOK, WritesOK, Cleared, Promoting, Creates, Early
  <1> QED
    BY <1>1, <1>5, <1>6, <1>9, StatementKeeps DEF ReadVersion

-----------------------------------------------------------------------------
(* The statements that write.                                              *)

\* A transaction writes counts.
LEMMA CountsStepKeeps ==
    ASSUME Inv, NEW o \in Active, NEW c \in Partial(Keys, Nat), NEW d \in SUBSET txs[o].todo,
           Step(o, [txs[o] EXCEPT !.counts = c, !.todo = d]), Private
    PROVE  Inv'
  <1> DEFINE t == txs[o]
  <1>1. Sound(t) /\ t \in Tx /\ o \in Operators
    BY DEF Inv, Transactions, Active, Sound
  <1>2. /\ txs'[o] = [t EXCEPT !.counts = c, !.todo = d]
        /\ Others(o) /\ txs' = [p \in Operators |-> txs'[p]]
    BY <1>1, StepIs DEF Inv
  <1>3. txs'[o] \in Tx
    BY <1>1, <1>2 DEF Tx
  <1>4. /\ txs'[o].kind = t.kind /\ txs'[o].pc = t.pc /\ txs'[o].want = t.want
        /\ txs'[o].from = t.from /\ txs'[o].to = t.to /\ txs'[o].next = t.next
        /\ txs'[o].deps = t.deps /\ txs'[o].todo = d
    BY <1>1, <1>2 DEF Tx
  <1>5. PcOK(txs'[o]) /\ VersionsOK(txs'[o]) /\ WritesOK(txs'[o])
    BY <1>1, <1>4 DEF Sound, PcOK, VersionsOK, WritesOK, Cleared, Promoting
  <1>6. \A p \in Active \ {o} : DOMAIN txs'[o].deps \cap DOMAIN txs[p].deps = {}
    BY <1>4 DEF Inv, Exclusive
  <1> QED
    BY <1>2, <1>3, <1>5, <1>6, StatementKeeps DEF Sound

LEMMA SetRegionKeeps == ASSUME Inv, NEW o \in Operators, SetDeploymentRegion(o) PROVE Inv'
  <1> DEFINE t == txs[o]
             g == Min(t.todo)
  <1>1. o \in Active /\ Sound(t) /\ t \in Tx /\ t.pc = "regions"
    BY DEF SetDeploymentRegion, Inv, Transactions, Active, Sound
  <1>2. t.to \in Versions /\ t.todo \subseteq DOMAIN t.want
    BY <1>1, KnownIs DEF Sound, VersionsOK, PcOK, Creates
  <1>3. t.todo \subseteq Regions /\ t.todo # {} /\ Regions \subseteq Nat
    BY <1>1, CommitsAssumption DEF SetDeploymentRegion, Tx
  <1>4. g \in t.todo /\ g \in Regions
    BY <1>3, MinIsIn
  <1>5. /\ Step(o, [t EXCEPT !.counts = Put(t.counts, <<t.to, g>>, t.want[g]), !.todo = t.todo \ {g}])
        /\ Private
    BY DEF SetDeploymentRegion
  <1> HIDE DEF g
  <1>6. t.want[g] \in Nat
    <2>1. t.want \in [DOMAIN t.want -> Nat]
      BY <1>1, PartialIs DEF Tx
    <2> QED
      BY <1>2, <1>4, <2>1
  <1>7. Put(t.counts, <<t.to, g>>, t.want[g]) \in Partial(Keys, Nat)
    <2>1. <<t.to, g>> \in Keys /\ t.counts \in Partial(Keys, Nat)
      BY <1>1, <1>2, <1>4 DEF Keys, Tx
    <2> QED
      BY <1>6, <2>1, PutPartial
  <1>8. t.todo \ {g} \in SUBSET t.todo
    OBVIOUS
  <1> QED
    BY <1>1, <1>5, <1>7, <1>8, CountsStepKeeps

\* A down begins with the rows of its version that are committed.
LEMMA ZeroStartsKeeps == ASSUME Inv, NEW o \in Operators, ZeroStarts(o) PROVE Inv'
  <1> DEFINE t    == txs[o]
             rows == DOMAIN CountsOf(t.to)
             want == [g \in rows |-> 0]
  <1>1. o \in Active /\ Sound(t) /\ t \in Tx /\ t.pc = "zero"
    BY DEF ZeroStarts, Inv, Transactions, Active, Sound
  <1>2. t.kind = "down" /\ t.to \in Known /\ t.to \in Versions /\ t.from \in Known
    BY <1>1, KnownIs DEF Sound, PcOK, VersionsOK, Tx, Creates, Early
  <1>3. rows \subseteq Regions
    BY <1>2, CountsPartial DEF Inv
  <1>4. DOMAIN want = rows /\ want \in [rows -> Nat]
    OBVIOUS
  <1>5. Step(o, [t EXCEPT !.want = want, !.todo = rows, !.pc = "zeroing"]) /\ Private
    BY DEF ZeroStarts
  <1> HIDE DEF want, rows
  <1>9. want \in Partial(Regions, Nat)
    BY <1>3, <1>4, IsPartial
  <1>6. /\ txs'[o] = [t EXCEPT !.want = want, !.todo = rows, !.pc = "zeroing"]
        /\ Others(o) /\ txs' = [p \in Operators |-> txs'[p]]
    BY <1>5, StepIs DEF Inv
  <1>7. /\ txs'[o] \in Tx /\ txs'[o].kind = "down" /\ txs'[o].pc = "zeroing"
        /\ txs'[o].to \in Known /\ txs'[o].from \in Known /\ DOMAIN txs'[o].deps = {}
        /\ txs'[o].todo \subseteq DOMAIN txs'[o].want
    BY <1>1, <1>2, <1>3, <1>4, <1>6, <1>9 DEF Sound, PcOK, WritesOK, Cleared, Promoting, Tx
  <1>8. Sound(txs'[o])
    BY <1>7 DEF Sound, PcOK, VersionsOK, WritesOK, Cleared, Promoting, Creates
  <1> QED
    BY <1>1, <1>5, <1>6, <1>7, <1>8, StatementKeeps

LEMMA ZeroKeeps == ASSUME Inv, NEW o \in Operators, ZeroDeploymentRegions(o) PROVE Inv'
  <1> DEFINE t == txs[o]
  <1>1. o \in Active /\ Sound(t) /\ t \in Tx /\ t.pc = "zeroing"
    BY DEF ZeroDeploymentRegions, Inv, Transactions, Active, Sound
  <1>2. t.to \in Versions /\ t.todo \subseteq DOMAIN t.want /\ t.todo \subseteq Regions
    BY <1>1, KnownIs DEF Sound, VersionsOK, PcOK, Creates, Early, Tx
  <1>3. PICK g \in t.todo :
           /\ Step(o, [t EXCEPT !.counts = Put(t.counts, <<t.to, g>>, t.want[g]), !.todo = t.todo \ {g}])
           /\ Private
    BY DEF ZeroDeploymentRegions
  <1>4. t.want[g] \in Nat
    <2>1. t.want \in [DOMAIN t.want -> Nat]
      BY <1>1, PartialIs DEF Tx
    <2> QED
      BY <1>2, <2>1
  <1>5. Put(t.counts, <<t.to, g>>, t.want[g]) \in Partial(Keys, Nat)
    <2>1. <<t.to, g>> \in Keys /\ t.counts \in Partial(Keys, Nat)
      BY <1>1, <1>2 DEF Keys, Tx
    <2> QED
      BY <1>4, <2>1, PutPartial
  <1>6. t.todo \ {g} \in SUBSET t.todo
    OBVIOUS
  <1> QED
    BY <1>1, <1>3, <1>5, <1>6, CountsStepKeeps

LEMMA ClearStartsKeeps == ASSUME Inv, NEW o \in Operators, ClearStarts(o) PROVE Inv'
  <1> DEFINE t == txs[o]
  <1>1. /\ o \in Active /\ Sound(t) /\ t \in Tx
        /\ t.pc = "clear" \/ (t.kind = "rollback" /\ t.pc = "regions")
    BY DEF ClearStarts, Inv, Transactions, Active, Sound
  <1>2. /\ txs'[o] = [t EXCEPT !.cand = Current, !.pc = "clearing"]
        /\ Others(o) /\ txs' = [p \in Operators |-> txs'[p]]
    BY StepIs DEF Inv, ClearStarts
  <1>3. DOMAIN t.deps = {} /\ Current \subseteq Versions
    BY <1>1 DEF Sound, WritesOK, Cleared, Promoting, Creates, Current
  <1>4. /\ txs'[o] \in Tx /\ txs'[o].pc = "clearing" /\ txs'[o].kind = t.kind
        /\ txs'[o].want = t.want /\ txs'[o].todo = t.todo /\ txs'[o].deps = t.deps
        /\ txs'[o].from = t.from /\ txs'[o].to = t.to /\ txs'[o].next = t.next
    BY <1>1, <1>2, <1>3 DEF Tx, Early
  <1>5. Sound(txs'[o])
    BY <1>1, <1>3, <1>4
       DEF Sound, PcOK, VersionsOK, WritesOK, Cleared, Promoting, Creates, Early, Tx
  <1> QED
    BY <1>1, <1>2, <1>3, <1>4, <1>5, StatementKeeps DEF ClearStarts

\* The row locks: what o may write, no other transaction has written.
LEMMA LockedIs ==
    ASSUME NEW o \in Operators
    PROVE  LockedDeps(o) = UNION {DOMAIN txs[p].deps : p \in Active \ {o}}
  BY DEF LockedDeps, Active

LEMMA ClearCurrentKeeps == ASSUME Inv, NEW o \in Operators, ClearCurrent(o) PROVE Inv'
  <1> DEFINE t == txs[o]
             S == t.cand \cap Current
             d == [v \in S |-> [current |-> FALSE, status |-> Outgoing(t)]]
             q == IF t.kind = "rollback" THEN "promote" ELSE "insert"
  <1>1. /\ o \in Active /\ Sound(t) /\ t \in Tx /\ t.pc = "clearing" 
        /\ t.cand \cap LockedDeps(o) = {}
    BY DEF ClearCurrent, Inv, Transactions, Active, Sound
  <1>2. /\ txs'[o] = [t EXCEPT !.deps = d, !.pc = q]
        /\ Others(o) /\ txs' = [p \in Operators |-> txs'[p]]
    BY StepIs DEF Inv, ClearCurrent
  <1>3. S \subseteq Versions /\ S \subseteq Known /\ Outgoing(t) \in {"superseded", "rolledback"}
    BY <1>1, CurrentIsKnown, KnownIs DEF Inv, Outgoing
  <1>4. d \in [S -> Written] /\ \A v \in S : d[v] \in Outgone
    BY <1>3 DEF Outgone, Written
  <1>5. d \in Partial(Versions, Written) /\ DOMAIN d = S
    <2> HIDE DEF d, S
    <2> QED
      BY <1>3, <1>4, IsPartial
  <1>6. t.kind \in Creates \cup {"rollback"} /\ q \in {"promote", "insert"}
    BY <1>1 DEF Sound, PcOK, Tx, Creates
  <1> HIDE DEF d, q
  <1>7. /\ txs'[o] \in Tx /\ txs'[o].pc = q /\ txs'[o].kind = t.kind
        /\ txs'[o].want = t.want /\ txs'[o].todo = t.todo /\ txs'[o].deps = d
        /\ txs'[o].from = t.from /\ txs'[o].to = t.to /\ txs'[o].next = t.next
    BY <1>1, <1>2, <1>5, <1>6 DEF Tx, Early
  <1>8. PcOK(txs'[o]) /\ Cleared(txs'[o]) /\ ~Promoting(txs'[o])
    BY <1>1, <1>6, <1>7 DEF Sound, PcOK, Cleared, Promoting, Creates, Early, q
  <1>9. VersionsOK(txs'[o])
    BY <1>1, <1>6, <1>7 DEF Sound, VersionsOK, Creates, q
  <1>10. WritesOK(txs'[o])
    BY <1>3, <1>4, <1>5, <1>7, <1>8 DEF WritesOK
  <1>11. \A p \in Active \ {o} : DOMAIN txs'[o].deps \cap DOMAIN txs[p].deps = {}
    BY <1>1, <1>5, <1>7, LockedIs
  <1> QED
    BY <1>1, <1>2, <1>7, <1>8, <1>9, <1>10, <1>11, StatementKeeps DEF Sound, ClearCurrent

LEMMA PutRow ==
    ASSUME NEW t \in Tx, NEW v \in Versions
    PROVE  Put(t.deps, v, Incoming) \in Partial(Versions, Written)
  <1>1. t.deps \in Partial(Versions, Written) /\ Incoming \in Written
    BY DEF Tx, Written
  <1> QED
    BY <1>1, PutPartial

\* A transaction that has cleared what was current makes a version current.
LEMMA PromoteStepKeeps ==
    ASSUME Inv, NEW o \in Active, NEW v \in Versions, NEW q \in {"regions", "commit"},
           Cleared(txs[o]), Others(o), txs' = [p \in Operators |-> txs'[p]], Private,
           txs'[o] \in Tx, txs'[o].kind = txs[o].kind, txs'[o].pc = q, txs'[o].to = v,
           txs'[o].want = txs[o].want, txs'[o].todo = txs[o].todo, txs'[o].from = txs[o].from,
           txs'[o].deps = Put(txs[o].deps, v, Incoming),
           v \notin LockedDeps(o), Current \subseteq DOMAIN txs[o].deps,
           \/ txs[o].kind \in Creates /\ q = "regions" /\ Known = 1 .. (v - 1)
           \/ txs[o].kind = "rollback" /\ q = "commit" /\ v \in Known
    PROVE  Inv'
  <1> DEFINE t == txs[o]
             d == txs'[o].deps
  <1>1. Sound(t) /\ t \in Tx /\ o \in Operators
    BY DEF Inv, Transactions, Active, Sound
  <1>2. DOMAIN d = DOMAIN t.deps \cup {v} /\ d[v] = Incoming
    BY DEF Put
  <1>3. \A i \in DOMAIN t.deps \ {v} : d[i] = t.deps[i]
    BY DEF Put
  <1>4. PcOK(txs'[o]) /\ Promoting(txs'[o]) /\ ~Cleared(txs'[o])
    BY <1>1 DEF Sound, PcOK, Cleared, Promoting, Creates
  <1>5. VersionsOK(txs'[o])
    BY <1>1 DEF Sound, VersionsOK, Creates, Cleared
  <1>6. WritesOK(txs'[o])
    BY <1>1, <1>2, <1>3, <1>4 DEF Sound, WritesOK, Creates
  <1>7. \A p \in Active \ {o} : DOMAIN d \cap DOMAIN txs[p].deps = {}
    BY <1>1, <1>2, LockedIs DEF Inv, Exclusive
  <1> QED
    BY <1>4, <1>5, <1>6, <1>7, StatementKeeps DEF Sound

LEMMA CreateKeeps == ASSUME Inv, NEW o \in Operators, CreateDeployment(o) PROVE Inv'
  <1> DEFINE t == txs[o]
  <1>1. o \in Active /\ Sound(t) /\ t \in Tx /\ t.pc = "insert" /\ t.next \notin LockedDeps(o)
    BY DEF CreateDeployment, Inv, Transactions, Active, Sound
  <1>2. CASE Abort(o)
    BY <1>1, <1>2, AbortKeeps
  <1>3. CASE ~Abort(o)
    <2>1. t.next \notin Known /\ Current \subseteq DOMAIN t.deps
      BY <1>3 DEF CreateDeployment, OneCurrentViolated
    <2>2. t.kind \in Creates /\ Cleared(t)
      BY <1>1 DEF Sound, PcOK, Tx, Creates, Cleared
    <2>3. t.next # 0 /\ t.next \in Nat /\ \A v \in Versions : v < t.next => v \in Known
      BY <1>1, <2>2 DEF Sound, VersionsOK, Tx
    <2>4. PICK n \in Nat : Known = 1 .. n /\ n + Cardinality(Active) <= ops + 1
      BY DEF Inv, Numbered, Counted
    <2>5. n + 1 <= MaxVersion
      <3>1. Cardinality(Active) \in Nat /\ Cardinality(Active) # 0
        BY <1>1, FS_CardinalityType, FS_EmptySet DEF Inv, Counted
      <3> QED
        BY <2>4, <3>1, CommitsAssumption DEF Inv, Counted
    <2>6. t.next = n + 1 /\ t.next \in Versions /\ Known = 1 .. (t.next - 1)
      <3>1. n + 1 \in Versions /\ n + 1 \notin Known
        BY <2>4, <2>5, CommitsAssumption DEF Versions
      <3>2. t.next <= n + 1
        BY <2>3, <3>1, <2>4
      <3>3. t.next >= n + 1
        BY <2>1, <2>3, <2>4
      <3> QED
        BY <2>3, <2>4, <3>1, <3>2, <3>3
    <2> DEFINE d == Put(t.deps, t.next, Incoming)
    <2>7. /\ txs'[o] = [t EXCEPT !.deps = d, !.to = t.next, !.pc = "regions"]
          /\ Others(o) /\ txs' = [p \in Operators |-> txs'[p]] /\ Private
      BY <1>3, StepIs DEF Inv, CreateDeployment, Incoming
    <2>8. d = Put(t.deps, t.next, Incoming) /\ d \in Partial(Versions, Written)
      BY <1>1, <2>6, PutRow
    <2> HIDE DEF d
    <2>9. /\ txs'[o] \in Tx /\ txs'[o].kind = t.kind /\ txs'[o].pc = "regions" /\ txs'[o].to = t.next
          /\ txs'[o].want = t.want /\ txs'[o].todo = t.todo /\ txs'[o].from = t.from
          /\ txs'[o].deps = d
      BY <1>1, <2>3, <2>7, <2>8 DEF Tx
    <2> QED
      BY <1>1, <2>1, <2>2, <2>6, <2>7, <2>8, <2>9, PromoteStepKeeps
  <1> QED
    BY <1>2, <1>3

LEMMA SetCurrentKeeps == ASSUME Inv, NEW o \in Operators, SetDeploymentCurrent(o) PROVE Inv'
  <1> DEFINE t == txs[o]
  <1>1. o \in Active /\ Sound(t) /\ t \in Tx /\ t.pc = "promote" /\ t.to \notin LockedDeps(o)
    BY DEF SetDeploymentCurrent, Inv, Transactions, Active, Sound
  <1>2. CASE Abort(o)
    BY <1>1, <1>2, AbortKeeps
  <1>3. CASE ~Abort(o)
    <2>1. Current \subseteq DOMAIN t.deps
      BY <1>3 DEF SetDeploymentCurrent, OneCurrentViolated
    <2>2. t.kind = "rollback" /\ Cleared(t) /\ t.to \in Known /\ t.to \in Versions
      BY <1>1, KnownIs DEF Sound, PcOK, VersionsOK, Tx, Creates, Cleared, Early
    <2> DEFINE d == Put(t.deps, t.to, Incoming)
    <2>3. /\ txs'[o] = [t EXCEPT !.deps = d, !.pc = "commit"]
          /\ Others(o) /\ txs' = [p \in Operators |-> txs'[p]] /\ Private
      BY <1>3, StepIs DEF Inv, SetDeploymentCurrent, Incoming
    <2>4. d = Put(t.deps, t.to, Incoming) /\ d \in Partial(Versions, Written)
      BY <1>1, <2>2, PutRow
    <2> HIDE DEF d
    <2>5. /\ txs'[o] \in Tx /\ txs'[o].kind = t.kind /\ txs'[o].pc = "commit" /\ txs'[o].to = t.to
          /\ txs'[o].want = t.want /\ txs'[o].todo = t.todo /\ txs'[o].from = t.from
          /\ txs'[o].deps = d
      BY <1>1, <2>3, <2>4 DEF Tx
    <2> QED
      BY <1>1, <2>1, <2>2, <2>3, <2>4, <2>5, PromoteStepKeeps
  <1> QED
    BY <1>2, <1>3

-----------------------------------------------------------------------------
(* Commits and the engine.                                                 *)

\* One transaction at most is about to make a version current: its locks hold
\* the row that is current now, or the first number there is.
LEMMA OnePromotes ==
    ASSUME Inv, NEW o \in Active, NEW p \in Active, Promoting(txs[o]), Promoting(txs[p]) PROVE o = p
  <1> SUFFICES ASSUME o # p PROVE FALSE
    OBVIOUS
  <1>1. Sound(txs[o]) /\ Sound(txs[p]) /\ DOMAIN txs[o].deps \cap DOMAIN txs[p].deps = {}
    BY DEF Inv, Transactions, Exclusive
  <1>2. Current = {}
    BY <1>1 DEF Sound, WritesOK
  <1>3. Known = {}
    BY <1>2 DEF Inv, Numbered
  <1>4. txs[o].kind \in Creates /\ txs[p].kind \in Creates
    BY <1>1, <1>3 DEF Sound, VersionsOK, Promoting, Creates
  <1>5. /\ txs[o].to \in Versions /\ Known = 1 .. (txs[o].to - 1) /\ txs[o].to \in DOMAIN txs[o].deps
        /\ txs[p].to \in Versions /\ Known = 1 .. (txs[p].to - 1) /\ txs[p].to \in DOMAIN txs[p].deps
    BY <1>1, <1>4 DEF Sound, VersionsOK, WritesOK, Promoting, Creates
  <1>6. txs[o].to = 1 /\ txs[p].to = 1
    <2>1. \A n \in Versions : 1 .. (n - 1) = {} => n = 1
      BY CommitsAssumption DEF Versions
    <2> QED
      BY <1>3, <1>5, <2>1
  <1> QED
    BY <1>1, <1>5, <1>6

\* What a commit changes.
LEMMA CommitIs ==
    ASSUME Inv, NEW o \in Operators, CommitTx(o)
    PROVE  /\ o \in Active /\ Sound(txs[o]) /\ txs[o] \in Tx
           /\ Promoting(txs[o]) \/ DOMAIN txs[o].deps = {}
           /\ Others(o) /\ Active' = Active \ {o} /\ txs' = [p \in Operators |-> txs'[p]]
           /\ \A p \in Active' : p \in Active /\ txs'[p] = txs[p]
           /\ counts' \in [Keys -> Nat \cup {Absent}]
  <1> DEFINE t == txs[o]
  <1>1. o \in Active /\ Sound(t) /\ t \in Tx
    BY DEF CommitTx, Inv, Transactions, Active, Sound
  <1>2. Promoting(t) \/ DOMAIN t.deps = {}
    BY <1>1 DEF CommitTx, Sound, PcOK, WritesOK, Cleared, Promoting, Creates, Tx
  <1>3. txs'[o] = NoTx /\ Others(o) /\ txs' = [p \in Operators |-> txs'[p]]
    BY StepIs DEF Inv, CommitTx
  <1>4. Active' = Active \ {o}
    BY <1>3 DEF Active, Others
  <1>5. \A p \in Active' : p \in Active /\ txs'[p] = txs[p]
    BY <1>3, <1>4 DEF Others, Active
  <1>6. counts' \in [Keys -> Nat \cup {Absent}]
    <2>1. \A k \in DOMAIN t.counts : t.counts[k] \in Nat
      BY <1>1, PartialIs DEF Tx
    <2>2. \A k \in Keys : counts[k] \in Nat \cup {Absent}
      BY DEF Inv, Tables
    <2> QED
      BY <2>1, <2>2 DEF CommitTx
  <1> QED
    BY <1>1, <1>2, <1>3, <1>4, <1>5, <1>6

\* The commit of a deploy, a resize or a rollback moves the current version.
LEMMA PromotionIs ==
    ASSUME Inv, NEW o \in Operators, CommitTx(o), Promoting(txs[o])
    PROVE  /\ txs[o].to \in Versions
           /\ Known' = Known \cup {txs[o].to} /\ Current' = {txs[o].to}
           /\ txs[o].kind \in Creates => Known = 1 .. (txs[o].to - 1)
           /\ txs[o].kind \notin Creates => txs[o].to \in Known
           /\ deps' \in [Versions -> [current : BOOLEAN, status : Statuses] \cup {NoDep}]
           /\ CurrentIsLive'
  <1> DEFINE t == txs[o]
             d == t.deps
  <1>1. Sound(t) /\ t \in Tx
    BY CommitIs
  <1>2. /\ t.to \in Versions /\ t.to \in DOMAIN d /\ d[t.to] = Incoming
        /\ \A v \in DOMAIN d \ {t.to} : v \in Known /\ d[v] \in Outgone
        /\ Current \subseteq DOMAIN d
        /\ t.kind \in Creates => Known = 1 .. (t.to - 1)
        /\ t.kind \notin Creates => t.to \in Known
    BY <1>1, KnownIs DEF Sound, VersionsOK, WritesOK, Promoting, Creates
  <1>3. \A v \in Versions : deps'[v] = IF v \in DOMAIN d THEN d[v] ELSE deps[v]
    BY DEF CommitTx
  <1>4. /\ \A r \in Outgone : r # NoDep /\ r.current = FALSE /\ r.status \in {"superseded", "rolledback"}
                              /\ r \in [current : BOOLEAN, status : Statuses]
        /\ Incoming # NoDep /\ Incoming.current = TRUE /\ Incoming.status = "pending"
        /\ Incoming \in [current : BOOLEAN, status : Statuses]
    <2>1. ASSUME NEW r \in Outgone
          PROVE  /\ r # NoDep /\ r.current = FALSE /\ r.status \in {"superseded", "rolledback"}
                 /\ r \in [current : BOOLEAN, status : Statuses]
      <3>1. PICK s \in {"superseded", "rolledback"} : r = [current |-> FALSE, status |-> s]
        BY DEF Outgone
      <3>2. r.current = FALSE /\ r.status = s /\ s \in Statuses /\ NoDep.status = "none"
        BY <3>1 DEF NoDep, Statuses
      <3>3. r \in [current : BOOLEAN, status : Statuses]
        BY <3>1, <3>2
      <3> QED
        BY <3>2, <3>3
    <2>2. Incoming.current = TRUE /\ Incoming.status = "pending" /\ NoDep.status = "none"
      BY DEF Incoming, NoDep
    <2>3. Incoming \in [current : BOOLEAN, status : Statuses]
      BY DEF Incoming, Statuses
    <2> QED
      BY <2>1, <2>2, <2>3
  <1>5. Known' = Known \cup {t.to}
    BY <1>2, <1>3, <1>4 DEF Known
  <1>6. Current' = {t.to}
    <2>1. \A v \in Versions \ DOMAIN d : deps[v].current = FALSE
      BY <1>2 DEF Inv, Tables, Current, NoDep
    <2> QED
      BY <1>2, <1>3, <1>4, <2>1 DEF Current
  <1>7. deps' \in [Versions -> [current : BOOLEAN, status : Statuses] \cup {NoDep}]
    <2>1. \A v \in Versions : deps'[v] \in [current : BOOLEAN, status : Statuses] \cup {NoDep}
      BY <1>2, <1>3, <1>4 DEF Inv, Tables
    <2>2. deps' = [v \in Versions |-> deps'[v]]
      BY DEF CommitTx
    <2> QED
      BY <2>1, <2>2
  <1>8. CurrentIsLive'
    <2> SUFFICES ASSUME NEW v \in Known'
                 PROVE  IF deps'[v].current THEN deps'[v].status \in {"pending", "active", "failed"}
                                            ELSE deps'[v].status # "pending"
      BY DEF CurrentIsLive
    <2>1. v \in Versions
      BY <1>2, <1>5, KnownIs
    <2>2. CASE v = t.to
      BY <1>2, <1>3, <1>4, <2>1, <2>2
    <2>3. CASE v \in DOMAIN d /\ v # t.to
      BY <1>2, <1>3, <1>4, <2>1, <2>3
    <2>4. CASE v \notin DOMAIN d
      BY <1>2, <1>3, <1>5, <2>1, <2>4 DEF Inv, CurrentIsLive
    <2> QED
      BY <1>2, <2>2, <2>3, <2>4
  <1> QED
    BY <1>2, <1>5, <1>6, <1>7, <1>8

LEMMA CommitKeeps == ASSUME Inv, NEW o \in Operators, CommitTx(o) PROVE Inv'
  <1> DEFINE t == txs[o]
  <1>1. /\ o \in Active /\ Sound(t) /\ t \in Tx
        /\ Others(o) /\ Active' = Active \ {o} /\ txs' = [p \in Operators |-> txs'[p]]
        /\ \A p \in Active' : p \in Active /\ txs'[p] = txs[p]
        /\ counts' \in [Keys -> Nat \cup {Absent}]
    BY CommitIs
  <1>2. verdicts' = verdicts /\ ops' = ops
    BY DEF CommitTx
  <1>3. Exclusive'
    BY <1>1 DEF Inv, Exclusive
  <1>4. /\ IsFiniteSet(Active') /\ Cardinality(Active') = Cardinality(Active) - 1
        /\ Cardinality(Active) \in Nat
    <2>1. IsFiniteSet(Active) /\ Cardinality(Active) \in Nat
      BY FS_CardinalityType DEF Inv, Counted
    <2> QED
      BY <1>1, <2>1, FS_RemoveElement
  <1>5. CASE DOMAIN t.deps = {}
    <2>1. deps' = deps
      BY <1>5 DEF CommitTx, Inv, Tables
    <2>2. Known' = Known /\ Current' = Current /\ CurrentIsLive' /\ Numbered'
      BY <2>1, SameTables DEF Inv
    <2>3. Tables'
      BY <1>1, <1>2, <2>1, <2>2 DEF Inv, Tables
    <2>4. Transactions'
      BY <1>1, <2>2, SoundStays DEF Inv, Transactions
    <2>5. Counted'
      BY <1>2, <1>4, <2>2 DEF Inv, Counted
    <2> QED
      BY <1>3, <2>2, <2>3, <2>4, <2>5 DEF Inv
  <1>6. CASE Promoting(t)
    <2>1. /\ t.to \in Versions /\ Known' = Known \cup {t.to} /\ Current' = {t.to}
          /\ t.kind \in Creates => Known = 1 .. (t.to - 1)
          /\ t.kind \notin Creates => t.to \in Known
          /\ deps' \in [Versions -> [current : BOOLEAN, status : Statuses] \cup {NoDep}]
          /\ CurrentIsLive'
      BY <1>6, PromotionIs
    <2>2. Tables'
      BY <1>1, <1>2, <2>1 DEF Inv, Tables
    <2>3. PICK n \in Nat : Known = 1 .. n /\ n + Cardinality(Active) <= ops + 1
      BY DEF Inv, Numbered, Counted
    <2>4. \/ Known' = 1 .. n
          \/ Known' = 1 .. (n + 1)
      <3>1. CASE t.kind \in Creates
        <4>1. t.to \in Nat \ {0}
          BY <2>1, KnownIs
        <4>2. n = t.to - 1
          BY <2>1, <2>3, <3>1, <4>1
        <4> QED
          BY <2>1, <2>3, <4>1, <4>2
      <3>2. CASE t.kind \notin Creates
        BY <2>1, <2>3, <3>2
      <3> QED
        BY <3>1, <3>2
    <2>5. Numbered'
      <3>1. \E c \in Known' : Current' = {c}
        BY <2>1
      <3>2. n \in Nat /\ n + 1 \in Nat
        OBVIOUS
      <3> QED
        BY <2>4, <3>1, <3>2 DEF Numbered
    <2>6. Counted'
      <3>1. \A m, k \in Nat : 1 .. m = 1 .. k => m = k
        OBVIOUS
      <3>2. \A m \in Nat : Known' = 1 .. m => m = n \/ m = n + 1
        BY <2>4, <3>1
      <3> QED
        BY <1>2, <1>4, <2>3, <3>2 DEF Inv, Counted
    <2>7. Transactions'
      <3> SUFFICES ASSUME NEW p \in Active' PROVE Sound(txs[p])'
        BY DEF Transactions
      <3>1. p \in Active /\ txs'[p] = txs[p] /\ Sound(txs[p]) /\ ~Promoting(txs[p])
        BY <1>1, <1>6, OnePromotes DEF Inv, Transactions
      <3>2. Known \subseteq Known'
        BY <2>1
      <3> QED
        BY <3>1, <3>2 DEF Sound, PcOK, VersionsOK, WritesOK, Cleared, Promoting, Tx
    <2> QED
      BY <1>3, <2>1, <2>2, <2>5, <2>6, <2>7 DEF Inv
  <1> QED
    BY <1>5, <1>6, CommitIs

LEMMA DecideKeeps == ASSUME Inv, NEW s \in {"active", "failed"}, DecideStatus(s) PROVE Inv'
  <1> USE DEF DecideStatus
  <1>1. Known' = Known /\ Current' = Current /\ CurrentIsLive' /\ Numbered'
    BY SameTables DEF Inv
  <1>2. Active' = Active
    BY DEF Active
  <1>3. Tables'
    <2>1. PICK v \in Current : verdicts' = verdicts \cup {<<v, s>>}
      OBVIOUS
    <2>2. v \in Known
      BY CurrentIsKnown DEF Inv
    <2> QED
      BY <1>1, <2>1, <2>2 DEF Inv, Tables
  <1>4. Transactions'
    BY <1>1, <1>2, SoundStays DEF Inv, Transactions
  <1>5. Exclusive' /\ Counted'
    BY <1>1, <1>2 DEF Inv, Exclusive, Counted
  <1> QED
    BY <1>1, <1>3, <1>4, <1>5 DEF Inv

\* A status written by number never makes a version current or unknown.
LEMMA SetStatusIs ==
    ASSUME Inv, NEW d \in verdicts, SetDeploymentStatus(d)
    PROVE  /\ Known' = Known /\ Current' = Current /\ CurrentIsLive'
           /\ deps' \in [Versions -> [current : BOOLEAN, status : Statuses] \cup {NoDep}]
  <1> DEFINE v == d[1]
             s == d[2]
  <1>1. v \in Known /\ s \in {"active", "failed"} /\ v \in Versions
    BY KnownIs DEF Inv, Tables
  <1>2. deps[v] \in [current : BOOLEAN, status : Statuses]
    BY <1>1 DEF Inv, Tables, Known
  <1>3. deps' = [deps EXCEPT ![v] = [deps[v] EXCEPT !.status = s]]
    BY DEF SetDeploymentStatus
  <1>4. /\ deps'[v].current = deps[v].current /\ deps'[v].status = s
        /\ deps'[v] \in [current : BOOLEAN, status : Statuses]
    BY <1>1, <1>2, <1>3 DEF Inv, Tables, Statuses
  <1>5. \A w \in Versions \ {v} : deps'[w] = deps[w]
    BY <1>1, <1>3 DEF Inv, Tables
  <1>6. deps'[v] # NoDep
    BY <1>1, <1>4 DEF NoDep
  <1> HIDE DEF v, s
  <1>7. Known' = Known /\ Current' = Current
    BY <1>1, <1>4, <1>5, <1>6 DEF Known, Current
  <1>8. deps' \in [Versions -> [current : BOOLEAN, status : Statuses] \cup {NoDep}]
    BY <1>1, <1>3, <1>4 DEF Inv, Tables
  <1>9. CurrentIsLive'
    <2> SUFFICES ASSUME NEW w \in Known
                 PROVE  IF deps'[w].current THEN deps'[w].status \in {"pending", "active", "failed"}
                                            ELSE deps'[w].status # "pending"
      BY <1>7 DEF CurrentIsLive
    <2>1. w \in Versions
      BY KnownIs
    <2> QED
      BY <1>1, <1>4, <1>5, <2>1 DEF Inv, CurrentIsLive
  <1> QED
    BY <1>7, <1>8, <1>9

LEMMA SetStatusKeeps == ASSUME Inv, NEW d \in verdicts, SetDeploymentStatus(d) PROVE Inv'
  <1>1. /\ Known' = Known /\ Current' = Current /\ CurrentIsLive'
        /\ deps' \in [Versions -> [current : BOOLEAN, status : Statuses] \cup {NoDep}]
    BY SetStatusIs
  <1>2. Active' = Active /\ txs' = txs /\ counts' = counts /\ ops' = ops /\ verdicts' \subseteq verdicts
    BY DEF SetDeploymentStatus, Active
  <1>3. Tables'
    BY <1>1, <1>2 DEF Inv, Tables
  <1>4. Transactions'
    BY <1>1, <1>2, SoundStays DEF Inv, Transactions
  <1>5. Exclusive' /\ Counted' /\ Numbered'
    BY <1>1, <1>2 DEF Inv, Exclusive, Counted, Numbered
  <1> QED
    BY <1>1, <1>3, <1>4, <1>5 DEF Inv

-----------------------------------------------------------------------------
LEMMA InvInit == Init => Inv
  <1> SUFFICES ASSUME Init PROVE Inv
    OBVIOUS
  <1> USE DEF Init
  <1>1. Known = {} /\ Current = {} /\ Active = {}
    BY DEF Known, Current, Active, NoDep
  <1>2. Tables
    BY DEF Tables
  <1>3. Numbered
    <2>1. {} = 1 .. 0
      OBVIOUS
    <2> QED
      BY <1>1, <2>1 DEF Numbered
  <1>4. Counted
    <2>1. \A n \in Nat : {} = 1 .. n => n = 0
      OBVIOUS
    <2> QED
      BY <1>1, <2>1, FS_EmptySet, CommitsAssumption DEF Counted
  <1> QED
    BY <1>1, <1>2, <1>3, <1>4 DEF Inv, Transactions, Exclusive, CurrentIsLive

\* One version is a history too.
LEMMA DeployedInit == Deployed => Inv
  <1> SUFFICES ASSUME Deployed PROVE Inv
    OBVIOUS
  <1> USE DEF Deployed
  <1>1. 1 \in Versions /\ {1} = 1 .. 1
    OBVIOUS
  <1>2. /\ deps[1] = [current |-> TRUE, status |-> "active"]
        /\ \A v \in Versions \ {1} : deps[v] = NoDep
    BY <1>1
  <1>3. Known = {1} /\ Current = {1} /\ Active = {}
    BY <1>1, <1>2 DEF Known, Current, Active, NoDep
  <1>4. Tables
    <2>1. deps \in [Versions -> [current : BOOLEAN, status : Statuses] \cup {NoDep}]
      BY DEF Statuses
    <2>2. counts \in [Keys -> Nat \cup {Absent}]
      OBVIOUS
    <2> QED
      BY <2>1, <2>2 DEF Tables
  <1>5. Numbered
    BY <1>1, <1>3 DEF Numbered
  <1>6. Counted
    <2>1. \A n \in Nat : {1} = 1 .. n => n = 1
      OBVIOUS
    <2>2. IsFiniteSet({}) /\ Cardinality({}) = 0
      BY FS_EmptySet
    <2>3. \A n \in Nat : Known = 1 .. n => n + Cardinality(Active) <= ops + 1
      BY <1>3, <2>1, <2>2
    <2> QED
      BY <1>3, <2>2, <2>3, CommitsAssumption DEF Counted
  <1>7. CurrentIsLive
    BY <1>2, <1>3 DEF CurrentIsLive
  <1> QED
    BY <1>3, <1>4, <1>5, <1>6, <1>7 DEF Inv, Transactions, Exclusive

LEMMA CommandKeeps == ASSUME Inv, NEW o \in Operators, Command(o) PROVE Inv'
  <1>1. Requests \subseteq Partial(Regions, Nat)
    <2> SUFFICES ASSUME NEW want \in Requests PROVE want \in Partial(Regions, Nat)
      OBVIOUS
    <2>1. DOMAIN want \subseteq Regions /\ want \in [DOMAIN want -> Nat]
      BY CommitsAssumption
    <2> QED
      BY <2>1, IsPartial
  <1>2. ASSUME NEW kind \in {"deploy", "scale", "resize"}, NEW want \in Requests,
               BeginCommand(o, kind, want, 0)
        PROVE  Inv'
    BY <1>1, <1>2, BeginKeeps
  <1>3. ASSUME NEW v \in {0} \cup Versions, BeginCommand(o, "rollback", <<>>, v)
        PROVE  Inv'
    BY <1>3, EmptyPartial, BeginKeeps, KnownIs
  <1>4. ASSUME BeginCommand(o, "down", <<>>, 0) PROVE Inv'
    BY <1>4, EmptyPartial, BeginKeeps
  <1> QED
    BY <1>2, <1>3, <1>4 DEF Command

\* Whoever is in a circle has a transaction to lose.
LEMMA CircleIsActive == ASSUME NEW o \in Operators, DeadlockDetected(o) PROVE o \in Active /\ Abort(o)
  BY DEF DeadlockDetected, Circle, WaitsFor, Active

LEMMA InvNext == ASSUME Inv, [Next]_vars PROVE Inv'
  <1>1. ASSUME NEW o \in Operators, Statement(o) PROVE Inv'
    BY <1>1, ResolveKeeps, ReadCountsKeeps, ReadVersionKeeps, SetRegionKeeps, ZeroStartsKeeps, ZeroKeeps, ClearStartsKeeps,
       ClearCurrentKeeps, CreateKeeps, SetCurrentKeeps, CommitKeeps DEF Statement
  <1>2. CASE Engine
    BY <1>2, DecideKeeps, SetStatusKeeps DEF Engine
  <1>4. CASE Deadlock
    BY <1>4, CircleIsActive, AbortKeeps DEF Deadlock
  <1>3. CASE UNCHANGED vars
    <2>1. Known' = Known /\ Current' = Current /\ CurrentIsLive' /\ Numbered'
      BY <1>3, SameTables DEF Inv, vars
    <2>2. Active' = Active /\ txs' = txs
      BY <1>3 DEF Active, vars
    <2>3. Transactions'
      BY <2>1, <2>2, SoundStays DEF Inv, Transactions
    <2> QED
      BY <1>3, <2>1, <2>2, <2>3 DEF Inv, Tables, Exclusive, Counted, vars
  <1> QED
    BY <1>1, <1>2, <1>3, <1>4, CommandKeeps DEF Next

LEMMA InvAlways == Spec => []Inv
  BY InvInit, DeployedInit, InvNext, PTL DEF Spec

\* The tables and the transactions stay of their types: a version number never
\* leaves the table, whatever number a concurrent deploy has read.
THEOREM CommitsTyped == Spec => []TypeOK
  <1>1. Inv => TypeOK
    <2> SUFFICES ASSUME Inv PROVE TypeOK
      OBVIOUS
    <2>1. ASSUME NEW o \in Operators, txs[o] # NoTx
          PROVE  /\ txs[o].pc \in {"resolve", "counts", "version", "clear", "clearing", "insert", "regions",
                                   "zero", "zeroing", "promote", "commit"}
                 /\ DOMAIN txs[o].deps \subseteq Versions /\ DOMAIN txs[o].counts \subseteq Keys
      <3>1. txs[o] \in Tx
        BY <2>1 DEF Inv, Transactions, Active, Sound
      <3> QED
        BY <3>1, PartialIs DEF Tx, Early
    <2> QED
      BY <2>1 DEF Inv, Tables, TypeOK
  <1> QED
    BY <1>1, InvAlways, PTL

\* The engine never works toward a version an operator retired, for any number
\* of operators and whatever statuses arrive late (SetDeploymentStatus).
THEOREM RetiredStaysRetired == Spec => []CurrentIsLive
  <1>1. Inv => CurrentIsLive
    BY DEF Inv
  <1> QED
    BY <1>1, InvAlways, PTL

-----------------------------------------------------------------------------
(* The refinement.                                                         *)

Head == Max(Current \cup {0})

\* What the abstract history sees of the tables.
LEMMA HistoryIs ==
    ASSUME Inv, NEW n \in Nat, Known = 1 .. n
    PROVE  /\ Cardinality(Known) = n
           /\ n = 0 => Head = 0
           /\ \A c \in Known : Current = {c} => Head = c
           /\ n # 0 => \E c \in Known : Current = {c}
           /\ Cardinality(Current) <= 1
  <1>1. Cardinality(Known) = n
    BY FS_Interval
  <1>2. n # 0 => \E c \in Known : Current = {c}
    BY DEF Inv, Numbered
  <1>3. n = 0 => Current = {}
    BY CurrentIsKnown DEF Inv
  <1>4. \A c \in Known : Current = {c} => Head = c
    BY MaxZero DEF Head
  <1>5. Current = {} => Head = 0
    <2>1. Max({0} \cup {0}) = 0
      BY MaxZero
    <2>2. {} \cup {0} = {0} \cup {0}
      OBVIOUS
    <2> QED
      BY <2>1, <2>2 DEF Head
  <1>6. Cardinality(Current) <= 1
    <2>1. Cardinality({}) = 0 /\ \A c : Cardinality({c}) = 1
      BY FS_EmptySet, FS_Singleton
    <2>2. Current = {} \/ \E c : Current = {c}
      BY <1>2, <1>3
    <2>3. Cardinality(Current) \in {0, 1}
      BY <2>1, <2>2, Zenon
    <2> QED
      BY <2>3
  <1> QED
    BY <1>1, <1>2, <1>3, <1>4, <1>5, <1>6

\* Only the commit of a deploy, a resize or a rollback shows.
LEMMA StepIsSeen ==
    ASSUME Inv, [Next]_vars
    PROVE  \/ Known' = Known /\ Current' = Current
           \/ \E v \in Versions : /\ Current' = {v}
                                  /\ \/ Known = 1 .. (v - 1) /\ Known' = 1 .. v
                                     \/ v \in Known /\ Known' = Known
  <1>1. ASSUME NEW o \in Operators, CommitTx(o), Promoting(txs[o])
        PROVE  \E v \in Versions : /\ Current' = {v}
                                   /\ \/ Known = 1 .. (v - 1) /\ Known' = 1 .. v
                                      \/ v \in Known /\ Known' = Known
    <2> DEFINE v == txs[o].to
    <2>1. /\ v \in Versions /\ Known' = Known \cup {v} /\ Current' = {v}
          /\ \/ Known = 1 .. (v - 1)
             \/ v \in Known
      BY <1>1, PromotionIs
    <2> HIDE DEF v
    <2>2. Known = 1 .. (v - 1) => Known' = 1 .. v
      BY <2>1, KnownIs
    <2>3. v \in Known => Known' = Known
      BY <2>1
    <2> QED
      BY <2>1, <2>2, <2>3
  <1>2. ASSUME NEW o \in Operators, CommitTx(o), ~Promoting(txs[o]) PROVE deps' = deps
    <2>1. DOMAIN txs[o].deps = {}
      BY <1>2, CommitIs
    <2> QED
      BY <1>2, <2>1 DEF CommitTx, Inv, Tables
  <1>3. ASSUME NEW o \in Operators, Statement(o), ~CommitTx(o) PROVE deps' = deps
    BY <1>3 DEF Statement, Resolve, ReadCounts, ReadVersion, SetDeploymentRegion, ZeroStarts, ZeroDeploymentRegions,
                ClearStarts, ClearCurrent, CreateDeployment, SetDeploymentCurrent, Abort, Private
  <1>4. ASSUME NEW o \in Operators, Command(o) PROVE deps' = deps
    BY <1>4 DEF Command, BeginCommand
  <1>5. ASSUME NEW s \in {"active", "failed"}, DecideStatus(s) PROVE deps' = deps
    BY <1>5 DEF DecideStatus
  <1>6. ASSUME NEW d \in verdicts, SetDeploymentStatus(d) PROVE Known' = Known /\ Current' = Current
    BY <1>6, SetStatusIs
  <1>7. UNCHANGED vars => deps' = deps
    BY DEF vars
  <1>10. Deadlock => deps' = deps
    BY DEF Deadlock, DeadlockDetected, Abort, Private
  <1>8. CASE deps' = deps
    BY <1>8, SameTables
  <1>9. CASE \E o \in Operators : CommitTx(o)
    BY <1>9, <1>1, <1>2, <1>8
  <1> QED
    BY <1>3, <1>4, <1>5, <1>6, <1>7, <1>8, <1>9, <1>10 DEF Next, Engine

LEMMA HistoryInit == Init => History!Init
  <1> SUFFICES ASSUME Init PROVE History!Init
    OBVIOUS
  <1>1. Inv /\ Known = {} /\ {} = 1 .. 0
    BY InvInit DEF Init, Known
  <1>2. Cardinality(Known) = 0 /\ Head = 0
    BY <1>1, HistoryIs
  <1> QED
    BY <1>2 DEF History!Init, Head

LEMMA DeployedHistory == Deployed => History!Init
  <1> SUFFICES ASSUME Deployed PROVE History!Init
    OBVIOUS
  <1>1. Inv
    BY DeployedInit
  <1>2. 1 \in Versions /\ Known = {1} /\ Current = {1}
    BY DEF Deployed, Known, Current, NoDep
  <1>3. Max(Current \cup {0}) = 1
    BY <1>2, MaxZero
  <1>4. Cardinality(Known) = 1
    BY <1>2, FS_Singleton
  <1> QED
    BY <1>3, <1>4 DEF History!Init

LEMMA HistoryStep ==
    ASSUME Inv, Inv', [Next]_vars PROVE [History!Next]_<<Cardinality(Known), Head>>
  <1>1. PICK n \in Nat : Known = 1 .. n
    BY DEF Inv, Numbered
  <1>2. Cardinality(Known) = n
    BY <1>1, HistoryIs
  <1>3. CASE Known' = Known /\ Current' = Current
    BY <1>3 DEF Head
  <1>4. ASSUME NEW v \in Versions, Current' = {v},
               \/ Known = 1 .. (v - 1) /\ Known' = 1 .. v
               \/ v \in Known /\ Known' = Known
        PROVE  History!Next
    <2>1. v \in Nat /\ v # 0
      BY KnownIs
    <2>2. Max(Current' \cup {0}) = v
      BY <1>4, <2>1, MaxZero
    <2>3. CASE Known = 1 .. (v - 1) /\ Known' = 1 .. v
      <3>1. n = v - 1
        BY <1>1, <2>1, <2>3
      <3>2. Cardinality(Known') = v
        BY <2>1, <2>3, FS_Interval
      <3> QED
        BY <1>2, <2>1, <2>2, <3>1, <3>2 DEF History!Next, History!Deployed
    <2>4. CASE v \in Known /\ Known' = Known
      BY <1>1, <1>2, <2>1, <2>2, <2>4 DEF History!Next, History!Promoted
    <2> QED
      BY <1>4, <2>3, <2>4
  <1> QED
    BY <1>3, <1>4, StepIsSeen

\* Whatever statements of however many commands interleave, what is committed
\* is a version history: the unique keys and the row locks of the deployment
\* tables are enough, without a lock on the service.
THEOREM CommitsRefineHistory == Spec => CommitsAreHistory
  <1>1. Inv => Cardinality(Current) <= 1
    <2> SUFFICES ASSUME Inv PROVE Cardinality(Current) <= 1
      OBVIOUS
    <2>1. PICK n \in Nat : Known = 1 .. n
      BY DEF Inv, Numbered
    <2> QED
      BY <2>1, HistoryIs
  <1>2. Spec => [](Cardinality(Current) <= 1)
    BY <1>1, InvAlways, PTL
  <1>3. Inv /\ Inv' /\ [Next]_vars => [History!Next]_<<Cardinality(Known), Max(Current \cup {0})>>
    BY HistoryStep DEF Head
  <1>4. Spec => History!Spec
    BY <1>3, HistoryInit, DeployedHistory, InvAlways, PTL DEF Spec, History!Spec
  <1> QED
    BY <1>2, <1>4, PTL DEF CommitsAreHistory

-----------------------------------------------------------------------------
(* Counts are never torn.                                                  *)

\* Every command names every region with one number.
RequestsWhole ==
    \A want \in Requests : DOMAIN want = Regions /\ \A g, h \in Regions : want[g] = want[h]

\* No region, or all of them with one number.
Even(f) == \A g, h \in Regions : g \in DOMAIN f => h \in DOMAIN f /\ f[g] = f[h]

\* The statements of a command that come after it began to write regions.
Writing(t) ==
    t.pc \in {"regions", "zeroing", "promote"} \/ (t.kind = "rollback" /\ t.pc \in {"clearing", "commit"})

\* What a transaction has written of its request, or of its zeroes.
CountsOK(t) ==
    /\ Even(t.want)
    /\ ~Writing(t) => DOMAIN t.counts = {} /\ t.todo = DOMAIN t.want
    /\ Writing(t) => /\ DOMAIN t.counts = {<<t.to, g>> : g \in DOMAIN t.want \ t.todo}
                     /\ \A g \in DOMAIN t.want \ t.todo : t.counts[<<t.to, g>>] = t.want[g]
                     /\ t.pc \notin {"regions", "zeroing"} => t.todo = {}

Whole == CountsNeverTorn /\ \A o \in Active : CountsOK(txs[o])

\* A committed count is never taken away again.
LEMMA CountsStay ==
    ASSUME NEW p, Sound(txs'[p]), CountsOK(txs'[p]),
           \A k \in Keys : counts[k] # Absent => counts'[k] # Absent
    PROVE  CountsOK(txs[p])'
  <1>1. DOMAIN txs'[p].counts \subseteq Keys
    BY PartialIs DEF Sound, Tx
  <1> QED
    BY <1>1 DEF CountsOK, Even, Writing, Absent

\* A statement keeps the counts whole if its own transaction's are.
LEMMA StatementWhole ==
    ASSUME Inv, Inv', Whole, NEW o \in Operators, Others(o), deps' = deps, counts' = counts,
           txs'[o] # NoTx => CountsOK(txs'[o])
    PROVE  Whole'
  <1>1. CountsNeverTorn'
    BY DEF Whole, CountsNeverTorn
  <1>2. ASSUME NEW p \in Active' PROVE CountsOK(txs[p])'
    <2>1. CountsOK(txs'[p])
      BY <1>2 DEF Whole, Others, Active
    <2>2. Sound(txs'[p])
      BY <1>2 DEF Inv, Transactions, Sound, PcOK, VersionsOK, WritesOK, Cleared, Promoting, Tx, Known, Current
    <2> QED
      BY <2>1, <2>2, CountsStay
  <1> QED
    BY <1>1, <1>2 DEF Whole

LEMMA BeginWhole ==
    ASSUME RequestsWhole, Inv, Inv', Whole, NEW o \in Operators, Command(o) PROVE Whole'
  <1>1. PICK kind, want, v : BeginCommand(o, kind, want, v) /\ (want \in Requests \/ want = <<>>)
    BY DEF Command
  <1>2. Even(want)
    BY <1>1, EmptyPartial DEF RequestsWhole, Even
  <1>3. txs'[o] = Begin(kind, want, v) /\ Others(o)
    BY <1>1, StepIs DEF BeginCommand, Inv
  <1>4. /\ txs'[o].want = want /\ txs'[o].todo = DOMAIN want /\ DOMAIN txs'[o].counts = {}
        /\ txs'[o].pc \in {"version", "resolve"}
    BY <1>3, EmptyPartial DEF Begin
  <1>5. CountsOK(txs'[o])
    BY <1>2, <1>4 DEF CountsOK, Writing
  <1>6. deps' = deps /\ counts' = counts
    BY <1>1 DEF BeginCommand
  <1> QED
    BY <1>3, <1>5, <1>6, StatementWhole

LEMMA AbortWhole ==
    ASSUME Inv, Inv', Whole, NEW o \in Operators, Abort(o) PROVE Whole'
  BY StepIs, StatementWhole DEF Abort, Private, Inv

LEMMA ResolveWhole ==
    ASSUME Inv, Inv', Whole, NEW o \in Operators, Resolve(o) PROVE Whole'
  <1> DEFINE t == txs[o]
  <1>1. t \in Tx /\ t.pc = "resolve" /\ CountsOK(t)
    BY DEF Resolve, Inv, Transactions, Active, Sound, Whole
  <1>2. CASE Abort(o)
    BY <1>2, AbortWhole
  <1>3. CASE ~Abort(o)
    <2>1. PICK cur \in Current : Private /\
             Step(o, [t EXCEPT !.from = cur,
                               !.to   = IF t.kind \in {"scale", "down"} THEN cur ELSE @,
                               !.pc   = CASE t.kind = "scale" -> "regions"
                                          [] t.kind = "down"  -> "zero"
                                          [] OTHER            -> "counts"])
      BY <1>3 DEF Resolve
    <2>2. /\ txs'[o] = [t EXCEPT !.from = cur,
                               !.to   = IF t.kind \in {"scale", "down"} THEN cur ELSE @,
                               !.pc   = CASE t.kind = "scale" -> "regions"
                                          [] t.kind = "down"  -> "zero"
                                          [] OTHER            -> "counts"]
          /\ Others(o)
      BY <2>1, StepIs DEF Inv
    <2>3. /\ txs'[o].kind = t.kind /\ txs'[o].want = t.want /\ txs'[o].todo = t.todo
          /\ txs'[o].counts = t.counts
          /\ t.kind = "scale" => txs'[o].pc = "regions"
          /\ t.kind = "down" => txs'[o].pc = "zero"
          /\ t.kind \notin {"scale", "down"} => txs'[o].pc = "counts"
      BY <1>1, <2>2 DEF Tx
    <2>4. DOMAIN t.counts = {} /\ t.todo = DOMAIN t.want
      BY <1>1 DEF CountsOK, Writing
    <2>5. CountsOK(txs'[o])
      <3>1. CASE t.kind = "scale"
        BY <1>1, <2>3, <2>4, <3>1 DEF CountsOK, Writing
      <3>2. CASE t.kind = "down"
        BY <1>1, <2>3, <2>4, <3>2 DEF CountsOK, Writing
      <3>3. CASE t.kind \notin {"scale", "down"}
        BY <1>1, <2>3, <2>4, <3>3 DEF CountsOK, Writing
      <3> QED
        BY <3>1, <3>2, <3>3
    <2> QED
      BY <2>1, <2>2, <2>5, StatementWhole DEF Private
  <1> QED
    BY <1>2, <1>3

\* What a rollback carries over and what a resize merges is whole, because the
\* committed counts are.
LEMMA CarriedEven ==
    ASSUME Inv, Whole, NEW v \in Versions, NEW w \in Versions PROVE Even(Carried(v, w))
  <1>1. \A x \in Versions, g, h \in Regions : counts[<<x, g>>] = counts[<<x, h>>]
    BY DEF Whole, CountsNeverTorn
  <1>2. DOMAIN Carried(v, w) = {g \in Regions : counts[<<v, g>>] # Absent \/ counts[<<w, g>>] # Absent}
    BY CountsPartial DEF Inv, Carried
  <1>3. \A g \in DOMAIN Carried(v, w) :
           Carried(v, w)[g] = IF counts[<<v, g>>] # Absent THEN counts[<<v, g>>] ELSE 0
    BY DEF Carried
  <1> QED
    BY <1>1, <1>2, <1>3 DEF Even

LEMMA MergedEven ==
    ASSUME Inv, Whole, NEW v \in Versions, NEW want \in Partial(Regions, Nat), Even(want)
    PROVE  Even(Merged(v, want))
  <1>1. \A g, h \in Regions : counts[<<v, g>>] = counts[<<v, h>>]
    BY DEF Whole, CountsNeverTorn
  <1>2. DOMAIN Merged(v, want) = {g \in Regions : counts[<<v, g>>] # Absent} \cup DOMAIN want
    BY CountsPartial DEF Inv, Merged
  <1>3. \A g \in DOMAIN Merged(v, want) :
           Merged(v, want)[g] = IF g \in DOMAIN want THEN want[g] ELSE counts[<<v, g>>]
    BY DEF Merged
  <1> QED
    BY <1>1, <1>2, <1>3 DEF Even

LEMMA ReadCountsWhole ==
    ASSUME Inv, Inv', Whole, NEW o \in Operators, ReadCounts(o) PROVE Whole'
  <1> DEFINE t == txs[o]
  <1>1. Sound(t) /\ t \in Tx /\ t.pc = "counts" /\ CountsOK(t)
    BY DEF ReadCounts, Inv, Transactions, Active, Sound, Whole
  <1>2. t.from \in Known /\ t.from \in Versions
    BY <1>1, KnownIs DEF Sound, VersionsOK
  <1>3. CASE Abort(o)
    BY <1>3, AbortWhole
  <1>4. CASE t.kind = "resize"
    <2> DEFINE want == Merged(t.from, t.want)
    <2>1. Even(want)
      BY <1>1, <1>2, MergedEven DEF Tx, CountsOK
    <2> HIDE DEF want
    <2>2. Step(o, [t EXCEPT !.want = want, !.todo = DOMAIN want, !.pc = "version"]) /\ Private
      BY <1>1, <1>4 DEF ReadCounts, want
    <2>3. txs'[o] = [t EXCEPT !.want = want, !.todo = DOMAIN want, !.pc = "version"] /\ Others(o)
      BY <2>2, StepIs DEF Inv
    <2>4. /\ txs'[o].kind = "resize" /\ txs'[o].want = want /\ txs'[o].todo = DOMAIN want
          /\ txs'[o].counts = t.counts /\ txs'[o].pc = "version"
      BY <1>1, <1>4, <2>3 DEF Tx
    <2>5. DOMAIN t.counts = {}
      BY <1>1, <1>4 DEF CountsOK, Writing
    <2>6. CountsOK(txs'[o])
      BY <2>1, <2>4, <2>5 DEF CountsOK, Writing
    <2> QED
      BY <2>2, <2>3, <2>6, StatementWhole DEF Private
  <1>5. CASE t.kind = "rollback" /\ ~Abort(o)
    <2>1. PICK v \in TargetOf(t) :
             Step(o, [t EXCEPT !.to = v, !.want = Carried(t.from, v),
                               !.todo = DOMAIN Carried(t.from, v), !.pc = "regions"]) /\ Private
      BY <1>5 DEF ReadCounts
    <2>2. v \in Known /\ v \in Versions
      BY <1>1, <1>2, TargetIsKnown, KnownIs
    <2> DEFINE want == Carried(t.from, v)
    <2>3. Even(want)
      BY <1>2, <2>2, CarriedEven
    <2> HIDE DEF want
    <2>4. txs'[o] = [t EXCEPT !.to = v, !.want = want, !.todo = DOMAIN want, !.pc = "regions"] /\ Others(o)
      BY <2>1, StepIs DEF Inv, want
    <2>5. /\ txs'[o].kind = "rollback" /\ txs'[o].want = want /\ txs'[o].todo = DOMAIN want
          /\ txs'[o].counts = t.counts /\ txs'[o].pc = "regions" 
      BY <1>1, <1>5, <2>4 DEF Tx
    <2>6. DOMAIN t.counts = {}
      BY <1>1, <1>5 DEF CountsOK, Writing
    <2>7. CountsOK(txs'[o])
      BY <2>3, <2>5, <2>6 DEF CountsOK, Writing
    <2> QED
      BY <2>1, <2>4, <2>7, StatementWhole DEF Private
  <1> QED
    BY <1>3, <1>4, <1>5 DEF ReadCounts

\* The statements on the deployment row leave the request and what was written
\* of it alone.
LEMMA RowStepIs ==
    ASSUME Inv, NEW o \in Operators, ~Abort(o), txs[o] \in Tx,
           ReadVersion(o) \/ ClearStarts(o) \/ ClearCurrent(o) \/ CreateDeployment(o) \/ SetDeploymentCurrent(o)
    PROVE  LET t == txs[o]
               s == txs'[o]
           IN
           /\ s.kind = t.kind /\ s.want = t.want /\ s.todo = t.todo /\ s.counts = t.counts
           /\ Others(o) /\ Private
           /\ s.pc \in {"insert", "promote"} => DOMAIN s.deps \subseteq Current
           /\ \/ t.pc = "version" /\ s.pc = "clear"
              \/ t.pc = "clear" /\ s.pc = "clearing"
              \/ t.kind = "rollback" /\ t.pc = "regions" /\ t.todo = {} /\ s.pc = "clearing" /\ s.to = t.to
              \/ t.kind # "rollback" /\ t.pc = "clearing" /\ s.pc = "insert"
              \/ t.kind = "rollback" /\ t.pc = "clearing" /\ s.pc = "promote" /\ s.to = t.to
              \/ t.pc = "insert" /\ s.pc = "regions"
              \/ t.pc = "promote" /\ s.pc = "commit" /\ s.to = t.to
  <1> DEFINE t == txs[o]
             s == txs'[o]
  <1>1. CASE ReadVersion(o)
    <2> DEFINE n == Max(Known \cup {0}) + 1
    <2>1. s = [t EXCEPT !.next = n, !.pc = "clear"] /\ Others(o) /\ Private /\ t.pc = "version"
      BY <1>1, StepIs DEF Inv, ReadVersion
    <2> HIDE DEF n
    <2> QED
      BY <2>1 DEF Tx
  <1>2. CASE ClearStarts(o)
    <2>1. /\ s = [t EXCEPT !.cand = Current, !.pc = "clearing"] /\ Others(o) /\ Private
          /\ t.pc = "clear" \/ (t.kind = "rollback" /\ t.pc = "regions" /\ t.todo = {})
      BY <1>2, StepIs DEF Inv, ClearStarts
    <2> QED
      BY <2>1 DEF Tx
  <1>3. CASE ClearCurrent(o)
    <2> DEFINE d == [v \in t.cand \cap Current |-> [current |-> FALSE, status |-> Outgoing(t)]]
               q == IF t.kind = "rollback" THEN "promote" ELSE "insert"
    <2>1. s = [t EXCEPT !.deps = d, !.pc = q] /\ Others(o) /\ Private /\ t.pc = "clearing"
      BY <1>3, StepIs DEF Inv, ClearCurrent
    <2>2. /\ t.kind = "rollback" => q = "promote"
          /\ t.kind # "rollback" => q = "insert"
          /\ DOMAIN d \subseteq Current
      OBVIOUS
    <2> HIDE DEF d, q
    <2>3. /\ s.kind = t.kind /\ s.want = t.want /\ s.todo = t.todo /\ s.counts = t.counts
          /\ s.to = t.to /\ s.pc = q /\ s.deps = d
      BY <2>1 DEF Tx
    <2> QED
      BY <2>1, <2>2, <2>3
  <1>4. CASE CreateDeployment(o)
    <2> DEFINE d == Put(t.deps, t.next, Incoming)
    <2>1. /\ s = [t EXCEPT !.deps = d, !.to = t.next, !.pc = "regions"] /\ Others(o) /\ Private
          /\ t.pc = "insert"
      BY <1>4, StepIs DEF Inv, CreateDeployment, Incoming
    <2> HIDE DEF d
    <2> QED
      BY <2>1 DEF Tx
  <1>5. CASE SetDeploymentCurrent(o)
    <2> DEFINE d == Put(t.deps, t.to, Incoming)
    <2>1. s = [t EXCEPT !.deps = d, !.pc = "commit"] /\ Others(o) /\ Private /\ t.pc = "promote"
      BY <1>5, StepIs DEF Inv, SetDeploymentCurrent, Incoming
    <2> HIDE DEF d
    <2> QED
      BY <2>1 DEF Tx
  <1> QED
    BY <1>1, <1>2, <1>3, <1>4, <1>5

LEMMA RowStepWhole ==
    ASSUME Inv, Inv', Whole, NEW o \in Operators,
           ReadVersion(o) \/ ClearStarts(o) \/ ClearCurrent(o) \/ CreateDeployment(o) \/ SetDeploymentCurrent(o)
    PROVE  Whole'
  <1> DEFINE t == txs[o]
             s == txs'[o]
  <1>1. Sound(t) /\ t \in Tx /\ CountsOK(t) /\ PcOK(t)
    BY DEF ReadVersion, ClearStarts, ClearCurrent, CreateDeployment, SetDeploymentCurrent,
           Inv, Transactions, Active, Sound, Whole
  <1>2. CASE Abort(o)
    BY <1>2, AbortWhole
  <1>3. CASE ~Abort(o)
    <2>1. /\ s.kind = t.kind /\ s.want = t.want /\ s.todo = t.todo /\ s.counts = t.counts
          /\ Others(o) /\ Private
          /\ \/ t.pc = "version" /\ s.pc = "clear"
             \/ t.pc = "clear" /\ s.pc = "clearing"
             \/ t.kind = "rollback" /\ t.pc = "regions" /\ t.todo = {} /\ s.pc = "clearing" /\ s.to = t.to
             \/ t.kind # "rollback" /\ t.pc = "clearing" /\ s.pc = "insert"
             \/ t.kind = "rollback" /\ t.pc = "clearing" /\ s.pc = "promote" /\ s.to = t.to
             \/ t.pc = "insert" /\ s.pc = "regions"
             \/ t.pc = "promote" /\ s.pc = "commit" /\ s.to = t.to
      BY <1>1, <1>3, RowStepIs
    <2> HIDE DEF s
    <2>2. t.kind # "down"
      BY <1>1, <2>1 DEF PcOK
    <2>3. CountsOK(s)
      <3>1. CASE t.pc = "version" /\ s.pc = "clear"
        BY <1>1, <2>1, <2>2, <3>1 DEF CountsOK, Writing
      <3>2. CASE t.pc = "clear" /\ s.pc = "clearing"
        <4>1. t.kind # "rollback"
          BY <1>1, <3>2 DEF PcOK
        <4> QED
          BY <1>1, <2>1, <2>2, <3>2, <4>1 DEF CountsOK, Writing
      <3>3. CASE t.kind # "rollback" /\ t.pc = "clearing" /\ s.pc = "insert"
        BY <1>1, <2>1, <2>2, <3>3 DEF CountsOK, Writing
      <3>4. CASE t.pc = "insert" /\ s.pc = "regions"
        BY <1>1, <2>1, <2>2, <3>4 DEF CountsOK, Writing
      <3>5. CASE /\ t.kind = "rollback" /\ t.pc \in {"regions", "clearing"} /\ (t.pc = "regions" => t.todo = {})
                 /\ s.pc \in {"clearing", "promote"} /\ s.to = t.to
        BY <1>1, <2>1, <2>2, <3>5 DEF CountsOK, Writing
      <3>6. CASE t.pc = "promote" /\ s.pc = "commit" /\ s.to = t.to
        <4>1. t.kind = "rollback"
          BY <1>1, <2>2, <3>6 DEF PcOK, Tx, Creates, Early
        <4> QED
          BY <1>1, <2>1, <2>2, <3>6, <4>1 DEF CountsOK, Writing
      <3> QED
        BY <2>1, <3>1, <3>2, <3>3, <3>4, <3>5, <3>6
    <2> QED
      BY <2>1, <2>3, StatementWhole DEF Private, s
  <1> QED
    BY <1>2, <1>3

\* One region more is written, of those there are to write.
LEMMA RegionWhole ==
    ASSUME Inv, Inv', Whole, NEW o \in Active, txs[o].pc \in {"regions", "zeroing"},
           NEW g \in txs[o].todo,
           Step(o, [txs[o] EXCEPT !.counts = Put(txs[o].counts, <<txs[o].to, g>>, txs[o].want[g]),
                                  !.todo = txs[o].todo \ {g}]),
           Private
    PROVE  Whole'
  <1> DEFINE t == txs[o]
             s == txs'[o]
             c == Put(t.counts, <<t.to, g>>, t.want[g])
  <1>1. o \in Operators /\ Sound(t) /\ t \in Tx /\ CountsOK(t) /\ t.todo \subseteq DOMAIN t.want
    BY DEF Inv, Transactions, Active, Sound, Whole, PcOK
  <1>3. Step(o, [t EXCEPT !.counts = c, !.todo = t.todo \ {g}])
    OBVIOUS
  <1>4. /\ DOMAIN c = DOMAIN t.counts \cup {<<t.to, g>>} /\ c[<<t.to, g>>] = t.want[g]
        /\ \A k \in DOMAIN t.counts \ {<<t.to, g>>} : c[k] = t.counts[k]
    BY DEF Put
  <1> HIDE DEF c
  <1>5. s = [t EXCEPT !.counts = c, !.todo = t.todo \ {g}] /\ Others(o)
    BY <1>1, <1>3, StepIs DEF Inv
  <1>6. /\ s.kind = t.kind /\ s.pc = t.pc /\ s.want = t.want /\ s.to = t.to
        /\ s.todo = t.todo \ {g} /\ s.counts = c
    BY <1>1, <1>5 DEF Tx
  <1>8. DOMAIN t.want \ (t.todo \ {g}) = (DOMAIN t.want \ t.todo) \cup {g}
    BY <1>1
  <1>9. /\ DOMAIN t.counts = {<<t.to, h>> : h \in DOMAIN t.want \ t.todo}
        /\ \A h \in DOMAIN t.want \ t.todo : t.counts[<<t.to, h>>] = t.want[h]
    BY <1>1 DEF CountsOK, Writing
  <1>10. DOMAIN c = {<<t.to, h>> : h \in DOMAIN t.want \ (t.todo \ {g})}
    BY <1>4, <1>8, <1>9
  <1>11. \A h \in DOMAIN t.want \ (t.todo \ {g}) : c[<<t.to, h>>] = t.want[h]
    BY <1>4, <1>8, <1>9
  <1>12. CountsOK(s)
    <2> HIDE DEF s
    <2>1. Even(s.want)
      BY <1>1, <1>6 DEF CountsOK
    <2> QED
      BY <1>6, <1>10, <1>11, <2>1 DEF CountsOK, Writing
  <1> QED
    BY <1>1, <1>5, <1>12, StatementWhole DEF Private

LEMMA SetRegionWhole ==
    ASSUME Inv, Inv', Whole, NEW o \in Operators, SetDeploymentRegion(o) PROVE Whole'
  <1> DEFINE t == txs[o]
             g == Min(t.todo)
  <1>1. o \in Active /\ t \in Tx /\ t.pc = "regions"
    BY DEF SetDeploymentRegion, Inv, Transactions, Active, Sound
  <1>2. g \in t.todo
    <2>1. t.todo \subseteq Nat /\ t.todo # {}
      BY <1>1, CommitsAssumption DEF SetDeploymentRegion, Tx
    <2> QED
      BY <2>1, MinIsIn
  <1>3. /\ Step(o, [t EXCEPT !.counts = Put(t.counts, <<t.to, g>>, t.want[g]), !.todo = t.todo \ {g}])
        /\ Private
    BY DEF SetDeploymentRegion
  <1> HIDE DEF g
  <1> QED
    BY <1>1, <1>2, <1>3, RegionWhole

LEMMA ZeroStartsWhole ==
    ASSUME Inv, Inv', Whole, NEW o \in Operators, ZeroStarts(o) PROVE Whole'
  <1> DEFINE t    == txs[o]
             s    == txs'[o]
             rows == DOMAIN CountsOf(t.to)
             want == [g \in rows |-> 0]
  <1>1. Sound(t) /\ t \in Tx /\ CountsOK(t) /\ t.pc = "zero"
    BY DEF ZeroStarts, Inv, Transactions, Active, Sound, Whole
  <1>2. t.kind = "down" /\ t.to \in Versions
    BY <1>1, KnownIs DEF Sound, PcOK, VersionsOK, Tx, Creates, Early
  <1>3. rows = {g \in Regions : counts[<<t.to, g>>] # Absent}
    BY <1>2, CountsPartial DEF Inv
  <1>4. Even(want) /\ DOMAIN want = rows
    BY <1>2, <1>3 DEF Even, Whole, CountsNeverTorn
  <1>5. Step(o, [t EXCEPT !.want = want, !.todo = rows, !.pc = "zeroing"]) /\ Private
    BY DEF ZeroStarts
  <1> HIDE DEF want, rows
  <1>6. s = [t EXCEPT !.want = want, !.todo = rows, !.pc = "zeroing"] /\ Others(o)
    BY <1>5, StepIs DEF Inv
  <1>7. s.pc = "zeroing" /\ s.want = want /\ s.todo = rows /\ s.to = t.to /\ s.counts = t.counts
    BY <1>1, <1>6 DEF Tx
  <1>8. DOMAIN t.counts = {}
    BY <1>1, <1>2 DEF CountsOK, Writing
  <1>9. CountsOK(s)
    <2> HIDE DEF s
    <2> QED
      BY <1>4, <1>7, <1>8 DEF CountsOK, Writing
  <1> QED
    BY <1>5, <1>6, <1>9, StatementWhole DEF Private

LEMMA ZeroWhole ==
    ASSUME Inv, Inv', Whole, NEW o \in Operators, ZeroDeploymentRegions(o) PROVE Whole'
  <1> DEFINE t == txs[o]
  <1>1. o \in Active /\ t.pc = "zeroing"
    BY DEF ZeroDeploymentRegions, Active
  <1>2. PICK g \in t.todo :
           /\ Step(o, [t EXCEPT !.counts = Put(t.counts, <<t.to, g>>, t.want[g]), !.todo = t.todo \ {g}])
           /\ Private
    BY DEF ZeroDeploymentRegions
  <1> QED
    BY <1>1, <1>2, RegionWhole

LEMMA CommitWhole ==
    ASSUME Inv, Inv', Whole, NEW o \in Operators, CommitTx(o) PROVE Whole'
  <1> DEFINE t == txs[o]
             c == t.counts
  <1>1. /\ Sound(t) /\ t \in Tx /\ CountsOK(t) /\ PcOK(t)
        /\ \A p \in Active' : p \in Active /\ txs'[p] = txs[p]
    BY CommitIs DEF Whole, Sound
  <1>2. DOMAIN c \subseteq Keys /\ \A k \in DOMAIN c : c[k] \in Nat
    BY <1>1, PartialIs DEF Tx
  <1>3. \A k \in Keys : counts'[k] = IF k \in DOMAIN c THEN c[k] ELSE counts[k]
    BY DEF CommitTx
  <1>4. ASSUME NEW v \in Versions, NEW g \in Regions, NEW h \in Regions, <<v, g>> \in DOMAIN c
        PROVE  <<v, h>> \in DOMAIN c /\ c[<<v, g>>] = c[<<v, h>>]
    <2>1. Writing(t) /\ t.todo = {}
      BY <1>1 DEF CommitTx, PcOK, CountsOK, Writing, Tx, Creates, Early
    <2>2. /\ DOMAIN c = {<<t.to, x>> : x \in DOMAIN t.want}
          /\ \A x \in DOMAIN t.want : c[<<t.to, x>>] = t.want[x]
          /\ Even(t.want)
      BY <1>1, <2>1 DEF CountsOK
    <2>3. v = t.to /\ g \in DOMAIN t.want
      BY <1>4, <2>2
    <2>4. h \in DOMAIN t.want /\ t.want[g] = t.want[h]
      BY <2>2, <2>3 DEF Even
    <2> QED
      BY <2>2, <2>3, <2>4
  <1>5. CountsNeverTorn'
    <2> SUFFICES ASSUME NEW v \in Versions, NEW g \in Regions, NEW h \in Regions
                 PROVE  counts'[<<v, g>>] = counts'[<<v, h>>]
      BY DEF CountsNeverTorn
    <2>1. <<v, g>> \in Keys /\ <<v, h>> \in Keys
      BY DEF Keys
    <2>2. CASE <<v, g>> \in DOMAIN c
      BY <1>3, <1>4, <2>1, <2>2
    <2>3. CASE <<v, g>> \notin DOMAIN c
      <3>1. <<v, h>> \notin DOMAIN c
        BY <1>4, <2>3
      <3> QED
        BY <1>3, <2>1, <2>3, <3>1 DEF Whole, CountsNeverTorn
    <2> QED
      BY <2>2, <2>3
  <1>6. \A k \in Keys : counts[k] # Absent => counts'[k] # Absent
    BY <1>2, <1>3 DEF Absent
  <1>7. ASSUME NEW p \in Active' PROVE CountsOK(txs[p])'
    <2>1. CountsOK(txs'[p])
      BY <1>1, <1>7 DEF Whole
    <2>2. Sound(txs'[p])
      BY <1>1, <1>7 DEF Inv, Transactions
    <2> QED
      BY <1>6, <2>1, <2>2, CountsStay
  <1> QED
    BY <1>5, <1>7 DEF Whole

LEMMA WholeNext ==
    ASSUME RequestsWhole, Inv, Inv', Whole, [Next]_vars PROVE Whole'
  <1>1. CASE deps' = deps /\ counts' = counts /\ txs' = txs
    <2>1. CountsNeverTorn' /\ Active' = Active
      BY <1>1 DEF Whole, CountsNeverTorn, Active
    <2>2. ASSUME NEW p \in Active PROVE CountsOK(txs[p])'
      BY <1>1, <2>2, CountsStay DEF Inv, Transactions, Whole
    <2> QED
      BY <2>1, <2>2 DEF Whole
  <1>2. ASSUME NEW s \in {"active", "failed"}, DecideStatus(s) PROVE Whole'
    BY <1>1, <1>2 DEF DecideStatus
  <1>3. ASSUME NEW d \in verdicts, SetDeploymentStatus(d) PROVE Whole'
    <2>1. counts' = counts /\ txs' = txs
      BY <1>3 DEF SetDeploymentStatus
    <2>2. CountsNeverTorn' /\ Active' = Active
      BY <2>1 DEF Whole, CountsNeverTorn, Active
    <2>3. ASSUME NEW p \in Active PROVE CountsOK(txs[p])'
      BY <2>1, <2>3, CountsStay DEF Inv, Transactions, Whole
    <2> QED
      BY <2>2, <2>3 DEF Whole
  <1>4. ASSUME NEW o \in Operators, Statement(o) PROVE Whole'
    BY <1>4, ResolveWhole, ReadCountsWhole, RowStepWhole, SetRegionWhole, ZeroStartsWhole, ZeroWhole,
       CommitWhole DEF Statement
  <1>6. CASE Deadlock
    BY <1>6, AbortWhole DEF Deadlock, DeadlockDetected
  <1>5. UNCHANGED vars => Whole'
    BY <1>1 DEF vars
  <1> QED
    BY <1>2, <1>3, <1>4, <1>5, <1>6, BeginWhole DEF Next, Engine

\* A multi-region patch is all or nothing, for any number of operators and
\* regions: the upserts run region by region, and only a commit shows them.
THEOREM PatchesAreWhole == RequestsWhole => (Spec => []CountsNeverTorn)
  <1> SUFFICES ASSUME RequestsWhole PROVE Spec => []CountsNeverTorn
    OBVIOUS
  <1>1. Init => Whole
    <2> SUFFICES ASSUME Init PROVE Whole
      OBVIOUS
    <2>1. \A v \in Versions, g \in Regions : counts[<<v, g>>] = Absent
      BY DEF Init, Keys
    <2>2. Active = {}
      BY DEF Init, Active
    <2> QED
      BY <2>1, <2>2 DEF Whole, CountsNeverTorn
  <1>4. Deployed => Whole
    <2> SUFFICES ASSUME Deployed PROVE Whole
      OBVIOUS
    <2>1. \A v \in Versions, g \in Regions : counts[<<v, g>>] = IF v = 1 THEN 1 ELSE Absent
      BY DEF Deployed, Keys
    <2>2. Active = {}
      BY DEF Deployed, Active
    <2> QED
      BY <2>1, <2>2 DEF Whole, CountsNeverTorn
  <1>2. Inv /\ Inv' /\ Whole /\ [Next]_vars => Whole'
    BY WholeNext
  <1>3. Whole => CountsNeverTorn
    BY DEF Whole
  <1> QED
    BY <1>1, <1>2, <1>3, <1>4, InvAlways, PTL DEF Spec

-----------------------------------------------------------------------------
(* Commands in a circle.                                                   *)
(*                                                                         *)
(* Without a down, the regions a command has written come before those it  *)
(* has to write, and what it has cleared is current: the commands waiting  *)
(* for a region climb, and only one can hold the current version.          *)

\* The order in which a transaction takes its row locks.
Lined(t) ==
    /\ ~Writing(t) => DOMAIN t.counts = {}
    /\ t.kind # "down" => \A k \in DOMAIN t.counts : k[1] = t.to /\ \A h \in t.todo : k[2] < h
    /\ Cleared(t) => DOMAIN t.deps \subseteq Current

AllLined == \A o \in Active : Lined(txs[o])

\* A statement keeps the order if its own transaction's is kept.
LEMMA StatementLined ==
    ASSUME AllLined, NEW o \in Operators, Others(o), Current' = Current,
           txs'[o] # NoTx => Lined(txs'[o])
    PROVE  AllLined'
  <1>1. ASSUME NEW p \in Active' PROVE Lined(txs[p])'
    <2>1. Lined(txs'[p])
      BY <1>1 DEF AllLined, Others, Active
    <2> QED
      BY <2>1 DEF Lined, Writing, Cleared
  <1> QED
    BY <1>1 DEF AllLined

LEMMA AbortLined == ASSUME Inv, AllLined, NEW o \in Operators, Abort(o) PROVE AllLined'
  BY StepIs, SameTables, StatementLined DEF Abort, Private, Inv

LEMMA BeginLined == ASSUME Inv, AllLined, NEW o \in Operators, Command(o) PROVE AllLined'
  <1>1. PICK kind, want, v : BeginCommand(o, kind, want, v)
    BY DEF Command
  <1>2. txs'[o] = Begin(kind, want, v) /\ Others(o) /\ Current' = Current
    BY <1>1, StepIs, SameTables DEF BeginCommand, Inv
  <1>3. DOMAIN txs'[o].counts = {} /\ txs'[o].pc \in {"version", "resolve"}
    BY <1>2, EmptyPartial DEF Begin
  <1>4. Lined(txs'[o])
    BY <1>3 DEF Lined, Cleared
  <1> QED
    BY <1>2, <1>4, StatementLined

\* Before it writes a region a transaction holds no count.
LEMMA ReadsLined ==
    ASSUME Inv, AllLined, NEW o \in Operators, Resolve(o) \/ ReadCounts(o) \/ ZeroStarts(o) PROVE AllLined'
  <1> DEFINE t == txs[o]
             s == txs'[o]
  <1>1. t \in Tx /\ PcOK(t) /\ Lined(t) /\ t.pc \in {"resolve", "counts", "zero"}
    BY DEF Resolve, ReadCounts, ZeroStarts, Inv, Transactions, Active, Sound, AllLined
  <1>2. DOMAIN t.counts = {}
    BY <1>1 DEF Lined, Writing, PcOK, Tx
  <1>3. CASE Abort(o)
    BY <1>3, AbortLined
  <1>4. CASE ~Abort(o)
    <2>1. s.counts = t.counts /\ s.pc \in {"regions", "zero", "counts", "version", "zeroing"} /\ Others(o) /\ Private
      <3>1. CASE Resolve(o)
        <4>1. PICK cur \in Current : Private /\
                 Step(o, [t EXCEPT !.from = cur,
                                   !.to   = IF t.kind \in {"scale", "down"} THEN cur ELSE @,
                                   !.pc   = CASE t.kind = "scale" -> "regions"
                                              [] t.kind = "down"  -> "zero"
                                              [] OTHER            -> "counts"])
          BY <1>4, <3>1 DEF Resolve
        <4>2. /\ s = [t EXCEPT !.from = cur,
                                !.to   = IF t.kind \in {"scale", "down"} THEN cur ELSE @,
                                !.pc   = CASE t.kind = "scale" -> "regions"
                                           [] t.kind = "down"  -> "zero"
                                           [] OTHER            -> "counts"]
              /\ Others(o)
          BY <4>1, StepIs DEF Inv
        <4> QED
          BY <1>1, <4>1, <4>2 DEF Tx
      <3>2. CASE ReadCounts(o) /\ t.kind = "resize"
        <4> DEFINE want == Merged(t.from, t.want)
        <4>1. Step(o, [t EXCEPT !.want = want, !.todo = DOMAIN want, !.pc = "version"]) /\ Private
          BY <3>2 DEF ReadCounts
        <4> HIDE DEF want
        <4>2. s = [t EXCEPT !.want = want, !.todo = DOMAIN want, !.pc = "version"] /\ Others(o)
          BY <4>1, StepIs DEF Inv
        <4> QED
          BY <1>1, <4>1, <4>2 DEF Tx
      <3>3. CASE ReadCounts(o) /\ t.kind = "rollback"
        <4>1. PICK v \in TargetOf(t) :
                 Step(o, [t EXCEPT !.to = v, !.want = Carried(t.from, v),
                                   !.todo = DOMAIN Carried(t.from, v), !.pc = "regions"]) /\ Private
          BY <1>4, <3>3 DEF ReadCounts
        <4> DEFINE want == Carried(t.from, v)
        <4>2. s = [t EXCEPT !.to = v, !.want = want, !.todo = DOMAIN want, !.pc = "regions"] /\ Others(o)
          BY <4>1, StepIs DEF Inv
        <4> HIDE DEF want
        <4> QED
          BY <1>1, <4>1, <4>2 DEF Tx
      <3>4. CASE ZeroStarts(o)
        <4> DEFINE rows == DOMAIN CountsOf(t.to)
                   want == [g \in rows |-> 0]
        <4>1. Step(o, [t EXCEPT !.want = want, !.todo = rows, !.pc = "zeroing"]) /\ Private
          BY <3>4 DEF ZeroStarts
        <4> HIDE DEF want, rows
        <4>2. s = [t EXCEPT !.want = want, !.todo = rows, !.pc = "zeroing"] /\ Others(o)
          BY <4>1, StepIs DEF Inv
        <4> QED
          BY <1>1, <4>1, <4>2 DEF Tx
      <3> QED
        BY <3>1, <3>2, <3>3, <3>4 DEF ReadCounts
    <2> HIDE DEF s
    <2>2. Lined(s)
      BY <1>2, <2>1 DEF Lined, Cleared
    <2> QED
      BY <2>1, <2>2, SameTables, StatementLined DEF Private, s
  <1> QED
    BY <1>3, <1>4

LEMMA RowStepLined ==
    ASSUME Inv, AllLined, NEW o \in Operators,
           ReadVersion(o) \/ ClearStarts(o) \/ ClearCurrent(o) \/ CreateDeployment(o) \/ SetDeploymentCurrent(o)
    PROVE  AllLined'
  <1> DEFINE t == txs[o]
             s == txs'[o]
  <1>1. t \in Tx /\ Lined(t) /\ PcOK(t)
    BY DEF ReadVersion, ClearStarts, ClearCurrent, CreateDeployment, SetDeploymentCurrent,
           Inv, Transactions, Active, Sound, AllLined
  <1>2. CASE Abort(o)
    BY <1>2, AbortLined
  <1>3. CASE ~Abort(o)
    <2>1. /\ s.kind = t.kind /\ s.todo = t.todo /\ s.counts = t.counts
          /\ Others(o) /\ Private
          /\ s.pc \in {"insert", "promote"} => DOMAIN s.deps \subseteq Current
          /\ \/ t.pc = "version" /\ s.pc = "clear"
             \/ t.pc = "clear" /\ s.pc = "clearing"
             \/ t.kind = "rollback" /\ t.pc = "regions" /\ t.todo = {} /\ s.pc = "clearing" /\ s.to = t.to
             \/ t.kind # "rollback" /\ t.pc = "clearing" /\ s.pc = "insert"
             \/ t.kind = "rollback" /\ t.pc = "clearing" /\ s.pc = "promote" /\ s.to = t.to
             \/ t.pc = "insert" /\ s.pc = "regions"
             \/ t.pc = "promote" /\ s.pc = "commit" /\ s.to = t.to
      BY <1>1, <1>3, RowStepIs
    <2> HIDE DEF s
    <2>2. Cleared(s) => DOMAIN s.deps \subseteq Current
      BY <2>1 DEF Cleared
    <2>3. \/ DOMAIN t.counts = {}
          \/ Writing(s) /\ s.to = t.to
      <3>1. t.pc = "clear" => t.kind # "rollback"
        BY <1>1 DEF PcOK
      <3>2. t.pc = "promote" => t.kind = "rollback"
        BY <1>1 DEF PcOK, Tx, Creates, Early
      <3> QED
        BY <1>1, <2>1, <3>1, <3>2 DEF Lined, Writing
    <2>4. Lined(s)
      BY <1>1, <2>1, <2>2, <2>3 DEF Lined
    <2> QED
      BY <2>1, <2>4, SameTables, StatementLined DEF Private, s
  <1> QED
    BY <1>2, <1>3

\* The next region is the first of those there are to write.
LEMMA RegionLined ==
    ASSUME Inv, AllLined, NEW o \in Operators, SetDeploymentRegion(o) \/ ZeroDeploymentRegions(o)
    PROVE  AllLined'
  <1> DEFINE t == txs[o]
             s == txs'[o]
  <1>1. /\ t \in Tx /\ Lined(t) /\ PcOK(t) /\ t.pc \in {"regions", "zeroing"}
        /\ t.todo \subseteq Nat /\ DOMAIN t.counts \subseteq Keys
    <2>1. t \in Tx /\ Lined(t) /\ PcOK(t) /\ t.pc \in {"regions", "zeroing"}
      BY DEF SetDeploymentRegion, ZeroDeploymentRegions, Inv, Transactions, Active, Sound, AllLined
    <2> QED
      BY <2>1, PartialIs, CommitsAssumption DEF Tx
  <1>2. PICK g \in t.todo :
           /\ Step(o, [t EXCEPT !.counts = Put(t.counts, <<t.to, g>>, t.want[g]), !.todo = t.todo \ {g}])
           /\ Private
           /\ t.kind # "down" => g = Min(t.todo)
    <2>1. CASE SetDeploymentRegion(o)
      <3>1. t.todo # {} /\ Min(t.todo) \in t.todo
        BY <1>1, <2>1, MinIsIn DEF SetDeploymentRegion
      <3> QED
        BY <2>1, <3>1 DEF SetDeploymentRegion
    <2>2. CASE ZeroDeploymentRegions(o)
      <3>1. t.kind = "down"
        BY <1>1, <2>2 DEF ZeroDeploymentRegions, PcOK, Tx, Creates, Early
      <3> QED
        BY <2>2, <3>1 DEF ZeroDeploymentRegions
    <2> QED
      BY <2>1, <2>2
  <1> DEFINE c == Put(t.counts, <<t.to, g>>, t.want[g])
  <1>3. DOMAIN c = DOMAIN t.counts \cup {<<t.to, g>>}
    BY DEF Put
  <1> HIDE DEF c
  <1>4. s = [t EXCEPT !.counts = c, !.todo = t.todo \ {g}] /\ Others(o)
    BY <1>2, StepIs DEF Inv, c
  <1>5. s.kind = t.kind /\ s.pc = t.pc /\ s.to = t.to /\ s.todo = t.todo \ {g} /\ s.counts = c
    BY <1>1, <1>4 DEF Tx
  <1>6. t.kind # "down" => \A h \in t.todo \ {g} : g < h
    <2>1. t.kind # "down" => \A h \in t.todo : g =< h
      BY <1>1, <1>2, MinIsIn
    <2> QED
      BY <1>1, <2>1
  <1>7. Lined(s)
    <2> HIDE DEF s
    <2>1. Writing(s) /\ ~Cleared(s)
      BY <1>1, <1>5 DEF Writing, Cleared
    <2>2. ASSUME s.kind # "down", NEW k \in DOMAIN s.counts
          PROVE  k[1] = s.to /\ \A h \in s.todo : k[2] < h
      BY <1>1, <1>3, <1>5, <1>6, <2>2 DEF Lined
    <2> QED
      BY <2>1, <2>2 DEF Lined
  <1> QED
    BY <1>2, <1>4, <1>7, SameTables, StatementLined DEF Private

\* Once another version is current, nobody else holds the one before.
LEMMA CommitLined == ASSUME Inv, AllLined, NEW o \in Operators, CommitTx(o) PROVE AllLined'
  <1>1. /\ o \in Active /\ Sound(txs[o]) /\ txs'[o] = NoTx
        /\ Promoting(txs[o]) \/ DOMAIN txs[o].deps = {}
        /\ Others(o) /\ \A p \in Active' : p \in Active /\ txs'[p] = txs[p]
    BY CommitIs, StepIs DEF CommitTx, Inv
  <1>2. CASE DOMAIN txs[o].deps = {}
    <2>1. deps' = deps
      BY <1>2 DEF CommitTx, Inv, Tables
    <2> QED
      BY <1>1, <2>1, SameTables, StatementLined
  <1>3. CASE Promoting(txs[o])
    <2>1. Current \subseteq DOMAIN txs[o].deps
      BY <1>1, <1>3 DEF Sound, WritesOK
    <2>2. ASSUME NEW p \in Active' PROVE Lined(txs[p])'
      <3>1. p \in Active /\ p # o /\ txs'[p] = txs[p] /\ Lined(txs[p])
        BY <1>1, <2>2 DEF AllLined, Active
      <3>2. Cleared(txs[p]) => DOMAIN txs[p].deps = {}
        BY <1>1, <2>1, <3>1 DEF Inv, Exclusive, Lined
      <3> QED
        BY <3>1, <3>2 DEF Lined, Writing, Cleared
    <2> QED
      BY <2>2 DEF AllLined
  <1> QED
    BY <1>1, <1>2, <1>3

LEMMA LinedNext == ASSUME Inv, AllLined, [Next]_vars PROVE AllLined'
  <1>1. CASE Current' = Current /\ txs' = txs
    BY <1>1 DEF AllLined, Active, Lined, Writing, Cleared
  <1>2. CASE Engine \/ UNCHANGED vars
    <2>1. ASSUME NEW d \in verdicts, SetDeploymentStatus(d) PROVE AllLined'
      BY <1>1, <2>1, SetStatusIs DEF SetDeploymentStatus
    <2>2. ASSUME NEW s \in {"active", "failed"}, DecideStatus(s) PROVE AllLined'
      BY <1>1, <2>2, SameTables DEF DecideStatus
    <2>3. UNCHANGED vars => AllLined'
      BY <1>1, SameTables DEF vars
    <2> QED
      BY <1>2, <2>1, <2>2, <2>3 DEF Engine
  <1>3. CASE Deadlock
    BY <1>3, AbortLined DEF Deadlock, DeadlockDetected
  <1>4. ASSUME NEW o \in Operators, Statement(o) PROVE AllLined'
    BY <1>4, ReadsLined, RowStepLined, RegionLined, CommitLined DEF Statement
  <1> QED
    BY <1>2, <1>3, <1>4, BeginLined DEF Next

\* Who waits for a version waits for one that only has to clear it.
LEMMA WaitIs ==
    ASSUME Inv, NEW o \in Operators, txs[o].kind # "down", NEW p \in WaitsFor(o)
    PROVE  /\ o \in Active /\ p \in Active /\ p # o
           /\ \/ /\ txs[o].pc \in {"clearing", "insert", "promote"} /\ DOMAIN txs[p].deps # {}
              \/ /\ txs[o].pc = "regions" /\ txs[o].todo # {}
                 /\ <<txs[o].to, Min(txs[o].todo)>> \in DOMAIN txs[p].counts
  <1>1. o \in Active /\ p \in Active /\ p # o
    BY DEF WaitsFor, Active
  <1>2. txs[o].pc # "zeroing"
    BY <1>1 DEF Inv, Transactions, Sound, PcOK, Tx, Creates, Early
  <1>3. CASE WantedDeps(txs[o]) \cap DOMAIN txs[p].deps # {}
    BY <1>1, <1>3 DEF WantedDeps
  <1>4. CASE WantedCounts(txs[o]) \cap DOMAIN txs[p].counts # {}
    BY <1>1, <1>2, <1>4 DEF WantedCounts
  <1> QED
    BY <1>1, <1>3, <1>4 DEF WaitsFor

\* A version that is being created has no regions yet that another may hold.
LEMMA CreatesDoNotWait ==
    ASSUME Inv, AllLined, NEW o \in Active, NEW p \in Active, o # p,
           txs[o].kind \in Creates, txs[o].pc = "regions", txs[p].kind # "down",
           NEW g, <<txs[o].to, g>> \in DOMAIN txs[p].counts
    PROVE  FALSE
  <1> DEFINE t == txs[o]
             u == txs[p]
  <1>1. /\ Sound(t) /\ Sound(u) /\ Lined(u) /\ t \in Tx /\ u \in Tx
        /\ DOMAIN t.deps \cap DOMAIN u.deps = {}
    BY DEF Inv, Transactions, AllLined, Exclusive, Sound
  <1>2. t.to \in DOMAIN t.deps /\ Known = 1 .. (t.to - 1) /\ t.to \in Versions
    BY <1>1 DEF Sound, WritesOK, VersionsOK, Promoting
  <1>3. u.to = t.to /\ Writing(u)
    BY <1>1 DEF Lined
  <1>4. CASE u.kind \in Creates
    <2>1. u.pc = "regions"
      BY <1>1, <1>3, <1>4 DEF Sound, PcOK, Writing, Creates, Early
    <2> QED
      BY <1>1, <1>2, <1>3, <1>4, <2>1 DEF Sound, WritesOK, Promoting
  <1>5. CASE u.kind \notin Creates
    <2>1. u.to \in Known
      BY <1>1, <1>3, <1>5 DEF Sound, VersionsOK, Writing
    <2> QED
      BY <1>2, <1>3, <2>1, KnownIs
  <1> QED
    BY <1>4, <1>5

\* In a circle without a down, who waits for a region is not creating it, and
\* nobody makes a version current: whoever holds a version holds the current one.
LEMMA CircleHolds ==
    ASSUME Inv, AllLined, NEW S \in SUBSET Operators, Circle(S), \A o \in S : txs[o].kind # "down",
           NEW o \in S
    PROVE  /\ ~Promoting(txs[o])
           /\ DOMAIN txs[o].deps # {} => Cleared(txs[o]) /\ DOMAIN txs[o].deps = Current
  <1>1. PICK p \in S : p \in WaitsFor(o)
    BY DEF Circle
  <1>2. /\ o \in Active /\ p \in Active /\ p # o
        /\ \/ /\ txs[o].pc \in {"clearing", "insert", "promote"} /\ DOMAIN txs[p].deps # {}
           \/ /\ txs[o].pc = "regions" /\ txs[o].todo # {}
              /\ <<txs[o].to, Min(txs[o].todo)>> \in DOMAIN txs[p].counts
    BY <1>1, WaitIs
  <1>3. Sound(txs[o]) /\ Lined(txs[o])
    BY <1>2 DEF Inv, Transactions, AllLined
  <1>4. ~Promoting(txs[o])
    BY <1>2, CreatesDoNotWait DEF Promoting
  <1>5. ASSUME DOMAIN txs[o].deps # {} PROVE Cleared(txs[o]) /\ DOMAIN txs[o].deps = Current
    <2>1. Cleared(txs[o]) /\ DOMAIN txs[o].deps \subseteq Current
      BY <1>3, <1>4, <1>5 DEF Sound, WritesOK, Lined
    <2>2. \E c : Current = {c}
      BY <1>5, <2>1, CurrentIsKnown DEF Inv, Numbered
    <2> QED
      BY <1>5, <2>1, <2>2
  <1> QED
    BY <1>4, <1>5

\* So all of them wait for a region, and for one that comes after their own.
LEMMA CircleClimbs ==
    ASSUME Inv, AllLined, NEW S \in SUBSET Operators, Circle(S), \A o \in S : txs[o].kind # "down",
           NEW o \in S, NEW p \in S, p \in WaitsFor(o)
    PROVE  /\ txs[o].todo # {} /\ txs[o].todo \subseteq Nat /\ txs[p].todo # {} /\ txs[p].todo \subseteq Nat
           /\ Min(txs[o].todo) < Min(txs[p].todo)
  <1>1. ASSUME NEW q \in S, NEW r \in S, r \in WaitsFor(q)
        PROVE  /\ q \in Active /\ r \in Active /\ txs[q].pc = "regions" /\ txs[q].todo # {}
               /\ <<txs[q].to, Min(txs[q].todo)>> \in DOMAIN txs[r].counts
    <2>1. CASE DOMAIN txs[r].deps # {}
      <3>1. Cleared(txs[r]) /\ DOMAIN txs[r].deps = Current
        BY <2>1, CircleHolds
      <3>2. PICK x \in S : x \in WaitsFor(r)
        BY DEF Circle
      <3>3. x \in Active /\ r \in Active /\ x # r /\ DOMAIN txs[x].deps # {}
        BY <3>1, <3>2, WaitIs DEF Cleared
      <3>4. DOMAIN txs[x].deps = Current
        BY <3>3, CircleHolds
      <3> QED
        BY <2>1, <3>1, <3>3, <3>4 DEF Inv, Exclusive
    <2>2. CASE DOMAIN txs[r].deps = {}
      BY <1>1, <2>2, WaitIs
    <2> QED
      BY <2>1, <2>2
  <1>2. /\ o \in Active /\ p \in Active /\ txs[o].todo # {}
        /\ <<txs[o].to, Min(txs[o].todo)>> \in DOMAIN txs[p].counts
    BY <1>1
  <1>3. txs[p].pc = "regions" /\ txs[p].todo # {}
    <2>1. PICK r \in S : r \in WaitsFor(p)
      BY DEF Circle
    <2> QED
      BY <1>1, <2>1
  <1>4. txs[o].todo \subseteq Nat /\ txs[p].todo \subseteq Nat
    BY <1>2, CommitsAssumption DEF Inv, Transactions, Sound, Tx
  <1>5. \A h \in txs[p].todo : Min(txs[o].todo) < h
    <2>1. Lined(txs[p])
      BY <1>2 DEF AllLined
    <2> DEFINE k == <<txs[o].to, Min(txs[o].todo)>>
    <2>2. k[2] = Min(txs[o].todo)
      OBVIOUS
    <2> HIDE DEF k
    <2>3. k \in DOMAIN txs[p].counts
      BY <1>2 DEF k
    <2> QED
      BY <2>1, <2>2, <2>3 DEF Lined
  <1>6. Min(txs[p].todo) \in txs[p].todo
    BY <1>3, <1>4, MinIsIn
  <1> QED
    BY <1>2, <1>3, <1>4, <1>5, <1>6

\* Row locks taken in the order of the regions, and the one current version,
\* keep deploys, resizes, scales and rollbacks from waiting for each other in a
\* circle, however many there are (sortedRegions): only a down can be caught.
THEOREM CirclesNeedDown == Spec => [](\A S \in SUBSET Operators : NoCircleWithoutDown(S))
  <1>1. Inv /\ AllLined => \A S \in SUBSET Operators : NoCircleWithoutDown(S)
    <2> SUFFICES ASSUME Inv, AllLined, NEW S \in SUBSET Operators, Circle(S), \A o \in S : txs[o].kind # "down"
                 PROVE  FALSE
      BY DEF NoCircleWithoutDown
    <2> DEFINE next(o) == Min(txs[o].todo)
               N == {next(o) : o \in S}
    <2>1. \A o \in S : \E p \in S : o \in WaitsFor(p)
      <3>1. PICK f \in Bijection(S, S) : \A o \in S : f[o] \in WaitsFor(o)
        BY DEF Circle
      <3>2. \A o \in S : \E p \in S : f[p] = o
        BY <3>1 DEF Bijection, Surjection
      <3> QED
        BY <3>1, <3>2
    <2>2. \A o, p \in S : o \in WaitsFor(p) => next(p) < next(o) /\ next(p) \in Nat /\ next(o) \in Nat
      <3> SUFFICES ASSUME NEW o \in S, NEW p \in S, o \in WaitsFor(p)
                   PROVE  next(p) < next(o) /\ next(p) \in Nat /\ next(o) \in Nat
        OBVIOUS
      <3>1. /\ txs[o].todo # {} /\ txs[o].todo \subseteq Nat /\ txs[p].todo # {} /\ txs[p].todo \subseteq Nat
            /\ Min(txs[p].todo) < Min(txs[o].todo)
        BY CircleClimbs
      <3> QED
        BY <3>1, MinIsIn
    <2> HIDE DEF next
    <2>3. N \subseteq Nat /\ N # {}
      BY <2>1, <2>2 DEF Circle
    <2>4. Min(N) \in N /\ \A n \in N : Min(N) =< n
      BY <2>3, MinIsIn
    <2>5. PICK o \in S : Min(N) = next(o)
      BY <2>4
    <2>6. PICK p \in S : next(p) < next(o) /\ next(p) \in Nat /\ next(o) \in Nat
      BY <2>1, <2>2
    <2> QED
      BY <2>4, <2>5, <2>6
  <1>2. Init \/ Deployed => AllLined
    BY DEF Init, Deployed, AllLined, Active
  <1>3. Inv /\ AllLined /\ [Next]_vars => AllLined'
    BY LinedNext
  <1> QED
    BY <1>1, <1>2, <1>3, InvAlways, PTL DEF Spec

=============================================================================
