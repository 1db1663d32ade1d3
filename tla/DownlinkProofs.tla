---------------------------- MODULE DownlinkProofs ----------------------------
(***************************************************************************)
(* The downlink needs no resync: for any number of replicas and streams,   *)
(* any interleaving of the four callers of pushState and any number of     *)
(* lost notifications, broken streams and restarts, an agent that nothing  *)
(* is on the way to runs what the database wants of its host.              *)
(*                                                                         *)
(* The argument has two halves.  Up to the session: whatever of the host   *)
(* changed since it was last read for the registered session is still      *)
(* announced, by an undelivered notification, by a LISTEN that is down and *)
(* will treat the host as changed, or by a call that has not begun to read *)
(* (Current).  It is pushMu that makes this inductive: a call that is      *)
(* past its first read is alone, so a stale read can never be pushed over  *)
(* a fresh one.  Down from the session: the state last pushed is the last  *)
(* thing in the mailbox, else the last on the wire, else what the agent    *)
(* runs (Delivered).                                                       *)
(***************************************************************************)
EXTENDS AgentDownlink, SequenceTheorems, TLAPS

\* A place for one state at most.
Slot == {<<>>} \cup {<<st>> : st \in State}
RowStates == [Replicas -> Phases \cup {"gone"}]

Base ==
    /\ rows \in RowStates /\ size \in 0 .. MaxSize
    /\ listening \in BOOLEAN /\ listens \in 0 .. MaxFaults + 1 /\ notes \in Nat
    /\ registered \in Streams \cup {NoStream} /\ conn \in Streams \cup {NoStream}
    /\ stage \in [Streams -> {"unborn", "hello", "open", "gone"}]
    /\ Len(wire) <= WireDepth /\ unread \subseteq Streams
    /\ containers \subseteq Replicas /\ disk \in 0 .. MaxSize

Held ==
    /\ lastHash \in [Streams -> Slot] /\ mailbox \in [Streams -> Slot]
    /\ wire \in Seq(State)
    /\ pushMu \in [Streams -> Pushers \cup {Nobody}]

\* The calls of pushState by how far they have come.
Locking == [at : {"lock"}, force : BOOLEAN, on : Streams]
Comparing == [at : {"volumes"}, force : BOOLEAN, on : Streams, rows : RowStates]
Calls ==
    /\ push \in [Pushers -> {Idle} \cup Locking \cup Comparing]
    /\ \A p \in Pushers : push[p] # Idle => stage[push[p].on] \in {"open", "gone"}

Reading(p, s) == push[p].at = "volumes" /\ push[p].on = s

\* pushMu: a call that is past its lock holds it.
Exclusive == \A p \in Pushers, s \in Streams : Reading(p, s) => pushMu[s] = p

\* The registered session is open, the agent's stream has not ended, and a
\* session that is not open has been pushed nothing.
Sessions ==
    /\ registered # NoStream => stage[registered] = "open"
    /\ conn # NoStream => stage[conn] \in {"hello", "open"}
    /\ conn = NoStream => wire = <<>>
    /\ \A s \in Streams : stage[s] \in {"unborn", "hello"} =>
           lastHash[s] = NoDigest /\ mailbox[s] = <<>>

\* Something will still have session s read the host.
Owed(s) ==
    \/ ~listening \/ notes > 0
    \/ \E p \in Pushers : push[p].at = "lock" /\ push[p].on = s

Wanted == [rows |-> rows, size |-> size]

CurrentOn(s) ==
    \/ Owed(s)
    \/ /\ \A p \in Pushers : Reading(p, s) => push[p].rows = rows
       /\ \/ s \in unread
          \/ \E p \in Pushers : Reading(p, s)
          \/ lastHash[s] = <<Wanted>>
Current == registered # NoStream => CurrentOn(registered)

\* Where the state last pushed to session s is.
DeliveredTo(s) ==
    /\ mailbox[s] # <<>> => mailbox[s] = lastHash[s]
    /\ mailbox[s] = <<>> /\ wire # <<>> => lastHash[s] = <<wire[Len(wire)]>>
    /\ mailbox[s] = <<>> /\ wire = <<>> =>
           \A st \in State : lastHash[s] = <<st>> => containers = Runs(st) /\ disk = st.size
Delivered == conn # NoStream => DeliveredTo(conn)

Inv == Base /\ Held /\ Calls /\ Exclusive /\ Sessions /\ Current /\ Delivered

-----------------------------------------------------------------------------
(* Names.                                                                  *)

LEMMA StreamNames == NoStream \notin Streams /\ (\A s \in Streams : s \in Nat)
  BY DownlinkAssumption DEF NoStream, Streams

LEMMA PusherNames ==
    /\ <<"listener", 0>> \in Pushers /\ <<"resync", 0>> \in Pushers
    /\ \A s \in Streams : <<"relisten", s>> \in Pushers /\ <<"opening", s>> \in Pushers
    /\ Nobody \notin Pushers
  BY DEF Pushers, Nobody

LEMMA CallKinds ==
    /\ Idle.at = "idle"
    /\ \A c \in Locking : c.at = "lock" /\ c # Idle /\ c.on \in Streams
    /\ \A c \in Comparing : c.at = "volumes" /\ c # Idle /\ c.on \in Streams
  BY DEF Locking, Comparing, Idle

LEMMA InvInit == Init => Inv
  <1> SUFFICES ASSUME Init PROVE Inv
    OBVIOUS
  <1> USE DownlinkAssumption DEF Init
  <1>1. Base
    <2>1. rows \in RowStates
      BY DEF RowStates, Phases
    <2>2. Len(wire) = 0 /\ 0 <= WireDepth
      OBVIOUS
    <2>3. listens \in 0 .. MaxFaults + 1 /\ disk \in 0 .. MaxSize
      OBVIOUS
    <2> QED
      BY <2>1, <2>2, <2>3 DEF Base
  <1>2. Held
    BY DEF Held, Slot, NoDigest
  <1>3. Calls
    BY DEF Calls
  <1>4. Exclusive
    BY DEF Exclusive, Reading, Idle
  <1>5. Sessions
    BY DEF Sessions
  <1>6. Current /\ Delivered
    BY DEF Current, Delivered
  <1> QED
    BY <1>1, <1>2, <1>3, <1>4, <1>5, <1>6 DEF Inv

LEMMA TypeFromParts == Base /\ Held => TypeOK
  <1> SUFFICES ASSUME Base, Held PROVE TypeOK
    OBVIOUS
  <1>1. [rows |-> rows, size |-> size] \in State
    BY DEF Base, RowStates, State
  <1>2. ASSUME NEW s \in Streams
        PROVE  lastHash[s] = NoDigest \/ Head(lastHash[s]) \in State
    <2>1. lastHash[s] \in Slot
      BY DEF Held
    <2> QED
      BY <2>1 DEF Slot, NoDigest
  <1>3. ASSUME NEW s \in Streams PROVE Len(mailbox[s]) <= 1
    <2>1. mailbox[s] \in Slot
      BY DEF Held
    <2>2. CASE mailbox[s] = <<>>
      BY <2>2
    <2>3. ASSUME NEW st \in State, mailbox[s] = <<st>> PROVE Len(mailbox[s]) <= 1
      BY <2>3
    <2> QED
      BY <2>1, <2>2, <2>3 DEF Slot
  <1>4. ASSUME NEW s \in Streams PROVE pushMu[s] \in Pushers \cup {Nobody}
    BY DEF Held
  <1> QED
    BY <1>1, <1>2, <1>3, <1>4 DEF Base, TypeOK

LEMMA TailLast ==
    ASSUME NEW w \in Seq(State), w # <<>>
    PROVE  /\ Head(w) \in State /\ Tail(w) \in Seq(State) /\ Len(Tail(w)) = Len(w) - 1
           /\ Tail(w) = <<>> => w[Len(w)] = Head(w)
           /\ Tail(w) # <<>> => Tail(w)[Len(Tail(w))] = w[Len(w)]
  <1>1. Len(w) \in Nat \ {0} /\ Head(w) \in State /\ Tail(w) \in Seq(State)
        /\ Len(Tail(w)) = Len(w) - 1
    BY HeadTailProperties, EmptySeq, LenProperties
  <1>2. Tail(w) = <<>> => w[Len(w)] = Head(w)
    <2>1. Len(<<>>) = 0
      OBVIOUS
    <2>2. Tail(w) = <<>> => Len(Tail(w)) = 0
      BY <2>1, Zenon
    <2>3. Tail(w) = <<>> => Len(w) = 1
      BY <1>1, <2>2
    <2> QED
      BY <2>3
  <1>3. Tail(w) # <<>> => Tail(w)[Len(Tail(w))] = w[Len(w)]
    <2>1. Tail(w) # <<>> => Len(w) - 1 \in 1 .. Len(Tail(w))
      BY <1>1, EmptySeq
    <2>2. \A i \in 1 .. Len(Tail(w)) : Tail(w)[i] = w[i + 1]
      BY <1>1, HeadTailProperties
    <2> QED
      BY <1>1, <2>1, <2>2
  <1> QED
    BY <1>1, <1>2, <1>3

LEMMA SentLast ==
    ASSUME NEW w \in Seq(State), NEW st \in State
    PROVE  LET sent == w \o <<st>>
           IN  /\ sent \in Seq(State) /\ Len(sent) = Len(w) + 1
               /\ sent # <<>> /\ sent[Len(sent)] = st
  OBVIOUS

-----------------------------------------------------------------------------
(* What changes the database, and the calls that announces.                *)

\* A write is announced to whoever listens; a LISTEN that is down owes anyway.
LEMMA RowsChange ==
    ASSUME Inv, rows' \in RowStates, size' \in 0 .. MaxSize, Notify,
           UNCHANGED <<listening, listens, sessionVars, push, wire, agentVars>>
    PROVE  Inv'
  <1> USE DEF Inv, Notify, sessionVars, agentVars
  <1>1. Base' /\ Held'
    BY DEF Base, Held
  <1>2. Calls' /\ Exclusive' /\ Sessions'
    BY DEF Calls, Exclusive, Reading, Sessions
  <1>3. Current'
    BY DEF Current, CurrentOn, Owed, Base
  <1>4. Delivered'
    BY DEF Delivered, DeliveredTo
  <1> QED
    BY <1>1, <1>2, <1>3, <1>4

\* What a call leaves behind as it starts.
LEMMA CallStarts ==
    ASSUME Calls, Exclusive, NEW p \in Pushers, NEW f \in BOOLEAN,
           NEW s \in Streams \cup {NoStream}, Call(p, f, s), UNCHANGED pushMu,
           s # NoStream => stage'[s] = "open",
           \A t \in Streams : stage[t] \in {"open", "gone"} => stage'[t] = stage[t]
    PROVE  /\ Calls' /\ Exclusive'
           /\ s # NoStream => \E q \in Pushers : push'[q].at = "lock" /\ push'[q].on = s
  <1> DEFINE c == [at |-> "lock", force |-> f, on |-> s]
  <1>1. CASE s = NoStream
    <2>1. push' = push
      BY <1>1 DEF Call
    <2>2. ASSUME NEW q \in Pushers, push[q] # Idle PROVE push[q].on \in Streams
      BY <2>2, CallKinds DEF Calls
    <2> QED
      BY <1>1, <2>1, <2>2 DEF Calls, Exclusive, Reading
  <1>2. CASE s # NoStream
    <2>1. c \in Locking /\ c.at = "lock" /\ c.on = s
      BY <1>2 DEF Locking
    <2>2. push' = [push EXCEPT ![p] = c]
      BY <1>2, Zenon DEF Call
    <2> HIDE DEF c
    <2>3. push'[p] = c /\ \A q \in Pushers \ {p} : push'[q] = push[q]
      BY <2>2 DEF Calls
    <2>4. Calls'
      <3>1. push' \in [Pushers -> {Idle} \cup Locking \cup Comparing]
        BY <2>1, <2>2 DEF Calls
      <3>2. ASSUME NEW q \in Pushers, push'[q] # Idle
            PROVE  stage'[push'[q].on] \in {"open", "gone"}
        <4>1. CASE q = p
          BY <1>2, <2>1, <2>3, <4>1
        <4>2. CASE q # p
          <5>1. push[q].on \in Streams
            BY <2>3, <3>2, <4>2, CallKinds DEF Calls
          <5> QED
            BY <2>3, <3>2, <4>2, <5>1 DEF Calls
        <4> QED
          BY <4>1, <4>2
      <3> QED
        BY <3>1, <3>2 DEF Calls
    <2>5. Exclusive'
      BY <2>1, <2>3 DEF Exclusive, Reading
    <2> QED
      BY <2>1, <2>3, <2>4, <2>5
  <1> QED
    BY <1>1, <1>2

LEMMA ListenInv == ASSUME Inv, Listen PROVE Inv'
  <1> USE DEF Inv, Listen, dbVars, sessionVars, agentVars
  <1>1. Base' /\ Held' /\ Sessions'
    BY DownlinkAssumption DEF Base, Held, Sessions, Streams
  <1>2. Calls' /\ Exclusive'
        /\ (registered # NoStream =>
               \E q \in Pushers : push'[q].at = "lock" /\ push'[q].on = registered)
    <2>1. <<"relisten", listens + 1>> \in Pushers
      BY PusherNames
    <2> QED
      BY <2>1, CallStarts DEF Base, Sessions
  <1>3. Current'
    BY <1>2 DEF Current, CurrentOn, Owed
  <1>4. Delivered'
    BY DEF Delivered, DeliveredTo
  <1> QED
    BY <1>1, <1>2, <1>3, <1>4

LEMMA OnChangeInv == ASSUME Inv, OnChange PROVE Inv'
  <1> USE DEF Inv, OnChange, dbVars, sessionVars, agentVars
  <1>1. Base' /\ Held' /\ Sessions'
    BY DEF Base, Held, Sessions
  <1>2. Calls' /\ Exclusive'
        /\ (registered # NoStream =>
               \E q \in Pushers : push'[q].at = "lock" /\ push'[q].on = registered)
    BY PusherNames, CallStarts DEF Base, Sessions
  <1>3. Current'
    BY <1>2 DEF Current, CurrentOn, Owed
  <1>4. Delivered'
    BY DEF Delivered, DeliveredTo
  <1> QED
    BY <1>1, <1>2, <1>3, <1>4

LEMMA ResyncInv == ASSUME Inv, Resync PROVE Inv'
  <1> USE DEF Inv, Resync, dbVars, listenVars, sessionVars, agentVars
  <1>1. Base' /\ Held' /\ Sessions'
    BY DEF Base, Held, Sessions
  <1>2. Calls' /\ Exclusive'
        /\ (registered # NoStream =>
               \E q \in Pushers : push'[q].at = "lock" /\ push'[q].on = registered)
    BY PusherNames, CallStarts DEF Base, Sessions
  <1>3. Current'
    BY <1>2 DEF Current, CurrentOn, Owed
  <1>4. Delivered'
    BY DEF Delivered, DeliveredTo
  <1> QED
    BY <1>1, <1>2, <1>3, <1>4

\* A session that opens has its own read coming.
LEMMA RegisterInv == ASSUME Inv, NEW s \in Streams, Register(s) PROVE Inv'
  <1> USE DEF Inv, Register, dbVars, listenVars, agentVars
  <1>1. Base' /\ Held' /\ Sessions'
    BY DEF Base, Held, Sessions
  <1>2. Calls' /\ Exclusive'
        /\ (s # NoStream => \E q \in Pushers : push'[q].at = "lock" /\ push'[q].on = s)
    <2>1. <<"opening", s>> \in Pushers
      BY PusherNames
    <2>2. stage'[s] = "open"
          /\ \A t \in Streams : stage[t] \in {"open", "gone"} => stage'[t] = stage[t]
      BY DEF Base
    <2> QED
      BY <2>1, <2>2, CallStarts
  <1>3. Current'
    BY <1>2, StreamNames DEF Current, CurrentOn, Owed
  <1>4. Delivered'
    BY DEF Delivered, DeliveredTo
  <1> QED
    BY <1>1, <1>2, <1>3, <1>4

-----------------------------------------------------------------------------
(* The calls.                                                              *)

\* A call that takes the lock is the only one to have read.
LEMMA ReadReplicasInv == ASSUME Inv, NEW p \in Pushers, ReadReplicas(p) PROVE Inv'
  <1> USE DEF Inv, ReadReplicas, dbVars, listenVars, agentVars
  <1>1. push[p] \in Locking /\ push[p].on \in Streams
    BY CallKinds DEF Calls
  <1> DEFINE s == push[p].on
             c == [at |-> "volumes", force |-> push[p].force, on |-> s, rows |-> rows]
  <1>2. c \in Comparing /\ c.at = "volumes" /\ c.on = s /\ c.rows = rows /\ c # Idle
    BY <1>1 DEF Comparing, Locking, Base, Idle
  <1>3. push' = [push EXCEPT ![p] = c] /\ pushMu' = [pushMu EXCEPT ![s] = p] /\ pushMu[s] = Nobody
    BY Zenon
  <1> HIDE DEF c
  <1>4. push'[p] = c /\ (\A q \in Pushers \ {p} : push'[q] = push[q])
        /\ push' \in [Pushers -> {Idle} \cup Locking \cup Comparing]
    BY <1>2, <1>3 DEF Calls
  <1>5. \A q \in Pushers : Reading(q, s)' => q = p
    <2>1. \A q \in Pushers : ~Reading(q, s)
      BY <1>1, <1>3, PusherNames DEF Exclusive
    <2> QED
      BY <1>4, <2>1 DEF Reading
  <1>6. Base' /\ Held' /\ Sessions'
    BY <1>3 DEF Base, Held, Sessions
  <1>7. Calls'
    BY <1>1, <1>2, <1>4, CallKinds DEF Calls
  <1>8. Exclusive'
    BY <1>1, <1>2, <1>3, <1>4, <1>5 DEF Exclusive, Reading, Held
  <1>9. Current'
    <2> SUFFICES ASSUME registered # NoStream PROVE CurrentOn(registered)'
      BY DEF Current
    <2>1. CASE registered = s
      <3>1. Reading(p, s)' /\ \A q \in Pushers : Reading(q, s)' => push'[q].rows = rows'
        BY <1>2, <1>4, <1>5 DEF Reading
      <3> QED
        BY <2>1, <3>1 DEF CurrentOn, Reading
    <2>2. CASE registered # s
      <3>1. \A q \in Pushers : Reading(q, registered) <=> Reading(q, registered)'
        BY <1>1, <1>2, <1>4, <2>2, CallKinds DEF Reading
      <3>2. \A q \in Pushers : Reading(q, registered) => push'[q].rows = push[q].rows
        BY <1>1, <1>4, CallKinds DEF Reading
      <3>3. Owed(registered) => Owed(registered)'
        BY <1>4, <2>2 DEF Owed
      <3> QED
        BY <3>1, <3>2, <3>3 DEF Current, CurrentOn, Reading, Wanted
    <2> QED
      BY <2>1, <2>2
  <1>10. Delivered'
    BY DEF Delivered, DeliveredTo
  <1> QED
    BY <1>6, <1>7, <1>8, <1>9, <1>10

\* What a call leaves behind as it ends.
LEMMA CallEnds ==
    ASSUME Inv, NEW p \in Pushers, NEW s \in Streams, Reading(p, s), Unlock(s),
           push' = [push EXCEPT ![p] = Idle],
           UNCHANGED <<listening, listens, notes, stage>>
    PROVE  /\ Calls' /\ Exclusive' /\ \A q \in Pushers : ~Reading(q, s)'
           /\ \A t \in Streams \ {s} : \A q \in Pushers :
                  /\ Reading(q, t)' <=> Reading(q, t)
                  /\ Reading(q, t) => push'[q].rows = push[q].rows
           /\ \A t \in Streams : Owed(t) => Owed(t)'
  <1> USE DEF Inv, Unlock
  <1>1. push'[p] = Idle /\ (\A q \in Pushers \ {p} : push'[q] = push[q])
        /\ push' \in [Pushers -> {Idle} \cup Locking \cup Comparing]
    BY DEF Calls
  <1>2. Calls'
    BY <1>1 DEF Calls
  <1>3. \A q \in Pushers : ~Reading(q, s)'
    BY <1>1, CallKinds, PusherNames DEF Exclusive, Reading
  <1>4. \A t \in Streams \ {s} : \A q \in Pushers :
            /\ Reading(q, t)' <=> Reading(q, t)
            /\ Reading(q, t) => push'[q].rows = push[q].rows
    BY <1>1, CallKinds DEF Reading
  <1>5. Exclusive'
    <2> SUFFICES ASSUME NEW q \in Pushers, NEW t \in Streams, Reading(q, t)' PROVE pushMu'[t] = q
      BY DEF Exclusive
    <2>1. t # s /\ Reading(q, t)
      BY <1>3, <1>4
    <2> QED
      BY <2>1 DEF Exclusive, Held
  <1>6. ASSUME NEW t \in Streams, Owed(t) PROVE Owed(t)'
    <2>1. CASE ~listening \/ notes > 0
      BY <2>1 DEF Owed
    <2>2. CASE \E q \in Pushers : push[q].at = "lock" /\ push[q].on = t
      <3>1. PICK q \in Pushers : push[q].at = "lock" /\ push[q].on = t
        BY <2>2
      <3>2. push'[q] = push[q]
        BY <1>1, <3>1 DEF Reading
      <3> QED
        BY <3>1, <3>2 DEF Owed
    <2> QED
      BY <1>6, <2>1, <2>2 DEF Owed
  <1> QED
    BY <1>2, <1>3, <1>4, <1>5, <1>6

\* A call that is past its lock.
LEMMA ReadingCall ==
    ASSUME Inv, NEW p \in Pushers, push[p].at = "volumes"
    PROVE  /\ push[p].on \in Streams /\ Reading(p, push[p].on)
           /\ push[p].rows \in RowStates /\ stage[push[p].on] \in {"open", "gone"}
  <1>1. push[p] \in Comparing /\ push[p] # Idle
    BY CallKinds DEF Inv, Calls
  <1> QED
    BY <1>1 DEF Inv, Calls, Comparing, Reading

\* What is pushed is what is wanted, or else a change is still announced; the
\* mailbox and the digest change together.
LEMMA PushStateInv == ASSUME Inv, NEW p \in Pushers, PushState(p) PROVE Inv'
  <1>0. PICK s \in Streams : s = push[p].on
    BY ReadingCall DEF PushState
  <1> DEFINE state == [rows |-> push[p].rows, size |-> size]
             same == UNCHANGED <<lastHash, mailbox>>
             pushed == /\ lastHash' = [lastHash EXCEPT ![s] = <<state>>]
                       /\ mailbox' = [mailbox EXCEPT ![s] = <<state>>]
  <1>1. s \in Streams /\ Reading(p, s) /\ state \in State /\ stage[s] \in {"open", "gone"}
    BY <1>0, ReadingCall DEF PushState, Inv, Base, RowStates, State
  <1>2. /\ push' = [push EXCEPT ![p] = Idle] /\ Unlock(s) /\ unread' = unread \ {s}
        /\ UNCHANGED <<rows, size, writes, listening, listens, notes, registered, stage, wire,
                       conn, containers, disk>>
    BY <1>0 DEF PushState, dbVars, listenVars, agentVars
  <1>3. \/ same /\ (stage[s] = "gone" \/ lastHash[s] = <<state>>)
        \/ pushed
    BY <1>0, Zenon DEF PushState
  <1>4. /\ Calls' /\ Exclusive' /\ \A q \in Pushers : ~Reading(q, s)'
        /\ \A t \in Streams \ {s} : \A q \in Pushers :
               /\ Reading(q, t)' <=> Reading(q, t)
               /\ Reading(q, t) => push'[q].rows = push[q].rows
        /\ \A t \in Streams : Owed(t) => Owed(t)'
    BY <1>1, <1>2, CallEnds
  <1>5. <<state>> \in Slot /\ <<state>> # <<>>
    BY <1>1 DEF Slot
  <1>6. \/ same /\ (stage[s] = "gone" \/ lastHash'[s] = <<state>>)
        \/ lastHash'[s] = <<state>> /\ mailbox'[s] = <<state>>
    BY <1>1, <1>3 DEF Inv, Held
  <1>7. \A t \in Streams \ {s} : lastHash'[t] = lastHash[t] /\ mailbox'[t] = mailbox[t]
    BY <1>1, <1>3 DEF Inv, Held
  <1>8. lastHash' \in [Streams -> Slot] /\ mailbox' \in [Streams -> Slot]
    BY <1>1, <1>3, <1>5 DEF Inv, Held
  <1>9. Base' /\ Held'
    BY <1>1, <1>2, <1>8 DEF Inv, Base, Held, Unlock
  <1>10. Sessions'
    BY <1>1, <1>2, <1>7, Zenon DEF Inv, Sessions
  <1>11. Current'
    <2> SUFFICES ASSUME registered # NoStream PROVE CurrentOn(registered)'
      BY <1>2 DEF Current
    <2>1. registered \in Streams /\ stage[registered] = "open" /\ CurrentOn(registered)
      BY DEF Inv, Base, Current, Sessions
    <2>2. CASE Owed(registered)
      BY <1>2, <1>4, <2>1, <2>2 DEF CurrentOn
    <2>3. CASE ~Owed(registered) /\ registered = s
      <3>1. push[p].rows = rows
        BY <1>1, <2>1, <2>3 DEF CurrentOn
      <3>2. lastHash'[s] = <<state>>
        BY <1>6, <2>1, <2>3
      <3>3. lastHash'[s] = <<Wanted>>'
        BY <1>2, <3>1, <3>2 DEF Wanted
      <3> QED
        BY <1>2, <1>4, <2>3, <3>3 DEF CurrentOn
    <2>4. CASE ~Owed(registered) /\ registered # s
      BY <1>2, <1>4, <1>7, <2>1, <2>4 DEF CurrentOn, Wanted
    <2> QED
      BY <2>2, <2>3, <2>4
  <1>12. Delivered'
    <2> SUFFICES ASSUME conn # NoStream PROVE DeliveredTo(conn)'
      BY <1>2 DEF Delivered
    <2>1. DeliveredTo(conn) /\ conn \in Streams
      BY DEF Inv, Delivered, Base
    <2>2. CASE conn = s /\ ~same
      BY <1>2, <1>5, <1>6, <2>2 DEF DeliveredTo
    <2>3. CASE same \/ conn # s
      BY <1>2, <1>7, <2>1, <2>3 DEF DeliveredTo
    <2> QED
      BY <2>2, <2>3
  <1> QED
    BY <1>4, <1>9, <1>10, <1>11, <1>12 DEF Inv

\* A read that fails leaves the session a state short.
LEMMA ReadFailsInv == ASSUME Inv, NEW p \in Pushers, ReadFails(p) PROVE Inv'
  <1>0. PICK s \in Streams : s = push[p].on
    BY ReadingCall DEF ReadFails
  <1>1. s \in Streams /\ Reading(p, s)
    BY <1>0, ReadingCall DEF ReadFails
  <1>2. /\ push' = [push EXCEPT ![p] = Idle] /\ Unlock(s)
        /\ unread' = unread \cup ({s} \ {t \in Streams : stage[t] = "gone"})
        /\ UNCHANGED <<rows, size, writes, listening, listens, notes, registered, stage,
                       lastHash, mailbox, wire, conn, containers, disk>>
    BY <1>0 DEF ReadFails, dbVars, listenVars, agentVars
  <1>3. /\ Calls' /\ Exclusive' /\ \A q \in Pushers : ~Reading(q, s)'
        /\ \A t \in Streams \ {s} : \A q \in Pushers :
               /\ Reading(q, t)' <=> Reading(q, t)
               /\ Reading(q, t) => push'[q].rows = push[q].rows
        /\ \A t \in Streams : Owed(t) => Owed(t)'
    BY <1>1, <1>2, CallEnds
  <1>4. Base' /\ Held' /\ Sessions'
    BY <1>1, <1>2 DEF Inv, Base, Held, Unlock, Sessions
  <1>5. Current'
    <2> SUFFICES ASSUME registered # NoStream PROVE CurrentOn(registered)'
      BY <1>2 DEF Current
    <2>1. registered \in Streams /\ stage[registered] = "open" /\ CurrentOn(registered)
      BY DEF Inv, Base, Current, Sessions
    <2>2. CASE Owed(registered)
      BY <1>2, <1>3, <2>1, <2>2 DEF CurrentOn
    <2>3. CASE registered = s
      BY <1>2, <1>3, <2>1, <2>3 DEF CurrentOn
    <2>4. CASE ~Owed(registered) /\ registered # s
      BY <1>2, <1>3, <2>1, <2>4 DEF CurrentOn, Wanted
    <2> QED
      BY <2>2, <2>3, <2>4
  <1>6. Delivered'
    BY <1>2 DEF Inv, Delivered, DeliveredTo
  <1> QED
    BY <1>3, <1>4, <1>5, <1>6 DEF Inv

-----------------------------------------------------------------------------
(* Streams and the agent.                                                  *)

\* A new stream carries nothing yet.
LEMMA ConnectInv == ASSUME Inv, Connect PROVE Inv'
  <1> USE DEF Inv, dbVars, listenVars
  <1>1. PICK s \in Streams : /\ stage[s] = "unborn" /\ conn' = s
                             /\ stage' = [stage EXCEPT ![s] = "hello"]
    BY DEF Connect
  <1>2. /\ conn = NoStream
        /\ UNCHANGED <<rows, size, listening, listens, notes, registered, lastHash, mailbox,
                       pushMu, unread, push, wire, containers, disk>>
    BY DEF Connect
  <1>3. Base' /\ Held'
    BY <1>1, <1>2 DEF Base, Held
  <1>4. Calls'
    <2> SUFFICES ASSUME NEW p \in Pushers, push[p] # Idle
                 PROVE  stage'[push[p].on] \in {"open", "gone"}
      BY <1>2 DEF Calls
    <2>1. push[p].on \in Streams /\ stage[push[p].on] \in {"open", "gone"}
      BY CallKinds DEF Calls
    <2> QED
      BY <1>1, <2>1 DEF Base
  <1>5. Exclusive'
    BY <1>2 DEF Exclusive, Reading
  <1>6. Sessions'
    BY <1>1, <1>2 DEF Sessions, Base
  <1>7. Current'
    BY <1>2 DEF Current, CurrentOn, Owed, Reading, Wanted
  <1>8. Delivered'
    BY <1>1, <1>2 DEF Delivered, DeliveredTo, Sessions, NoDigest
  <1> QED
    BY <1>3, <1>4, <1>5, <1>6, <1>7, <1>8

\* What leaves the mailbox of the agent's stream is the newest on its wire.
LEMMA SendInv == ASSUME Inv, NEW s \in Streams, Send(s) PROVE Inv'
  <1> USE DEF Inv, Send, dbVars, listenVars, agentVars
  <1>1. PICK st \in State : mailbox[s] = <<st>>
    BY DEF Held, Slot
  <1>2. conn = s => /\ wire' = wire \o <<st>> /\ wire' \in Seq(State)
                    /\ Len(wire') = Len(wire) + 1 /\ wire' # <<>> /\ wire'[Len(wire')] = st
    BY <1>1, SentLast DEF Held
  <1>3. Base' /\ Held'
    <2>1. Len(wire') <= WireDepth
      BY <1>2, LenProperties, DownlinkAssumption DEF Base, Held
    <2>2. wire' \in Seq(State)
      BY <1>2 DEF Held
    <2>3. mailbox' \in [Streams -> Slot]
      BY DEF Held, Slot
    <2> QED
      BY <2>1, <2>2, <2>3 DEF Base, Held
  <1>4. Calls' /\ Exclusive' /\ Current'
    BY DEF Calls, Exclusive, Reading, Current, CurrentOn, Owed, Wanted
  <1>5. Sessions'
    BY StreamNames DEF Sessions, Held
  <1>6. Delivered'
    <2>1. CASE conn = s
      <3>1. lastHash[s] = <<st>>
        BY <1>1, <2>1, StreamNames DEF Delivered, DeliveredTo
      <3>2. mailbox'[s] = <<>>
        BY DEF Held
      <3> QED
        BY <1>2, <2>1, <3>1, <3>2 DEF Delivered, DeliveredTo
    <2>2. CASE conn # s
      BY <2>2 DEF Delivered, DeliveredTo, Held, Base
    <2> QED
      BY <2>1, <2>2
  <1> QED
    BY <1>3, <1>4, <1>5, <1>6

\* A session that ends is neither the agent's nor, any more, the registered one.
LEMMA EndSessionInv == ASSUME Inv, NEW s \in Streams, EndSession(s) PROVE Inv'
  <1> USE DEF Inv, EndSession, dbVars, listenVars, agentVars
  <1>1. registered' \in {registered, NoStream} /\ registered' # s /\ conn # s
    BY StreamNames DEF unregister, Sessions
  <1>2. Base' /\ Held'
    BY <1>1 DEF Base, Held, Slot, NoDigest
  <1>3. Calls'
    <2> SUFFICES ASSUME NEW p \in Pushers, push[p] # Idle
                 PROVE  stage'[push[p].on] \in {"open", "gone"}
      BY DEF Calls
    <2>1. push[p].on \in Streams /\ stage[push[p].on] \in {"open", "gone"}
      BY CallKinds DEF Calls
    <2> QED
      BY <2>1 DEF Base
  <1>4. Exclusive'
    BY DEF Exclusive, Reading
  <1>5. Sessions'
    BY <1>1 DEF Sessions, Base, Held
  <1>6. Current'
    <2> SUFFICES ASSUME registered' # NoStream PROVE CurrentOn(registered)'
      BY DEF Current
    <2>1. registered' = registered /\ registered \in Streams /\ CurrentOn(registered)
          /\ lastHash'[registered] = lastHash[registered]
      BY <1>1 DEF Current, Base, Held
    <2> QED
      BY <1>1, <2>1 DEF CurrentOn, Owed, Reading, Wanted
  <1>7. Delivered'
    BY <1>1 DEF Delivered, DeliveredTo, Base, Held
  <1> QED
    BY <1>2, <1>3, <1>4, <1>5, <1>6, <1>7

LEMMA ApplyStateInv == ASSUME Inv, ApplyState PROVE Inv'
  <1> USE DEF Inv, ApplyState, dbVars, listenVars, sessionVars
  <1>1. /\ Head(wire) \in State /\ Tail(wire) \in Seq(State) /\ Len(Tail(wire)) = Len(wire) - 1
        /\ Tail(wire) = <<>> => wire[Len(wire)] = Head(wire)
        /\ Tail(wire) # <<>> => Tail(wire)[Len(Tail(wire))] = wire[Len(wire)]
    BY TailLast DEF Held
  <1>2. Base' /\ Held'
    <2>1. containers' \subseteq Replicas /\ disk' \in 0 .. MaxSize
      BY <1>1 DEF Runs, State
    <2>2. Len(wire') <= WireDepth
      BY <1>1, LenProperties, DownlinkAssumption DEF Base, Held
    <2> QED
      BY <1>1, <2>1, <2>2 DEF Base, Held
  <1>3. Calls' /\ Exclusive' /\ Current'
    BY DEF Calls, Exclusive, Reading, Current, CurrentOn, Owed, Wanted
  <1>4. Sessions'
    BY DEF Sessions
  <1>5. Delivered'
    <2> SUFFICES ASSUME conn # NoStream PROVE DeliveredTo(conn)'
      BY DEF Delivered
    <2>1. DeliveredTo(conn)
      BY DEF Delivered
    <2>2. CASE mailbox[conn] # <<>>
      BY <2>1, <2>2 DEF DeliveredTo
    <2>3. CASE mailbox[conn] = <<>> /\ wire' # <<>>
      BY <1>1, <2>1, <2>3 DEF DeliveredTo
    <2>4. CASE mailbox[conn] = <<>> /\ wire' = <<>>
      <3>1. lastHash[conn] = <<Head(wire)>>
        BY <1>1, <2>1, <2>4 DEF DeliveredTo
      <3>2. \A st \in State : lastHash[conn] = <<st>> => st = Head(wire)
        BY <3>1
      <3> QED
        BY <2>4, <3>2 DEF DeliveredTo, Runs
    <2> QED
      BY <2>2, <2>3, <2>4
  <1> QED
    BY <1>2, <1>3, <1>4, <1>5

\* A broken stream, a broken LISTEN and a restart leave nothing to be right
\* about: no stream of the agent's, or no promise that is kept without a LISTEN.
LEMMA FailuresInv ==
    ASSUME Inv, ListenDrops \/ ServerRestarts \/ \E keep \in BOOLEAN : HangUp(keep) PROVE Inv'
  <1> USE DEF Inv, Fault
  <1>1. CASE ListenDrops
    <2> USE <1>1 DEF ListenDrops, dbVars, sessionVars, agentVars
    <2>1. Base' /\ Held' /\ Calls' /\ Exclusive' /\ Sessions'
      BY DEF Base, Held, Calls, Exclusive, Reading, Sessions
    <2>2. Current' /\ Delivered'
      BY DEF Current, CurrentOn, Owed, Delivered, DeliveredTo
    <2> QED
      BY <2>1, <2>2
  <1>2. CASE ServerRestarts
    <2> USE <1>2 DEF ServerRestarts, dbVars
    <2>1. Base'
      <3>1. Len(wire') <= WireDepth
        BY DownlinkAssumption
      <3>2. stage' \in [Streams -> {"unborn", "hello", "open", "gone"}]
        OBVIOUS
      <3> QED
        BY <3>1, <3>2 DEF Base
    <2>2. Held'
      BY DEF Held, Slot, NoDigest
    <2>3. Calls' /\ Exclusive'
      BY CallKinds DEF Calls, Exclusive, Reading
    <2>4. Sessions'
      BY DEF Sessions
    <2>5. Current' /\ Delivered'
      BY DEF Current, Delivered
    <2> QED
      BY <2>1, <2>2, <2>3, <2>4, <2>5
  <1>3. ASSUME NEW keep \in BOOLEAN, HangUp(keep) PROVE Inv'
    <2> USE <1>3 DEF HangUp, dbVars, listenVars, sessionVars
    <2>1. Base'
      <3>1. Len(wire') <= WireDepth
        BY DownlinkAssumption
      <3>2. containers' \subseteq Replicas /\ disk' \in 0 .. MaxSize
        BY DownlinkAssumption DEF Base
      <3> QED
        BY <3>1, <3>2 DEF Base
    <2>2. Held' /\ Calls' /\ Exclusive' /\ Sessions'
      BY DEF Held, Calls, Exclusive, Reading, Sessions
    <2>3. Current' /\ Delivered'
      BY DEF Current, CurrentOn, Owed, Reading, Wanted, Delivered
    <2> QED
      BY <2>1, <2>2, <2>3
  <1> QED
    BY <1>1, <1>2, <1>3

LEMMA WritersInv ==
    ASSUME Inv, Writers \/ \E r \in Replicas : Report(r) PROVE Inv'
  <1>1. rows' \in RowStates /\ size' \in 0 .. MaxSize /\ Notify
        /\ UNCHANGED <<listening, listens, sessionVars, push, wire, agentVars>>
    BY DEF Writers, WriteReplica, WriteVolume, Report, Inv, Base, RowStates, Phases
  <1> QED
    BY <1>1, RowsChange

LEMMA InvStep == Inv /\ [Next]_vars => Inv'
  <1> SUFFICES ASSUME Inv, [Next]_vars PROVE Inv'
    OBVIOUS
  <1>1. CASE Server
    BY <1>1, ListenInv, OnChangeInv, ResyncInv, ReadReplicasInv, PushStateInv, RegisterInv,
       SendInv, EndSessionInv DEF Server
  <1>2. CASE Agent
    BY <1>2, ConnectInv, ApplyStateInv, WritersInv DEF Agent
  <1>3. CASE Failures
    BY <1>3, FailuresInv, ReadFailsInv DEF Failures
  <1>4. CASE Writers
    BY <1>4, WritersInv
  <1>5. CASE UNCHANGED vars
    BY <1>5 DEF vars, Inv, Base, Held, Calls, Exclusive, Reading, Sessions, Current, CurrentOn,
                Owed, Wanted, Delivered, DeliveredTo
  <1> QED
    BY <1>1, <1>2, <1>3, <1>4, <1>5 DEF Next

-----------------------------------------------------------------------------
\* Every variable keeps its type; the mailbox and the digest hold one state at
\* most (agentSession.push).
THEOREM DownlinkTyped == Spec => []TypeOK
  <1>1. Inv => TypeOK
    BY TypeFromParts DEF Inv
  <1> QED
    BY InvInit, InvStep, <1>1, PTL DEF Spec

\* The fast path alone keeps the agent in step: once nothing is in flight and
\* no read of its session has failed, it runs the newest state, whatever calls
\* of pushState overtook each other, and also when the Hello of a stream that
\* the agent gave up arrives late.
THEOREM FastPathSuffices == Spec => []SettledInSync
  <1>1. Inv => SettledInSync
    <2> SUFFICES ASSUME Inv, Quiet, registered = conn, conn \notin unread PROVE InSync
      BY DEF SettledInSync
    <2>1. conn \in Streams /\ ~Owed(conn) /\ \A p \in Pushers : ~Reading(p, conn)
      BY CallKinds DEF Inv, Base, Quiet, Owed, Reading
    <2>2. lastHash[conn] = <<Wanted>>
      BY <2>1, StreamNames DEF Inv, Current, CurrentOn
    <2>3. Wanted \in State
      BY DEF Inv, Base, Wanted, RowStates, State
    <2>4. containers = Runs(Wanted) /\ disk = Wanted.size
      BY <2>1, <2>2, <2>3, StreamNames DEF Inv, Quiet, Delivered, DeliveredTo
    <2> QED
      BY <2>4 DEF InSync, Runs, Wanted, Inv, Base, RowStates, Phases
  <1> QED
    BY InvInit, InvStep, <1>1, PTL DEF Spec

\* The end of an older stream never evicts the session of the stream the agent
\* is on (unregister).  Only a Hello may take the place of another, so the
\* theorem is about agents whose abandoned Hellos do not arrive.
THEOREM LiveStreamIsKept == ~LateHello => (Spec => LiveStreamStays)
  <1> SUFFICES ASSUME ~LateHello PROVE Spec => LiveStreamStays
    OBVIOUS
  <1>1. ASSUME [Next]_vars, conn # NoStream, registered = conn
        PROVE  registered' = conn \/ conn' # conn
    <2>1. CASE Server
      <3>1. ASSUME NEW s \in Streams, Register(s) \/ EndSession(s) PROVE registered' = conn
        BY <1>1, <3>1 DEF Register, EndSession, unregister
      <3>2. ASSUME NEW s \in Streams, Send(s) PROVE registered' = conn
        BY <1>1, <3>2 DEF Send
      <3>3. ASSUME NEW p \in Pushers, ReadReplicas(p) \/ PushState(p) PROVE registered' = conn
        BY <1>1, <3>3 DEF ReadReplicas, PushState
      <3> QED
        BY <1>1, <2>1, <3>1, <3>2, <3>3 DEF Server, Listen, OnChange, Resync, sessionVars
    <2>2. CASE Agent
      BY <1>1, <2>2 DEF Agent, Connect, ApplyState, Report, sessionVars
    <2>3. CASE Failures
      BY <1>1, <2>3 DEF Failures, ListenDrops, ServerRestarts, HangUp, ReadFails, sessionVars
    <2>4. CASE Writers \/ UNCHANGED vars
      BY <1>1, <2>4 DEF Writers, WriteReplica, WriteVolume, vars, sessionVars
    <2> QED
      BY <1>1, <2>1, <2>2, <2>3, <2>4 DEF Next
  <1>2. [Next]_vars =>
            [conn # NoStream /\ registered = conn => registered' = conn \/ conn' # conn]_vars
    BY <1>1
  <1> QED
    BY <1>2, PTL DEF Spec, LiveStreamStays

=============================================================================
