---------------------------- MODULE LogRingProofs -----------------------------
(***************************************************************************)
(* The log stream for every capacity, subscriber buffer, replay depth,     *)
(* number of lines, breaks and restarts, and any set of readers.           *)
(*                                                                         *)
(* First the circular buffer: it holds the last lines, oldest first.  What *)
(* is inductive is the tail with the range of the indices; the modulus is  *)
(* resolved once, by Wrap.  Then the streams: what a handler still has to  *)
(* write is a run of consecutive ids across the seam of backlog and        *)
(* channel (Carries), and the run starts right after the line its reader   *)
(* has, or after lines the ring no longer holds (Resumes).                 *)
(***************************************************************************)
EXTENDS LogRing, FiniteSetTheorems, TLAPS

\* The ring's indices stay in range (Ring in internal/logbuf/ring.go).
RingType ==
    /\ lines \in [0 .. Capacity - 1 -> Nat]
    /\ start \in 0 .. Capacity - 1 /\ count \in 0 .. Capacity
    /\ nextID \in Nat

RingInv == RingType /\ RingIsTail

Turn(a) == IF a < Capacity THEN a ELSE a - Capacity

\* The ring's modulus: an index less than two turns of the ring is brought into
\* it by at most one subtraction.
LEMMA Wrap == \A a \in 0 .. 2 * Capacity - 1 : a % Capacity = Turn(a)
  BY LogRingAssumption DEF Turn

\* The ring starts empty.
LEMMA RingInit == Init => RingInv
  BY LogRingAssumption DEF Init, RingInv, RingType, RingIsTail

\* append keeps the tail, whether the ring has wrapped around or not.
LEMMA RingWrite == ASSUME RingInv, WriteLine PROVE RingInv'
  <1> USE LogRingAssumption DEF RingInv, RingType
  <1>1. Slot \in 0 .. Capacity - 1
    BY DEF Slot
  <1>2. CASE count < Capacity
    <2>1. /\ start' = start /\ count' = count + 1 /\ nextID' = nextID + 1
          /\ lines' = [lines EXCEPT ![Slot] = nextID]
      BY <1>2 DEF WriteLine
    <2>2. RingType'
      BY <1>1, <1>2, <2>1
    <2>3. ASSUME NEW i \in 0 .. count' - 1
          PROVE  At(i)' = nextID' - count' + i
      <3>1. CASE i = count
        BY <1>1, <2>1, <3>1 DEF At, Slot
      <3>2. CASE i < count
        <4>1. (start + i) % Capacity # Slot /\ (start + i) % Capacity \in 0 .. Capacity - 1
          <5>1. start + i \in 0 .. 2 * Capacity - 1 /\ start + count \in 0 .. 2 * Capacity - 1
            BY <1>2, <3>2
          <5>2. (start + i) % Capacity = Turn(start + i) /\ Slot = Turn(start + count)
            BY <5>1, Wrap DEF Slot
          <5>3. Turn(start + i) # Turn(start + count) /\ Turn(start + i) \in 0 .. Capacity - 1
            BY <1>2, <3>2 DEF Turn
          <5> QED
            BY <5>2, <5>3
        <4>2. At(i)' = At(i)
          BY <2>1, <4>1 DEF At
        <4> QED
          BY <2>1, <3>2, <4>2 DEF RingIsTail
      <3> QED
        BY <2>1, <2>3, <3>1, <3>2
    <2> QED
      BY <2>2, <2>3 DEF RingIsTail
  <1>3. CASE count = Capacity
    <2>1. /\ start' = (start + 1) % Capacity /\ count' = count /\ nextID' = nextID + 1
          /\ lines' = [lines EXCEPT ![Slot] = nextID]
      BY <1>3 DEF WriteLine
    <2>2. Slot = start /\ start' = IF start + 1 < Capacity THEN start + 1 ELSE 0
      <3>1. start + count \in 0 .. 2 * Capacity - 1 /\ start + 1 \in 0 .. 2 * Capacity - 1
        BY <1>3
      <3>2. Slot = Turn(start + count) /\ start' = Turn(start + 1)
        BY <2>1, <3>1, Wrap DEF Slot
      <3> QED
        BY <1>3, <3>2 DEF Turn
    <2>3. RingType'
      BY <1>1, <1>3, <2>1, <2>2
    <2>4. ASSUME NEW i \in 0 .. count' - 1
          PROVE  At(i)' = nextID' - count' + i
      <3>1. CASE i = count - 1
        <4>1. (start' + i) % Capacity = start
          <5>1. start' + i \in 0 .. 2 * Capacity - 1
            BY <1>3, <2>2, <3>1
          <5>2. (start' + i) % Capacity = Turn(start' + i)
            BY <5>1, Wrap
          <5> QED
            BY <1>3, <2>2, <3>1, <5>2 DEF Turn
        <4> QED
          BY <1>3, <2>1, <2>2, <3>1, <4>1 DEF At
      <3>2. CASE i < count - 1
        <4>1. /\ (start' + i) % Capacity = (start + (i + 1)) % Capacity
              /\ (start' + i) % Capacity \in 0 .. Capacity - 1
              /\ (start' + i) % Capacity # start
          <5>1. start' + i \in 0 .. 2 * Capacity - 1 /\ start + (i + 1) \in 0 .. 2 * Capacity - 1
            BY <1>3, <2>2, <3>2
          <5>2. /\ (start' + i) % Capacity = Turn(start' + i)
                /\ (start + (i + 1)) % Capacity = Turn(start + (i + 1))
            BY <5>1, Wrap
          <5>3. /\ Turn(start' + i) = Turn(start + (i + 1))
                /\ Turn(start' + i) \in 0 .. Capacity - 1
                /\ Turn(start' + i) # start
            BY <1>3, <2>1, <2>2, <3>2 DEF Turn
          <5> QED
            BY <5>2, <5>3
        <4>2. At(i)' = At(i + 1)
          BY <2>1, <2>2, <4>1 DEF At
        <4> QED
          BY <1>3, <2>1, <3>2, <4>2 DEF RingIsTail
      <3> QED
        BY <2>1, <2>4, <3>1, <3>2
    <2> QED
      BY <2>3, <2>4 DEF RingIsTail
  <1> QED
    BY <1>2, <1>3

\* Nothing but append and a restart touches the ring.
LEMMA RingStep == ASSUME RingInv, [Next]_vars PROVE RingInv'
  <1>1. CASE WriteLine
    BY <1>1, RingWrite
  <1>2. CASE RestartEngine
    BY <1>2, LogRingAssumption DEF RestartEngine, RingInv, RingType, RingIsTail
  <1>3. CASE UNCHANGED ring
    BY <1>3 DEF ring, RingInv, RingType, RingIsTail, At
  <1>4. ASSUME NEW r \in Readers, Stream(r) \/ BreakConnection(r)
        PROVE  UNCHANGED ring
    BY <1>4 DEF Stream, BreakConnection, Subscribe, WriteBacklog, WriteLive, EndStream, Receive
  <1> QED
    BY <1>1, <1>2, <1>3, <1>4 DEF Next, vars

\* The ring holds exactly the last lines written, oldest first, for every
\* capacity and however often it has wrapped around.
THEOREM RingHoldsTail == Spec => []RingIsTail
  <1>1. RingInv => RingIsTail
    BY DEF RingInv
  <1> QED
    BY RingInit, RingStep, <1>1, PTL DEF Spec

-----------------------------------------------------------------------------
(* The streams.                                                            *)

Handlers == [on : {TRUE}, live : BOOLEAN, backlog : Seq(Nat), ch : Seq(Nat)]

Typed ==
    /\ handler \in [Readers -> Handlers \cup {Off}]
    /\ received \in [Readers -> Nat]
    /\ issuer \in [Readers -> Nat]
    /\ restarts \in Nat

\* The consecutive ids from a on.
Run(s, a) == s \in Seq(Nat) /\ \A i \in 1 .. Len(s) : s[i] = a + i - 1

\* What handler h has left to write starts at line n and goes on across the
\* seam; it reaches to the newest line while h is subscribed.
Carries(h, n) ==
    /\ Run(h.backlog, n) /\ Run(h.ch, n + Len(h.backlog))
    /\ n + Len(h.backlog) + Len(h.ch) <= nextID
    /\ h.live => n + Len(h.backlog) + Len(h.ch) = nextID

\* Line n may follow the one reader r has, if r has one of this process.
Resumes(r, n) ==
    received[r] # 0 /\ issuer[r] = restarts =>
        \/ n = received[r] + 1
        \/ n > received[r] + 1 /\ received[r] + 1 < nextID - count

\* A line a reader has of this process was written by it.
Issued ==
    \A r \in Readers :
        issuer[r] <= restarts /\ (issuer[r] = restarts => received[r] < nextID)

Flows == \A r \in Connected : \E n \in Nat : Carries(handler[r], n) /\ Resumes(r, n)

\* Fewer lines are held than ids were handed out, the first id being 1.
Numbered == RingInv /\ count < nextID

Inv == Numbered /\ Typed /\ Issued /\ Flows

\* A reader's slot is empty or holds a handler, never both.
LEMMA HandlerIsOn == Off \notin Handlers
  BY DEF Off, Handlers

\* A run goes on with the next id.
LEMMA RunAppend ==
  ASSUME NEW a \in Nat, NEW s, Run(s, a)
  PROVE  Run(Append(s, a + Len(s)), a) /\ Len(Append(s, a + Len(s))) = Len(s) + 1
  BY DEF Run

\* What is left of a run when its first id has been written.
LEMMA RunTail ==
  ASSUME NEW a \in Nat, NEW s, Run(s, a), s # <<>>
  PROVE  /\ Head(s) = a
         /\ Run(Tail(s), a + 1)
         /\ Len(s) \in Nat \ {0} /\ Len(Tail(s)) = Len(s) - 1
  BY DEF Run

\* Two runs make one when the second starts where the first ends.
LEMMA RunJoin ==
  ASSUME NEW n \in Nat, NEW b, NEW c, Run(b, n), Run(c, n + Len(b))
  PROVE  Run(b \o c, n) /\ Len(b \o c) = Len(b) + Len(c)
  <1>1. b \in Seq(Nat) /\ c \in Seq(Nat)
    BY DEF Run
  <1>2. b \o c \in Seq(Nat) /\ Len(b \o c) = Len(b) + Len(c)
    BY <1>1
  <1>3. ASSUME NEW i \in 1 .. Len(b \o c)
        PROVE  (b \o c)[i] = n + i - 1
    <2>1. CASE i <= Len(b)
      <3>1. (b \o c)[i] = b[i] /\ i \in 1 .. Len(b)
        BY <1>1, <1>2, <2>1
      <3> QED
        BY <3>1 DEF Run
    <2>2. CASE i > Len(b)
      <3>1. (b \o c)[i] = c[i - Len(b)] /\ i - Len(b) \in 1 .. Len(c)
        BY <1>1, <1>2, <2>2
      <3>2. c[i - Len(b)] = n + Len(b) + (i - Len(b)) - 1
        BY <3>1 DEF Run
      <3> QED
        BY <1>1, <3>1, <3>2
    <2> QED
      BY <1>1, <1>2, <2>1, <2>2
  <1> QED
    BY <1>2, <1>3 DEF Run

\* Two neighbours in a run, and its last id.
LEMMA RunEnds ==
  ASSUME NEW n \in Nat, NEW s, Run(s, n)
  PROVE  /\ \A i \in 1 .. Len(s) - 1 : s[i + 1] = s[i] + 1
         /\ s # <<>> => s[Len(s)] = n + Len(s) - 1
         /\ Len(s) \in Nat
  <1>1. s \in Seq(Nat) /\ Len(s) \in Nat
    BY DEF Run
  <1>2. ASSUME NEW i \in 1 .. Len(s) - 1
        PROVE  s[i + 1] = s[i] + 1
    <2>1. i \in 1 .. Len(s) /\ i + 1 \in 1 .. Len(s)
      BY <1>1
    <2>2. s[i] = n + i - 1 /\ s[i + 1] = n + (i + 1) - 1
      BY <2>1 DEF Run
    <2> QED
      BY <2>1, <2>2
  <1>3. ASSUME s # <<>>
        PROVE  s[Len(s)] = n + Len(s) - 1
    <2>1. Len(s) \in 1 .. Len(s)
      BY <1>1, <1>3
    <2> QED
      BY <2>1 DEF Run
  <1> QED
    BY <1>1, <1>2, <1>3

\* The empty run starts anywhere.
LEMMA RunEmpty == \A a \in Nat : Run(<<>>, a)
  BY DEF Run

\* The lines held are a run up to the newest.
LEMMA HeldIsRun ==
  ASSUME Numbered
  PROVE  /\ Run(Held, nextID - count) /\ Len(Held) = count
         /\ count \in Nat /\ nextID \in Nat /\ nextID - count \in Nat
  <1>1. count \in Nat /\ nextID \in Nat /\ nextID - count \in Nat
    BY LogRingAssumption DEF Numbered, RingInv, RingType
  <1>2. \A i \in 1 .. count : At(i - 1) = nextID - count + i - 1
    <2>1. \A i \in 0 .. count - 1 : At(i) = nextID - count + i
      BY DEF Numbered, RingInv, RingIsTail
    <2> QED
      BY <1>1, <2>1
  <1>3. \A i \in 1 .. count : At(i - 1) \in Nat
    BY <1>1, <1>2
  <1>4. Held \in [1 .. count -> Nat] /\ \A i \in 1 .. count : Held[i] = At(i - 1)
    BY <1>3 DEF Held
  <1>5. Held \in Seq(Nat) /\ Len(Held) = count
    BY <1>1, <1>4
  <1> QED
    BY <1>1, <1>2, <1>4, <1>5 DEF Run

\* The last n lines held are the run of the last n ids.
LEMMA LastIsRun ==
  ASSUME Numbered, NEW n \in Nat, n <= count
  PROVE  /\ nextID - n \in Nat
         /\ Run(lastLocked(n), nextID - n) /\ Len(lastLocked(n)) = n
  <1>1. /\ Run(Held, nextID - count) /\ Len(Held) = count
        /\ count \in Nat /\ nextID \in Nat /\ nextID - count \in Nat
    BY HeldIsRun
  <1>2. lastLocked(n) = SubSeq(Held, count - n + 1, count)
    BY <1>1 DEF lastLocked
  <1> DEFINE s == SubSeq(Held, count - n + 1, count)
  <1>3. s \in Seq(Nat) /\ Len(s) = n /\ \A i \in 1 .. n : s[i] = Held[count - n + i]
    BY <1>1 DEF Run
  <1>4. \A i \in 1 .. n : Held[count - n + i] = nextID - n + i - 1
    BY <1>1 DEF Run
  <1> QED
    BY <1>1, <1>2, <1>3, <1>4 DEF Run

\* A resumed stream starts right after the id it was given, or at the oldest
\* line held when the lines in between are gone.
LEMMA SinceIsRun ==
  ASSUME Numbered, NEW id \in Nat, id < nextID
  PROVE  \E n \in Nat :
           /\ Run(sinceLocked(id), n) /\ n + Len(sinceLocked(id)) = nextID
           /\ n = id + 1 \/ (n > id + 1 /\ id + 1 < nextID - count)
  <1>1. /\ Run(Held, nextID - count) /\ Len(Held) = count
        /\ count \in Nat /\ nextID \in Nat /\ nextID - count \in Nat
    BY HeldIsRun
  <1> DEFINE Past == {i \in 1 .. count : Held[i] > id}
             first == IF id + 1 < nextID - count THEN nextID - count ELSE id + 1
  <1>2. Past = (first - (nextID - count) + 1) .. count
    BY <1>1 DEF Run
  <1>3. Cardinality(Past) = nextID - first
    <2>1. PICK lo \in Int : lo = first - (nextID - count) + 1
      BY <1>1
    <2>2. Cardinality(lo .. count) = IF lo > count THEN 0 ELSE count - lo + 1
      <3>1. count \in Int
        BY <1>1
      <3> QED
        BY <2>1, <3>1, FS_Interval
    <2>3. Past = lo .. count
      BY <1>2, <2>1
    <2>4. Cardinality(Past) = IF lo > count THEN 0 ELSE count - lo + 1
      BY <2>2, <2>3
    <2> QED
      BY <1>1, <2>1, <2>4
  <1>4. nextID - first \in Nat /\ nextID - first <= count /\ first \in Nat
    BY <1>1
  <1>5. /\ Run(lastLocked(nextID - first), nextID - (nextID - first))
        /\ Len(lastLocked(nextID - first)) = nextID - first
    BY <1>4, LastIsRun
  <1>6. sinceLocked(id) = lastLocked(nextID - first)
    BY <1>3 DEF sinceLocked
  <1>7. nextID - (nextID - first) = first /\ first + (nextID - first) = nextID
    BY <1>1, <1>4
  <1>8. first = id + 1 \/ (first > id + 1 /\ id + 1 < nextID - count)
    BY <1>1
  <1> QED
    BY <1>4, <1>5, <1>6, <1>7, <1>8

\* No reader is served at first.
LEMMA InvInit == Init => Inv
  <1> SUFFICES ASSUME Init PROVE Inv
    OBVIOUS
  <1>1. Numbered
    <2>1. RingInv
      BY RingInit
    <2> QED
      BY <2>1 DEF Numbered, Init
  <1>2. Typed
    BY DEF Init, Typed
  <1>3. Issued
    BY DEF Init, Issued
  <1>4. Flows
    BY DEF Init, Flows, Connected
  <1> QED
    BY <1>1, <1>2, <1>3, <1>4 DEF Inv

\* An append hands out one id and lets go of one line at most.
LEMMA NumberedWrite ==
  ASSUME Numbered, WriteLine
  PROVE  /\ Numbered' /\ nextID' = nextID + 1
         /\ nextID - count <= nextID' - count'
  <1>1. RingInv' /\ RingInv
    BY RingWrite DEF Numbered
  <1> QED
    BY <1>1, LogRingAssumption DEF Numbered, RingInv, RingType, WriteLine

\* A step of one reader, which gets the handler h and has the line x of the
\* process y after it.
LEMMA OneReader ==
  ASSUME Inv, UNCHANGED <<ring, restarts>>,
         NEW r \in Readers, NEW h \in Handlers \cup {Off}, NEW x \in Nat, NEW y \in Nat,
         handler' = [handler EXCEPT ![r] = h],
         received' = [received EXCEPT ![r] = x],
         issuer' = [issuer EXCEPT ![r] = y],
         y <= restarts, y = restarts => x < nextID,
         h # Off =>
           \E n \in Nat :
              /\ Carries(h, n)
              /\ x # 0 /\ y = restarts =>
                    \/ n = x + 1
                    \/ n > x + 1 /\ x + 1 < nextID - count
  PROVE  Inv'
  <1> USE DEF Inv
  <1>1. nextID' = nextID /\ count' = count /\ restarts' = restarts
    BY DEF ring
  <1>2. Numbered'
    BY DEF ring, Numbered, RingInv, RingType, RingIsTail, At
  <1>3. Typed'
    BY <1>1 DEF Typed
  <1>4. Issued'
    BY <1>1 DEF Typed, Issued
  <1>5. \A w \in Readers :
          /\ w = r => handler'[w] = h /\ received'[w] = x /\ issuer'[w] = y
          /\ w # r => /\ handler'[w] = handler[w]
                      /\ received'[w] = received[w] /\ issuer'[w] = issuer[w]
    BY DEF Typed
  <1>6. ASSUME NEW w \in Readers, handler'[w] # Off
        PROVE  \E n \in Nat : Carries(handler[w], n)' /\ Resumes(w, n)'
    <2>1. CASE w = r
      <3>1. PICK n \in Nat :
               /\ Carries(h, n)
               /\ x # 0 /\ y = restarts =>
                     \/ n = x + 1
                     \/ n > x + 1 /\ x + 1 < nextID - count
        BY <1>5, <1>6, <2>1
      <3>2. Carries(handler[w], n)'
        BY <1>1, <1>5, <2>1, <3>1 DEF Carries
      <3>3. Resumes(w, n)'
        BY <1>1, <1>5, <2>1, <3>1 DEF Resumes
      <3> QED
        BY <3>2, <3>3
    <2>2. CASE w # r
      <3>1. PICK n \in Nat : Carries(handler[w], n) /\ Resumes(w, n)
        BY <1>5, <1>6, <2>2 DEF Flows, Connected
      <3>2. Carries(handler[w], n)'
        BY <1>1, <1>5, <2>2, <3>1 DEF Carries
      <3>3. Resumes(w, n)'
        BY <1>1, <1>5, <2>2, <3>1 DEF Resumes
      <3> QED
        BY <3>2, <3>3
    <2> QED
      BY <2>1, <2>2
  <1>7. Flows'
    BY <1>6 DEF Flows, Connected
  <1> QED
    BY <1>2, <1>3, <1>4, <1>7

\* What a connected reader's handler holds.
LEMMA HandlerOf ==
  ASSUME Inv, NEW r \in Connected
  PROVE  /\ r \in Readers /\ handler[r] \in Handlers
         /\ received[r] \in Nat /\ issuer[r] \in Nat /\ restarts \in Nat
         /\ \E n \in Nat : Carries(handler[r], n) /\ Resumes(r, n)
  BY DEF Inv, Typed, Flows, Connected

\* A handler that is gone leaves its reader with the line it had.
LEMMA Leaving ==
  ASSUME Inv, NEW r \in Connected, EndStream(r) \/ BreakConnection(r)
  PROVE  Inv'
  <1>1. r \in Readers /\ received[r] \in Nat /\ issuer[r] \in Nat
    BY HandlerOf
  <1>2. /\ handler' = [handler EXCEPT ![r] = Off]
        /\ UNCHANGED <<ring, received, issuer, restarts>>
    BY DEF EndStream, BreakConnection
  <1>3. /\ received' = [received EXCEPT ![r] = received[r]]
        /\ issuer' = [issuer EXCEPT ![r] = issuer[r]]
    BY <1>1, <1>2 DEF Inv, Typed
  <1>4. issuer[r] <= restarts /\ (issuer[r] = restarts => received[r] < nextID)
    BY <1>1 DEF Inv, Issued
  <1>5. UNCHANGED <<ring, restarts>> /\ Off \in Handlers \cup {Off}
    BY <1>2
  <1> QED
    BY <1>1, <1>2, <1>3, <1>4, <1>5, OneReader

\* A new handler starts with a run that reaches to the newest line.
LEMMA Subscribing ==
  ASSUME Inv, NEW r \in Readers, Subscribe(r)
  PROVE  Inv'
  <1> DEFINE h == [on |-> TRUE, live |-> TRUE, backlog |-> Backlog(received[r]), ch |-> <<>>]
  <1>1. received[r] \in Nat /\ issuer[r] \in Nat
    BY DEF Inv, Typed
  <1>2. Numbered /\ nextID \in Nat /\ count \in Nat /\ nextID - count \in Nat
    BY HeldIsRun DEF Inv
  <1>3. issuer[r] <= restarts /\ (issuer[r] = restarts => received[r] < nextID)
    BY <1>1 DEF Inv, Issued
  <1>4. \E n \in Nat :
          /\ Run(Backlog(received[r]), n) /\ n + Len(Backlog(received[r])) = nextID
          /\ Resumes(r, n)
    <2>1. CASE received[r] = 0 \/ received[r] >= nextID
      <3>1. Backlog(received[r]) = lastLocked(Replay)
        BY <2>1 DEF Backlog
      <3>2. PICK k \in Nat : k <= count /\ lastLocked(Replay) = lastLocked(k)
        <4>1. CASE Replay <= count
          BY <4>1, LogRingAssumption
        <4>2. CASE ~(Replay <= count)
          <5>1. lastLocked(Replay) = Held
            BY <1>2, <4>2, LogRingAssumption DEF lastLocked
          <5>2. lastLocked(count) = Held
            <6>1. Run(Held, nextID - count) /\ Len(Held) = count
              BY <1>2, HeldIsRun
            <6>2. lastLocked(count) = SubSeq(Held, 1, count)
              BY <1>2 DEF lastLocked
            <6> QED
              BY <1>2, <6>1, <6>2 DEF Run
          <5> QED
            BY <1>2, <5>1, <5>2
        <4> QED
          BY <4>1, <4>2
      <3>3. /\ nextID - k \in Nat
            /\ Run(lastLocked(k), nextID - k) /\ Len(lastLocked(k)) = k
        BY <1>2, <3>2, LastIsRun
      <3>4. Resumes(r, nextID - k)
        BY <1>1, <1>2, <1>3, <2>1 DEF Resumes
      <3>5. nextID - k + k = nextID
        BY <1>2, <3>2
      <3> QED
        BY <3>1, <3>2, <3>3, <3>4, <3>5
    <2>2. CASE received[r] # 0 /\ received[r] < nextID
      <3>1. Backlog(received[r]) = sinceLocked(received[r])
        BY <1>1, <1>2, <2>2 DEF Backlog
      <3>2. PICK n \in Nat :
              /\ Run(sinceLocked(received[r]), n) /\ n + Len(sinceLocked(received[r])) = nextID
              /\ n = received[r] + 1 \/ (n > received[r] + 1 /\ received[r] + 1 < nextID - count)
        BY <1>1, <1>2, <2>2, SinceIsRun
      <3>3. Resumes(r, n)
        BY <3>2 DEF Resumes
      <3> QED
        BY <3>1, <3>2, <3>3
    <2>3. \/ received[r] = 0 \/ received[r] >= nextID
          \/ received[r] # 0 /\ received[r] < nextID
      BY <1>1, <1>2
    <2> QED
      BY <2>1, <2>2, <2>3
  <1>5. PICK n \in Nat :
          /\ Run(Backlog(received[r]), n) /\ n + Len(Backlog(received[r])) = nextID
          /\ Resumes(r, n)
    BY <1>4
  <1>6. h \in Handlers
    BY <1>5 DEF Handlers, Run
  <1>7. Carries(h, n)
    <2>1. Len(Backlog(received[r])) \in Nat /\ Len(<<>>) = 0
      BY <1>5 DEF Run
    <2>2. Run(<<>>, n + Len(Backlog(received[r])))
      BY <2>1, RunEmpty
    <2>3. /\ n + Len(Backlog(received[r])) + Len(<<>>) <= nextID
          /\ n + Len(Backlog(received[r])) + Len(<<>>) = nextID
      BY <1>2, <1>5, <2>1
    <2>4. h.backlog = Backlog(received[r]) /\ h.ch = <<>>
      OBVIOUS
    <2> QED
      BY <1>5, <2>2, <2>3, <2>4 DEF Carries
  <1> HIDE DEF h
  <1>8. /\ handler' = [handler EXCEPT ![r] = h]
        /\ UNCHANGED <<ring, received, issuer, restarts>>
    BY DEF Subscribe, h
  <1>9. /\ received' = [received EXCEPT ![r] = received[r]]
        /\ issuer' = [issuer EXCEPT ![r] = issuer[r]]
    BY <1>1, <1>8 DEF Inv, Typed
  <1>10. \E m \in Nat :
            /\ Carries(h, m)
            /\ received[r] # 0 /\ issuer[r] = restarts =>
                  \/ m = received[r] + 1
                  \/ m > received[r] + 1 /\ received[r] + 1 < nextID - count
    BY <1>5, <1>7 DEF Resumes
  <1>11. UNCHANGED <<ring, restarts>> /\ h \in Handlers \cup {Off}
    BY <1>6, <1>8
  <1> QED
    BY <1>1, <1>3, <1>8, <1>9, <1>10, <1>11, OneReader

\* The count of a run of x lines from n when its first is gone.
LEMMA Shorter ==
  ASSUME NEW n \in Nat, NEW x \in Nat \ {0}, NEW y \in Nat, NEW m \in Nat, n + x + y <= m
  PROVE  n + 1 + (x - 1) = n + x /\ n + 1 + (x - 1) + y = n + x + y /\ n < m
  OBVIOUS

\* A line written is the first of the run, and the next one follows it.
LEMMA Writing ==
  ASSUME Inv, NEW r \in Connected, WriteBacklog(r) \/ WriteLive(r)
  PROVE  /\ Inv'
         /\ \E n \in Nat : received' = [received EXCEPT ![r] = n] /\ Resumes(r, n)
  <1>1. /\ r \in Readers /\ handler[r] \in Handlers
        /\ received[r] \in Nat /\ issuer[r] \in Nat /\ restarts \in Nat
    BY HandlerOf
  <1>2. PICK n \in Nat : Carries(handler[r], n) /\ Resumes(r, n)
    BY HandlerOf
  <1>3. nextID \in Nat /\ count \in Nat /\ nextID - count \in Nat
    BY HeldIsRun DEF Inv
  <1> DEFINE b == handler[r].backlog
             c == handler[r].ch
  <1>4. b \in Seq(Nat) /\ c \in Seq(Nat) /\ handler[r].live \in BOOLEAN /\ handler[r].on = TRUE
    BY <1>1 DEF Handlers
  <1>5. /\ Run(b, n) /\ Run(c, n + Len(b)) /\ n + Len(b) + Len(c) <= nextID
        /\ handler[r].live => n + Len(b) + Len(c) = nextID
    BY <1>2 DEF Carries
  <1>6. PICK h \in Handlers :
          /\ handler' = [handler EXCEPT ![r] = h]
          /\ received' = [received EXCEPT ![r] = n]
          /\ issuer' = [issuer EXCEPT ![r] = restarts]
          /\ UNCHANGED <<ring, restarts>>
          /\ Carries(h, n + 1) /\ n < nextID
    <2>1. CASE WriteBacklog(r)
      <3> DEFINE h == [handler[r] EXCEPT !.backlog = Tail(b)]
      <3>1. handler' = [handler EXCEPT ![r] = h]
        BY <2>1 DEF WriteBacklog
      <3>2. b # <<>> /\ Head(b) = n /\ Run(Tail(b), n + 1) /\ Len(Tail(b)) = Len(b) - 1
           /\ Len(b) \in Nat \ {0} /\ Len(c) \in Nat
        BY <1>4, <1>5, <2>1, RunTail DEF WriteBacklog
      <3>3. /\ received' = [received EXCEPT ![r] = n]
            /\ issuer' = [issuer EXCEPT ![r] = restarts]
            /\ UNCHANGED <<ring, restarts>>
        BY <2>1, <3>2 DEF WriteBacklog, Receive
      <3>4. Tail(b) \in Seq(Nat)
        BY <3>2 DEF Run
      <3>5. h \in Handlers /\ h.backlog = Tail(b) /\ h.ch = c /\ h.live = handler[r].live
        BY <1>1, <3>4 DEF Handlers
      <3>6. /\ n + Len(b) = n + 1 + Len(Tail(b)) /\ n < nextID
            /\ n + 1 + Len(Tail(b)) + Len(c) = n + Len(b) + Len(c)
        <4>1. n + Len(b) + Len(c) <= nextID
          BY <1>5
        <4>2. /\ n + 1 + (Len(b) - 1) = n + Len(b) /\ n < nextID
              /\ n + 1 + (Len(b) - 1) + Len(c) = n + Len(b) + Len(c)
          BY <1>3, <3>2, <4>1, Shorter
        <4> QED
          BY <3>2, <4>2, Zenon
      <3>7. Carries(h, n + 1)
        <4>1. Run(h.backlog, n + 1) /\ Run(h.ch, n + 1 + Len(h.backlog))
          BY <1>5, <3>2, <3>5, <3>6
        <4>2. /\ n + 1 + Len(h.backlog) + Len(h.ch) <= nextID
              /\ h.live => n + 1 + Len(h.backlog) + Len(h.ch) = nextID
          BY <1>5, <3>5, <3>6
        <4> QED
          BY <4>1, <4>2 DEF Carries
      <3> QED
        BY <3>1, <3>3, <3>5, <3>6, <3>7
    <2>2. CASE WriteLive(r)
      <3> DEFINE h == [handler[r] EXCEPT !.ch = Tail(c)]
      <3>1. handler' = [handler EXCEPT ![r] = h]
        BY <2>2 DEF WriteLive
      <3>2. b = <<>> /\ Len(b) = 0
        BY <2>2 DEF WriteLive
      <3>3. Run(c, n)
        BY <1>5, <3>2
      <3>4. c # <<>> /\ Head(c) = n /\ Run(Tail(c), n + 1) /\ Len(Tail(c)) = Len(c) - 1
           /\ Len(c) \in Nat \ {0}
        BY <2>2, <3>3, RunTail DEF WriteLive
      <3>5. /\ received' = [received EXCEPT ![r] = n]
            /\ issuer' = [issuer EXCEPT ![r] = restarts]
            /\ UNCHANGED <<ring, restarts>>
        BY <2>2, <3>4 DEF WriteLive, Receive
      <3>6. Tail(c) \in Seq(Nat)
        BY <3>4 DEF Run
      <3>7. h \in Handlers /\ h.ch = Tail(c) /\ h.backlog = b /\ h.live = handler[r].live
        BY <1>1, <3>6 DEF Handlers
      <3>8. /\ n + 1 + Len(b) = n + 1 /\ n < nextID
            /\ n + 1 + Len(b) + Len(Tail(c)) = n + Len(b) + Len(c)
        <4>1. n + Len(c) + 0 <= nextID /\ n + 1 + Len(b) = n + 1
              /\ n + Len(b) + Len(c) = n + Len(c) + 0
          BY <1>3, <1>5, <3>2, <3>4
        <4>2. n + 1 + (Len(c) - 1) = n + Len(c) /\ n < nextID
          BY <1>3, <3>4, <4>1, Shorter
        <4>3. n + 1 + Len(Tail(c)) = n + Len(c)
          BY <3>4, <4>2, Zenon
        <4>4. n + Len(c) + 0 = n + Len(c)
          BY <3>4
        <4> QED
          BY <4>1, <4>2, <4>3, <4>4, Zenon
      <3>9. Carries(h, n + 1)
        <4>1. Run(h.backlog, n + 1)
          BY <3>2, <3>7, RunEmpty
        <4>2. Run(h.ch, n + 1 + Len(h.backlog))
          BY <3>4, <3>7, <3>8
        <4>3. /\ n + 1 + Len(h.backlog) + Len(h.ch) <= nextID
              /\ h.live => n + 1 + Len(h.backlog) + Len(h.ch) = nextID
          BY <1>5, <3>7, <3>8
        <4> QED
          BY <4>1, <4>2, <4>3 DEF Carries
      <3> QED
        BY <3>1, <3>5, <3>7, <3>8, <3>9
    <2> QED
      BY <2>1, <2>2
  <1>7. \E m \in Nat :
          /\ Carries(h, m)
          /\ n # 0 /\ restarts = restarts =>
                \/ m = n + 1
                \/ m > n + 1 /\ n + 1 < nextID - count
    BY <1>6
  <1>8. restarts <= restarts /\ (restarts = restarts => n < nextID)
    BY <1>1, <1>6
  <1>9. Inv'
    BY <1>1, <1>6, <1>7, <1>8, OneReader
  <1> QED
    BY <1>2, <1>6, <1>9

\* The end of what a handler holds stays below a limit that is raised.
LEMMA Longer ==
  ASSUME NEW n \in Nat, NEW x \in Nat, NEW y \in Nat, NEW m \in Nat
  PROVE  /\ n + x \in Nat
         /\ n + x + y <= m => n + x + y <= m + 1
  OBVIOUS

\* An appended line goes on the run of a subscriber that has room; one that lags
\* is closed and its run ends where it is.
LEMMA Offered ==
  ASSUME nextID \in Nat, NEW n \in Nat, NEW h \in Handlers, Carries(h, n),
         NEW g, g = Offer(h, nextID)
  PROVE  /\ g \in Handlers /\ Run(g.backlog, n) /\ Run(g.ch, n + Len(g.backlog))
         /\ n + Len(g.backlog) + Len(g.ch) <= nextID + 1
         /\ g.live => n + Len(g.backlog) + Len(g.ch) = nextID + 1
  <1>1. /\ Run(h.backlog, n) /\ Run(h.ch, n + Len(h.backlog))
        /\ n + Len(h.backlog) + Len(h.ch) <= nextID
        /\ h.live => n + Len(h.backlog) + Len(h.ch) = nextID
    BY DEF Carries
  <1>2. h.backlog \in Seq(Nat) /\ h.ch \in Seq(Nat) /\ h.live \in BOOLEAN
    BY DEF Handlers
  <1>3. Len(h.backlog) \in Nat /\ Len(h.ch) \in Nat
    BY <1>2
  <1>4. n + Len(h.backlog) \in Nat /\ n + Len(h.backlog) + Len(h.ch) <= nextID + 1
    BY <1>1, <1>3, Longer
  <1>5. h # Off
    BY HandlerIsOn
  <1>6. CASE ~h.live
    <2>1. g = h
      BY <1>6 DEF Offer
    <2> QED
      BY <1>1, <1>4, <1>6, <2>1
  <1>7. CASE h.live /\ ~(Len(h.ch) < Buffer)
    <2>1. g = [h EXCEPT !.live = FALSE]
      BY <1>5, <1>7 DEF Offer
    <2>2. g \in Handlers /\ g.backlog = h.backlog /\ g.ch = h.ch /\ ~g.live
      BY <2>1 DEF Handlers
    <2> QED
      BY <1>1, <1>4, <2>2
  <1>8. CASE h.live /\ Len(h.ch) < Buffer
    <2>1. g = [h EXCEPT !.ch = Append(h.ch, nextID)]
      BY <1>5, <1>8 DEF Offer
    <2>2. nextID = n + Len(h.backlog) + Len(h.ch)
      BY <1>1, <1>8
    <2>3. /\ Run(Append(h.ch, nextID), n + Len(h.backlog))
          /\ Len(Append(h.ch, nextID)) = Len(h.ch) + 1
      BY <1>1, <1>4, <2>2, RunAppend
    <2>4. Append(h.ch, nextID) \in Seq(Nat)
      BY <2>3 DEF Run
    <2>5. g \in Handlers /\ g.backlog = h.backlog /\ g.ch = Append(h.ch, nextID)
      BY <2>1, <2>4 DEF Handlers
    <2>6. /\ n + Len(h.backlog) + (Len(h.ch) + 1) = nextID + 1
          /\ n + Len(h.backlog) + (Len(h.ch) + 1) <= nextID + 1
      <3>1. PICK x \in Nat, y \in Nat : x = Len(h.backlog) /\ y = Len(h.ch)
        BY <1>3
      <3>2. n + x + y = nextID
        BY <2>2, <3>1
      <3>3. n + x + (y + 1) = nextID + 1 /\ n + x + (y + 1) <= nextID + 1
        BY <3>2
      <3> QED
        BY <3>1, <3>3
    <2> QED
      BY <1>1, <2>3, <2>5, <2>6
  <1> QED
    BY <1>2, <1>6, <1>7, <1>8

\* No line leaves the ring but the oldest, so a run that skips only lines that
\* are gone still does.
LEMMA StillResumes ==
  ASSUME NEW r \in Readers, NEW n \in Nat, Resumes(r, n), Typed, Numbered, Numbered',
         UNCHANGED <<received, issuer, restarts>>, nextID - count <= nextID' - count'
  PROVE  Resumes(r, n)'
  <1>1. received[r] \in Nat /\ received'[r] = received[r]
    BY DEF Typed
  <1>2. issuer'[r] = issuer[r] /\ restarts' = restarts
    OBVIOUS
  <1>3. nextID \in Nat /\ count \in Nat /\ nextID' \in Nat /\ count' \in Nat
    BY DEF Numbered, RingInv, RingType
  <1>4. received[r] + 1 < nextID - count => received[r] + 1 < nextID' - count'
    <2>1. \A a, x, y \in Int : a < x /\ x <= y => a < y
      OBVIOUS
    <2>2. /\ received[r] + 1 \in Int
          /\ nextID - count \in Int /\ nextID' - count' \in Int
      BY <1>1, <1>3
    <2> QED
      BY <2>1, <2>2, Zenon
  <1> QED
    BY <1>1, <1>2, <1>4 DEF Resumes

\* An append keeps every stream a run.
LEMMA Appending == ASSUME Inv, WriteLine PROVE Inv'
  <1>1. /\ Numbered /\ Numbered' /\ nextID' = nextID + 1
        /\ nextID - count <= nextID' - count'
    BY NumberedWrite DEF Inv
  <1>2. nextID \in Nat /\ count \in Nat /\ nextID' \in Nat /\ count' \in Nat
    BY <1>1 DEF Numbered, RingInv, RingType
  <1>3. /\ received' = received /\ issuer' = issuer /\ restarts' = restarts
        /\ handler' = [r \in Readers |-> Offer(handler[r], nextID)]
    BY DEF WriteLine
  <1>4. ASSUME NEW r \in Readers
        PROVE  /\ handler'[r] = Offer(handler[r], nextID)
               /\ handler[r] = Off => handler'[r] = Off
               /\ handler[r] # Off =>
                    /\ handler'[r] \in Handlers
                    /\ \E n \in Nat : Carries(handler[r], n)' /\ Resumes(r, n)'
    <2>1. handler'[r] = Offer(handler[r], nextID)
      BY <1>3
    <2>2. CASE handler[r] = Off
      BY <2>1, <2>2 DEF Offer
    <2>3. CASE handler[r] # Off
      <3>1. handler[r] \in Handlers
        BY <2>3, HandlerOf DEF Connected
      <3>2. PICK n \in Nat : Carries(handler[r], n) /\ Resumes(r, n)
        BY <2>3, HandlerOf DEF Connected
      <3>3. Resumes(r, n)'
        BY <1>1, <1>3, <3>2, StillResumes DEF Inv
      <3>4. /\ handler'[r] \in Handlers
            /\ Run(handler'[r].backlog, n) /\ Run(handler'[r].ch, n + Len(handler'[r].backlog))
            /\ n + Len(handler'[r].backlog) + Len(handler'[r].ch) <= nextID + 1
            /\ handler'[r].live =>
                 n + Len(handler'[r].backlog) + Len(handler'[r].ch) = nextID + 1
        <4>1. PICK g : g = handler'[r]
          OBVIOUS
        <4>2. g = Offer(handler[r], nextID)
          BY <2>1, <4>1
        <4>3. /\ g \in Handlers /\ Run(g.backlog, n) /\ Run(g.ch, n + Len(g.backlog))
              /\ n + Len(g.backlog) + Len(g.ch) <= nextID + 1
              /\ g.live => n + Len(g.backlog) + Len(g.ch) = nextID + 1
          BY <1>2, <3>1, <3>2, <4>2, Offered, Zenon
        <4> QED
          BY <4>1, <4>3, Zenon
      <3>5. Carries(handler[r], n)'
        BY <1>1, <3>4, Zenon DEF Carries
      <3> QED
        BY <2>1, <2>3, <3>3, <3>4, <3>5
    <2> QED
      BY <2>1, <2>2, <2>3
  <1>5. Typed'
    <2>1. \A r \in Readers : handler[r] \in Handlers \cup {Off}
      BY DEF Inv, Typed
    <2>2. \A r \in Readers : Offer(handler[r], nextID) \in Handlers \cup {Off}
      BY <1>4, <2>1
    <2>3. handler' \in [Readers -> Handlers \cup {Off}]
      BY <1>3, <2>2
    <2> QED
      BY <1>3, <2>3 DEF Inv, Typed
  <1>6. Issued'
    <2>1. \A r \in Readers : received[r] \in Nat
      BY DEF Inv, Typed
    <2> QED
      BY <1>1, <1>2, <1>3, <2>1 DEF Inv, Issued
  <1>7. Flows'
    BY <1>4 DEF Flows, Connected
  <1> QED
    BY <1>1, <1>5, <1>6, <1>7 DEF Inv

\* A restart takes every handler with it, and no line a reader has is one of
\* the new process.
LEMMA Restarting == ASSUME Inv, RestartEngine PROVE Inv'
  <1>1. Numbered'
    <2>1. RingInv' /\ nextID' = 1 /\ count' = 0
      BY RingStep DEF Inv, Numbered, Next, RestartEngine
    <2> QED
      BY <2>1 DEF Numbered
  <1>2. /\ handler' = [r \in Readers |-> Off] /\ restarts' = restarts + 1
        /\ received' = received /\ issuer' = issuer
    BY DEF RestartEngine
  <1>3. Typed'
    BY <1>2 DEF Inv, Typed
  <1>4. Issued'
    BY <1>2 DEF Inv, Typed, Issued
  <1>5. Flows'
    BY <1>2 DEF Flows, Connected
  <1> QED
    BY <1>1, <1>3, <1>4, <1>5 DEF Inv

LEMMA InvStep == ASSUME Inv, [Next]_vars PROVE Inv'
  <1>1. CASE UNCHANGED vars
    <2>1. Numbered'
      BY <1>1 DEF Inv, vars, ring, Numbered, RingInv, RingType, RingIsTail, At
    <2>2. Typed' /\ Issued'
      BY <1>1 DEF Inv, vars, ring, Typed, Issued
    <2>3. Flows'
      BY <1>1 DEF Inv, vars, ring, Flows, Connected, Carries, Resumes
    <2> QED
      BY <2>1, <2>2, <2>3 DEF Inv
  <1>2. CASE WriteLine
    BY <1>2, Appending
  <1>3. CASE RestartEngine
    BY <1>3, Restarting
  <1>4. ASSUME NEW r \in Readers, Stream(r) \/ BreakConnection(r)
        PROVE  Inv'
    <2>1. CASE Subscribe(r)
      BY <2>1, Subscribing
    <2>2. CASE WriteBacklog(r) \/ WriteLive(r)
      <3>1. r \in Connected
        BY <2>2 DEF WriteBacklog, WriteLive
      <3> QED
        BY <2>2, <3>1, Writing
    <2>3. CASE EndStream(r) \/ BreakConnection(r)
      <3>1. r \in Connected
        BY <2>3 DEF EndStream, BreakConnection
      <3> QED
        BY <2>3, <3>1, Leaving
    <2> QED
      BY <1>4, <2>1, <2>2, <2>3 DEF Stream
  <1> QED
    BY <1>1, <1>2, <1>3, <1>4 DEF Next

LEMMA Invariant == Spec => []Inv
  BY InvInit, InvStep, PTL DEF Spec

\* A stream has no hole, whatever the reader's lag, its breaks and the restarts
\* of the engine (SubscribeSince takes the backlog and the subscription in one
\* critical section; append closes a subscriber rather than skip a line).
THEOREM StreamsAreWhole == Spec => []StreamIsWhole
  <1>1. Inv => StreamIsWhole
    <2> SUFFICES ASSUME Inv, NEW r \in Connected
                 PROVE  /\ \A i \in 1 .. Len(Pending(r)) - 1 :
                              Pending(r)[i + 1] = Pending(r)[i] + 1
                        /\ handler[r].live /\ Pending(r) # <<>> =>
                              Pending(r)[Len(Pending(r))] = nextID - 1
      BY DEF StreamIsWhole
    <2>1. PICK n \in Nat : Carries(handler[r], n)
      BY HandlerOf
    <2> DEFINE x == Len(handler[r].backlog)
               y == Len(handler[r].ch)
               p == Pending(r)
    <2>2. Run(handler[r].backlog, n) /\ Run(handler[r].ch, n + x)
      BY <2>1 DEF Carries
    <2>3. x \in Nat /\ y \in Nat
      BY <2>2 DEF Run
    <2>4. Run(p, n) /\ Len(p) = x + y
      BY <2>2, RunJoin DEF Pending
    <2>5. handler[r].live => n + x + y = nextID
      BY <2>1 DEF Carries
    <2>6. /\ \A i \in 1 .. Len(p) - 1 : p[i + 1] = p[i] + 1
          /\ p # <<>> => p[Len(p)] = n + Len(p) - 1
      BY <2>4, RunEnds
    <2> HIDE DEF x, y, p
    <2>7. handler[r].live => n + Len(p) - 1 = nextID - 1
      BY <2>3, <2>4, <2>5
    <2>8. handler[r].live /\ p # <<>> => p[Len(p)] = nextID - 1
      BY <2>6, <2>7
    <2> QED
      BY <2>6, <2>8 DEF p
  <1> QED
    BY <1>1, Invariant, PTL

\* A resumed stream repeats no line and leaves none out that the ring still
\* holds (sinceLocked from the id the reader last received).
THEOREM ResumesAreExact == Spec => ResumeIsExact
  <1> DEFINE Exact ==
        \A r \in Readers :
          received'[r] # received[r] /\ received[r] # 0 /\ issuer[r] = restarts =>
             \/ received'[r] = received[r] + 1
             \/ received'[r] > received[r] + 1 /\ received[r] + 1 < nextID - count
  <1>1. ASSUME Inv, [Next]_vars PROVE [Exact]_vars
    <2>1. CASE received' = received
      BY <2>1
    <2>2. ASSUME NEW w \in Readers, WriteBacklog(w) \/ WriteLive(w)
          PROVE  Exact
      <3>1. w \in Connected
        BY <2>2 DEF WriteBacklog, WriteLive
      <3>2. PICK n \in Nat : received' = [received EXCEPT ![w] = n] /\ Resumes(w, n)
        BY <1>1, <2>2, <3>1, Writing
      <3>3. received \in [Readers -> Nat]
        BY <1>1 DEF Inv, Typed
      <3> QED
        BY <3>2, <3>3 DEF Resumes
    <2>3. \/ received' = received
          \/ \E w \in Readers : WriteBacklog(w) \/ WriteLive(w)
      BY <1>1 DEF Next, Stream, WriteLine, RestartEngine, Subscribe, EndStream,
                  BreakConnection, vars
    <2> HIDE DEF Exact
    <2> QED
      BY <2>1, <2>2, <2>3 DEF Exact
  <1> QED
    BY <1>1, Invariant, PTL DEF Spec, ResumeIsExact
=============================================================================
