-------------------------------- MODULE LogRing --------------------------------
(***************************************************************************)
(* The engine's log stream: a circular buffer of the last lines            *)
(* (internal/logbuf/ring.go), the SSE handler that replays and follows it  *)
(* (internal/logbuf/server.go), and readers that lose their connection and *)
(* resume after the last id they received.                                 *)
(*                                                                         *)
(* A line is its id.  What the socket holds when a connection breaks is    *)
(* lost with what the handler had not written yet, so a line counts as     *)
(* written when the reader receives it.                                    *)
(***************************************************************************)
EXTENDS Integers, Sequences, FiniteSets

CONSTANTS
    Readers,
    Capacity,      \* lines the ring holds
    Buffer,        \* lines a subscriber may lag (subscriberBuffer)
    Replay,        \* lines a fresh reader gets (defaultReplay)
    MaxLines,      \* bound: lines a process writes
    MaxBreaks,     \* bound: broken connections
    MaxRestarts    \* bound: restarts of the engine

ASSUME LogRingAssumption ==
    /\ Capacity \in Nat \ {0} /\ Buffer \in Nat \ {0} /\ Replay \in Nat \ {0}
    /\ MaxLines \in Nat /\ MaxBreaks \in Nat /\ MaxRestarts \in Nat

VARIABLES
    lines, start, count, nextID,    \* the ring
    handler,    \* reader -> its handler: what it has to write, and whether it
                \* is still subscribed; Off when there is none
    received,   \* reader -> the last id it received, 0 for none
    issuer,     \* reader -> the process that issued it
    breaks, restarts

ring == <<lines, start, count, nextID>>
vars == <<ring, handler, received, issuer, breaks, restarts>>

-----------------------------------------------------------------------------
Off == [on |-> FALSE]
Connected == {r \in Readers : handler[r] # Off}

\* The i-th oldest line held.
At(i) == lines[(start + i) % Capacity]
Held == [i \in 1 .. count |-> At(i - 1)]

\* Seeded fault: the slot a line goes to forgets where the ring starts.
SlotFromZero == count % Capacity

Slot == (start + count) % Capacity

\* Seeded fault: a line that does not fit is skipped.
OfferLossy(h, id) ==
    IF h = Off \/ ~h.live THEN h
    ELSE IF Len(h.ch) < Buffer THEN [h EXCEPT !.ch = Append(@, id)] ELSE h

\* A subscriber that lags is closed; what its channel holds can still be read.
Offer(h, id) ==
    IF h = Off \/ ~h.live THEN h
    ELSE IF Len(h.ch) < Buffer THEN [h EXCEPT !.ch = Append(@, id)]
    ELSE [h EXCEPT !.live = FALSE]

\* append, under the lock.
WriteLine ==
    /\ nextID <= MaxLines
    /\ lines' = [lines EXCEPT ![Slot] = nextID]
    /\ start' = IF count = Capacity THEN (start + 1) % Capacity ELSE start
    /\ count' = IF count = Capacity THEN count ELSE count + 1
    /\ nextID' = nextID + 1
    /\ handler' = [r \in Readers |-> Offer(handler[r], nextID)]
    /\ UNCHANGED <<received, issuer, breaks, restarts>>

lastLocked(n) == IF n > count THEN Held ELSE SubSeq(Held, count - n + 1, count)

\* Seeded fault: the line after the one received is taken for received too.
sinceSkips(id) == lastLocked(Cardinality({i \in 1 .. count : Held[i] > id + 1}))

\* The lines held past an id.  The loop keeps every line with a larger id; ids
\* ascend in the ring, so those are as many of the newest.
sinceLocked(id) == lastLocked(Cardinality({i \in 1 .. count : Held[i] > id}))

\* Seeded fault: an id of another process is waited for.
BacklogResume(since) == IF since = 0 THEN lastLocked(Replay) ELSE sinceLocked(since)

\* A reader that has nothing yet gets a tail, and so does one whose id this
\* process has not issued.
Backlog(since) == IF since = 0 \/ since >= nextID THEN lastLocked(Replay) ELSE sinceLocked(since)

\* handleStream up to SubscribeSince: the backlog and the subscription are
\* taken under one lock.
Subscribe(r) ==
    /\ handler[r] = Off
    /\ handler' = [handler EXCEPT ![r] =
           [on |-> TRUE, live |-> TRUE, backlog |-> Backlog(received[r]), ch |-> <<>>]]
    /\ UNCHANGED <<ring, received, issuer, breaks, restarts>>

Receive(r, id) ==
    /\ received' = [received EXCEPT ![r] = id]
    /\ issuer' = [issuer EXCEPT ![r] = restarts]
    /\ UNCHANGED <<ring, breaks, restarts>>

\* The backlog first, then the channel.
WriteBacklog(r) ==
    /\ r \in Connected /\ handler[r].backlog # <<>>
    /\ handler' = [handler EXCEPT ![r].backlog = Tail(@)]
    /\ Receive(r, Head(handler[r].backlog))

WriteLive(r) ==
    /\ r \in Connected /\ handler[r].backlog = <<>> /\ handler[r].ch # <<>>
    /\ handler' = [handler EXCEPT ![r].ch = Tail(@)]
    /\ Receive(r, Head(handler[r].ch))

\* A closed and drained channel ends the response.
EndStream(r) ==
    /\ r \in Connected /\ ~handler[r].live
    /\ handler[r].backlog = <<>> /\ handler[r].ch = <<>>
    /\ handler' = [handler EXCEPT ![r] = Off]
    /\ UNCHANGED <<ring, received, issuer, breaks, restarts>>

BreakConnection(r) ==
    /\ r \in Connected /\ breaks < MaxBreaks
    /\ handler' = [handler EXCEPT ![r] = Off]
    /\ breaks' = breaks + 1
    /\ UNCHANGED <<ring, received, issuer, restarts>>

\* The ring and the ids go with the process.
RestartEngine ==
    /\ restarts < MaxRestarts
    /\ lines' = [i \in 0 .. Capacity - 1 |-> 0] /\ start' = 0 /\ count' = 0 /\ nextID' = 1
    /\ handler' = [r \in Readers |-> Off]
    /\ restarts' = restarts + 1
    /\ UNCHANGED <<received, issuer, breaks>>

-----------------------------------------------------------------------------
Init ==
    /\ lines = [i \in 0 .. Capacity - 1 |-> 0] /\ start = 0 /\ count = 0 /\ nextID = 1
    /\ handler = [r \in Readers |-> Off]
    /\ received = [r \in Readers |-> 0] /\ issuer = [r \in Readers |-> 0]
    /\ breaks = 0 /\ restarts = 0

Stream(r) == Subscribe(r) \/ WriteBacklog(r) \/ WriteLive(r) \/ EndStream(r)

Next == WriteLine \/ RestartEngine \/ \E r \in Readers : Stream(r) \/ BreakConnection(r)

Spec == Init /\ [][Next]_vars

\* A handler writes what it has, and EventSource reconnects on its own.
FairSpec == Spec /\ \A r \in Readers : WF_vars(Stream(r))

-----------------------------------------------------------------------------
(* Properties.                                                             *)

\* The ring holds exactly the last lines, oldest first, also once it has
\* wrapped around.
RingIsTail == \A i \in 0 .. count - 1 : At(i) = nextID - count + i

\* What a handler still has to write, in order.
Pending(r) == handler[r].backlog \o handler[r].ch

\* A stream has no hole: what is left to write is a run of consecutive lines,
\* across the seam of backlog and channel, and it reaches to the newest line
\* for as long as the reader is subscribed.
StreamIsWhole ==
    \A r \in Connected :
        LET p == Pending(r)
        IN  /\ \A i \in 1 .. Len(p) - 1 : p[i + 1] = p[i] + 1
            /\ handler[r].live /\ p # <<>> => p[Len(p)] = nextID - 1

\* A resumed stream repeats no line and leaves none out that the ring still
\* holds: a reader that has a line of this process gets the next one, or, when
\* that is gone from the ring, a later one.
ResumeIsExact ==
    [][\A r \in Readers :
          received'[r] # received[r] /\ received[r] # 0 /\ issuer[r] = restarts =>
             \/ received'[r] = received[r] + 1
             \/ received'[r] > received[r] + 1 /\ received[r] + 1 < nextID - count]_vars

\* No reader is left behind: dropped for lagging, disconnected or cut off by a
\* restart, it is at the newest line again and again.  (An id of the old process
\* that the new one has reached by now is resumed from like one of its own.)
ReadersCatchUp == \A r \in Readers : []<>(nextID = 1 \/ received[r] = nextID - 1)
=============================================================================
