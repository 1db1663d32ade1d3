---------------------------- MODULE VersionHistory ----------------------------
(***************************************************************************)
(* What the deployment commands promise together, however many operators   *)
(* run them at once: versions are numbered without a gap, exactly one is   *)
(* current from the first deploy on, a commit makes the next number        *)
(* current, and a rollback makes a version that already exists current.    *)
(***************************************************************************)
EXTENDS Naturals

VARIABLES last, head      \* the highest version; the current one, 0 for none

Init == last \in Nat /\ head \in (IF last = 0 THEN {0} ELSE 1 .. last)

Deployed   == last' = last + 1 /\ head' = last + 1
Promoted   == last' = last /\ head' \in 1 .. last

Next == Deployed \/ Promoted

Spec == Init /\ [][Next]_<<last, head>>
=============================================================================
