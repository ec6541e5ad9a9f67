------------------------------ MODULE Timeline ------------------------------
(***************************************************************************)
(* What a timing control unit promises: a logical clock that either holds  *)
(* or advances by one, and a schedule of time points each of which fires   *)
(* in the one cycle it is due, never earlier, later or twice.              *)
(***************************************************************************)
EXTENDS Integers

VARIABLES
  cycle,     \* the logical time
  schedule,  \* the points that have not fired: a set of [label, due]
  fired      \* the label that fired in the last step, as a set

lineVars == <<cycle, schedule, fired>>

PointRecord == [label : Nat, due : Nat]

LineInit == cycle = 0 /\ schedule = {} /\ fired = {}

DueNow == {p \in schedule : p.due = cycle}

\* The clock advances and every point due in this cycle fires.
Advance ==
  /\ cycle' = cycle + 1
  /\ fired' = {p.label : p \in DueNow}
  /\ \/ schedule' = schedule \ DueNow
     \/ \E p \in schedule' :
          /\ p \in PointRecord
          /\ p.due > cycle
          /\ p \notin schedule
          /\ schedule' = (schedule \ DueNow) \cup {p}

\* The clock holds: nothing fires, and a point due in this very cycle may
\* still be added because the cycle is not over.
Hold ==
  /\ cycle' = cycle
  /\ fired' = {}
  /\ \/ schedule' = schedule
     \/ \E p \in schedule' :
          /\ p \in PointRecord
          /\ p.due >= cycle
          /\ p \notin schedule
          /\ schedule' = schedule \cup {p}

\* A new epoch; the restart may use up the first cycle.
Restart == cycle' \in {0, 1} /\ schedule' = {} /\ fired' = {}

LineNext == Advance \/ Hold \/ Restart

Timeline == LineInit /\ [][LineNext]_lineVars
=============================================================================
