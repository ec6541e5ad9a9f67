------------------------ MODULE ResourceReservations ------------------------
(***************************************************************************)
(* Conflicts of scheduled actions: class ResourceReservations of           *)
(* device/resources.cpp.  A scheduled action is a record with the interval *)
(* [start, end), kind, global port, targets, resources and, for a gate     *)
(* output, the gate it is an input of; targets and resources of a gate     *)
(* output are those of the gate (ControlElectronics::resolve).             *)
(***************************************************************************)
EXTENDS Integers, Sequences

IsArm(a) == a.kind = "Arm"
IsGate(a) == a.kind \in {"Gate", "GateOutput"}

CommonTarget(a, b) == a.targets \cap b.targets # {}
Overlap(a, b) == a.start < b.end /\ b.start < a.end
SameGate(a, b) == a.kind = "GateOutput" /\ b.kind = "GateOutput" /\ a.gate = b.gate

\* A resource that both use, and one of them exclusively.
Contended(a, b) ==
  \E r \in a.resources, s \in b.resources : r.id = s.id /\ (r.exclusive \/ s.exclusive)

\* Two actions on one target at the same time, unless both are pulses.
Incompatible(a, b) ==
  /\ ~IsArm(a) /\ ~IsArm(b)
  /\ CommonTarget(a, b)
  /\ ~(a.kind = "Pulse" /\ b.kind = "Pulse")

\* An acquisition samples at the very tick at which a gate on its target starts.
SampleMeetsGate(a, b) ==
  /\ CommonTarget(a, b)
  /\ \/ a.kind = "Acquire" /\ IsGate(b) /\ a.end = b.start
     \/ b.kind = "Acquire" /\ IsGate(a) /\ b.end = a.start

\* Mutation of PairFault: samples and gates at the same tick are let through.
PairFault_NoSampleCheck(a, b) ==
  IF ~Overlap(a, b) THEN "None"
  ELSE IF a.port = b.port THEN "ResourceConflict"
  ELSE IF SameGate(a, b) THEN "None"
  ELSE IF Contended(a, b) \/ Incompatible(a, b) THEN "ResourceConflict"
  ELSE "None"

\* pair: the check that two actions fail together, if any.
PairFault(a, b) ==
  IF Overlap(a, b) /\ a.port = b.port THEN "ResourceConflict"
  ELSE IF Overlap(a, b) /\ SameGate(a, b)
    THEN IF a.start = b.start /\ a.end = b.end THEN "None" ELSE "GateInputMismatch"
  ELSE IF Overlap(a, b) /\ (Contended(a, b) \/ Incompatible(a, b)) THEN "ResourceConflict"
  ELSE IF SampleMeetsGate(a, b) THEN "ResourceConflict"
  ELSE "None"

\* check: every new action against the reserved ones and the earlier new ones.
CheckFault(reserved, actions) ==
  LET indices == 1..Len(actions)
      reasons == {PairFault(actions[i], old) : i \in indices, old \in reserved}
                   \cup {PairFault(actions[x[1]], actions[x[2]]) :
                           x \in {y \in indices \X indices : y[2] < y[1]}}
  IN  IF \/ \E i, j \in indices : i # j /\ actions[i].id = actions[j].id
         \/ \E i \in indices, old \in reserved : actions[i].id = old.id
        THEN "DuplicateAction"
      ELSE IF "ResourceConflict" \in reasons THEN "ResourceConflict"
      ELSE IF "GateInputMismatch" \in reasons THEN "GateInputMismatch"
      ELSE "None"

ReserveActions(reserved, actions) == reserved \cup {actions[i] : i \in 1..Len(actions)}

\* Mutation of DiscardBefore: an action is forgotten once it has started.
DiscardBefore_Started(reserved, now) == {a \in reserved : a.start >= now}

DiscardBefore(reserved, now) == {a \in reserved : a.end >= now}
=============================================================================
