------------------------------ MODULE Readouts ------------------------------
(***************************************************************************)
(* Acquisitions on their way to a result: class Readouts of                *)
(* device/readouts.cpp.  pending maps the measurement id to the readout    *)
(* [reference, end, arm, ready, sample, core]; sample is <<>> until the    *)
(* acquisition has ended.                                                  *)
(***************************************************************************)
EXTENDS Integers, Sequences, FiniteSets

\* The actions of one kind that belong to a measurement.
Members(actions, kind, id) ==
  {i \in 1..Len(actions) : actions[i].kind = kind /\ actions[i].reference[1].measurement = id}

Acquisitions(actions) == {i \in 1..Len(actions) : actions[i].kind = "Acquire"}
Arms(actions) == {i \in 1..Len(actions) : actions[i].kind = "Arm"}

\* prepare: each acquisition has one reference of this epoch and, if asked
\* for, exactly one arm; no arm is left over.
PrepareFault(pending, actions, epoch) ==
  IF \E i \in Acquisitions(actions) \cup Arms(actions) :
       \/ actions[i].reference = <<>>
       \/ actions[i].reference[1].epoch # epoch
       \/ actions[i].targets # {actions[i].reference[1].target}
    THEN "InvalidMeasurement"
  ELSE IF \E i, j \in Acquisitions(actions) \cup Arms(actions) :
            /\ actions[i].reference[1].measurement = actions[j].reference[1].measurement
            /\ actions[i].reference # actions[j].reference
    THEN "InvalidMeasurement"
  ELSE IF \E i \in Acquisitions(actions) :
            LET id == actions[i].reference[1].measurement
            IN  \/ Cardinality(Members(actions, "Acquire", id)) # 1
                \/ id \in DOMAIN pending
                \/ Cardinality(Members(actions, "Arm", id)) # IF actions[i].separate_arm THEN 1 ELSE 0
    THEN "ReadoutPairing"
  ELSE IF \E i \in Arms(actions) :
            Members(actions, "Acquire", actions[i].reference[1].measurement) = {}
    THEN "ReadoutPairing"
  ELSE "None"

\* The tick at which the discriminator of acquisition a is armed.
ArmTick(a, actions) ==
  IF ~a.separate_arm THEN a.start
  ELSE actions[CHOOSE i \in Arms(actions) : actions[i].reference = a.reference].start

\* The readout of acquisition a: ready after the later of its end and its arm.
ReadoutOf(a, actions) ==
  LET arm  == ArmTick(a, actions)
      late == IF arm > a.end THEN arm ELSE a.end
  IN  [reference |-> a.reference[1], end |-> a.end, arm |-> arm,
       ready |-> late + a.delay, sample |-> <<>>, core |-> a.core]

\* insert, sample and erase.
Insert(pending, new) ==
  [id \in DOMAIN pending \cup {r.reference.measurement : r \in new} |->
     IF id \in DOMAIN pending THEN pending[id]
     ELSE CHOOSE r \in new : r.reference.measurement = id]
Sample(pending, values) ==
  [id \in DOMAIN pending |->
     IF id \in DOMAIN values THEN [pending[id] EXCEPT !.sample = <<values[id]>>] ELSE pending[id]]
Erase(pending, ids) == [id \in DOMAIN pending \ ids |-> pending[id]]

\* result: the completion of a sampled readout.
ResultOf(readout) == [reference |-> readout.reference, value |-> readout.sample[1]]
=============================================================================
