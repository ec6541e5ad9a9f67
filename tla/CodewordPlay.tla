---------------------------- MODULE CodewordPlay ----------------------------
(***************************************************************************)
(* What becomes of codewords that are sent to an idle machine: the checks  *)
(* of TimingControl::codeword and decode_codeword when a codeword is       *)
(* issued, and those of ControlElectronics when its events are launched    *)
(* and reach their physical start.                                         *)
(*                                                                         *)
(* A core is a record [id, profile]; a play is a sequence of launches      *)
(* [core, mapping, tick], core being an index of the sequence of cores, in *)
(* the order in which they are launched.                                   *)
(***************************************************************************)
EXTENDS Profile, ResourceReservations, Readouts, FiniteSetsExt

\* The ports of earlier cores precede those of a core: port_offsets_.
PortOffset(cores, index) ==
  MapThenSumSet(LAMBDA i : cores[i].profile.ports, 1..(index - 1))

\* The targets and resources of an action, those of the gate for a gate output.
Resolved(gates, a) ==
  IF a.kind = "GateOutput" THEN GateOf(gates, a.gate) ELSE a

-----------------------------------------------------------------------------
(* Issue.                                                                  *)

\* The acquisitions among actions that precede the one of target q.
ReferenceNumber(actions, q) ==
  LET mine == CHOOSE i \in Acquisitions(actions) : actions[i].targets = <<q>>
  IN  Cardinality({i \in Acquisitions(actions) : i <= mine})

\* The actions that a core stages for one time point: those of its launches.
Staged(play, launch) ==
  LET same == {i \in DOMAIN play : play[i].core = launch.core /\ play[i].tick = launch.tick}
  IN  UNION {{<<i, k>> : k \in DOMAIN play[i].mapping.actions} : i \in same}

\* TimingControl::codeword for the mapping of a launch, and decode_codeword.
IssueFault(cores, play, launch) ==
  LET p       == cores[launch.core].profile
      actions == launch.mapping.actions
      all     == Elements(actions)
      measured == {a.targets : a \in {b \in all : b.kind = "Acquire"}}
      staged  == Staged(play, launch)
      on(port) == {s \in staged : play[s[1]].mapping.actions[s[2]].port = port}
  IN  IF launch.mapping.port >= p.ports THEN "InvalidPort"
      ELSE IF \E a \in all : Resolved(p.two_qubit_gates, a).targets = <<>>
        THEN "UnsupportedCapability"
      ELSE IF ~p.fast_feedback /\ \E a \in all : a.execution_flag # "Always"
        THEN "UnsupportedCapability"
      ELSE IF Cardinality(staged) > p.staging_capacity THEN "Capacity"
      ELSE IF \E a \in all : a.port >= p.ports THEN "PortOutOfRange"
      ELSE IF \E a \in all : \/ Cardinality(on(a.port)) > p.firing_width
                             \/ Cardinality(on(a.port)) > p.event_capacity
        THEN "Capacity"
      ELSE IF Cardinality(Acquisitions(actions)) > p.result_capacity THEN "Capacity"
      ELSE IF \E targets \in measured : targets[1] >= p.qubits THEN "InvalidOperand"
      ELSE IF Cardinality(measured) # Cardinality(Acquisitions(actions))
        THEN "InvalidMeasurement"
      ELSE IF \E a \in all : a.kind \in {"Acquire", "Arm"} /\ a.targets \notin measured
        THEN "InvalidMeasurement"
      ELSE "None"

-----------------------------------------------------------------------------
(* Launch and physical start.                                              *)

\* resolve: the scheduled actions of a launch, the k-th launch of its play.
Scheduled(cores, launch, k) ==
  LET actions == launch.mapping.actions
      gates   == cores[1].profile.two_qubit_gates
  IN  [i \in DOMAIN actions |->
         LET a == actions[i]
             start == launch.tick + a.delay
         IN  [id |-> <<k, i>>, core |-> cores[launch.core].id,
              port |-> PortOffset(cores, launch.core) + a.port,
              source |-> [core |-> cores[launch.core].id, port |-> launch.mapping.port,
                          codeword |-> launch.mapping.codeword],
              kind |-> a.kind, gate |-> a.gate,
              targets |-> Elements(Resolved(gates, a).targets),
              resources |-> Elements(Resolved(gates, a).resources),
              start |-> start, end |-> start + a.duration,
              delay |-> a.discriminator_delay, separate_arm |-> a.separate_arm,
              reference |->
                IF a.kind \in {"Acquire", "Arm"}
                  THEN <<[epoch |-> 1, target |-> a.targets[1],
                          measurement |-> <<k, ReferenceNumber(actions, a.targets[1])>>]>>
                  ELSE <<>>]]

\* A gate output comes from an input of its gate and lasts as long as the gate.
UnexpectedOutput(gates, a) ==
  /\ a.kind = "GateOutput"
  /\ LET gate == GateOf(gates, a.gate)
     IN  a.source \notin Elements(gate.inputs) \/ a.end - a.start # gate.duration

\* resolve_gate_outputs: both inputs of a gate start at the same tick.
Unpaired(gates, actions) ==
  \E a \in actions :
    /\ a.kind = "GateOutput"
    /\ LET together == {b \in actions : b.kind = "GateOutput" /\ b.gate = a.gate
                                          /\ b.start = a.start}
           inputs   == GateOf(gates, a.gate).inputs
       IN  \/ Cardinality(together) # Len(inputs)
           \/ \E i \in DOMAIN inputs :
                Cardinality({b \in together : b.source = inputs[i]}) # 1

\* The first check that a play of one or two launches fails, or "None".
PlayFault(cores, play) ==
  LET gates     == cores[1].profile.two_qubit_gates
      issued(k) == IssueFault(cores, play, play[k])
      actions(k) == Scheduled(cores, play[k], k)
      before(k) == UNION {Elements(actions(j)) : j \in 1..(k - 1)}
      launched(k) ==
        IF \E a \in Elements(actions(k)) : UnexpectedOutput(gates, a) THEN "GateInputMismatch"
        ELSE IF CheckFault(before(k), actions(k)) # "None" THEN CheckFault(before(k), actions(k))
        ELSE PrepareFault(<<>>, actions(k), 1)
      failing(check(_)) == {k \in DOMAIN play : check(k) # "None"}
  IN  IF failing(issued) # {} THEN issued(Min(failing(issued)))
      ELSE IF failing(launched) # {} THEN launched(Min(failing(launched)))
      ELSE IF Unpaired(gates, before(Len(play) + 1)) THEN "GateInputMismatch"
      ELSE "None"
=============================================================================
