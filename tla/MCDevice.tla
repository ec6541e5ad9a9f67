------------------------------ MODULE MCDevice ------------------------------
(***************************************************************************)
(* Two cores that share two qubits, for TLC.                               *)
(***************************************************************************)
EXTENDS Device

Event(kind, port, targets) ==
  [kind |-> kind, port |-> port, targets |-> targets, resources |-> {}, gate |-> "none", codeword |-> 1,
   output_delay |-> 0, duration |-> 2, discriminator_delay |-> 1, separate_arm |-> FALSE]

\* Half of the two-qubit gate, on a port of each core.
HalfGate(port) == [Event("GateOutput", port, {1, 2}) EXCEPT !.gate = "cz", !.duration = 3]

Line == [id |-> 1, exclusive |-> TRUE]

\* Core 1: a gate, a delayed pulse, an acquisition, half a gate.
\* Core 2: a pulse on the same qubit, an acquisition with a late arm, the
\* other half of the gate.
CoreBatches ==
  <<{<<Event("Gate", 1, {1})>>,
     <<[Event("Pulse", 2, {1}) EXCEPT !.output_delay = 1]>>,
     <<[Event("Acquire", 3, {1}) EXCEPT !.resources = {Line}]>>,
     <<HalfGate(1)>>},
    {<<[Event("Pulse", 4, {1}) EXCEPT !.duration = 3]>>,
     <<[Event("Acquire", 5, {2}) EXCEPT !.separate_arm = TRUE, !.resources = {Line}],
       [Event("Arm", 6, {2}) EXCEPT !.output_delay = 3, !.duration = 1]>>,
     <<HalfGate(4)>>}>>

CzGate ==
  [g \in {"cz"} |->
     [inputs |-> {[core |-> 1, port |-> 1, codeword |-> 1], [core |-> 2, port |-> 4, codeword |-> 1]},
      duration |-> 3]]
=============================================================================
