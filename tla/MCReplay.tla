------------------------------ MODULE MCReplay ------------------------------
(* Instances of Replay: loops of a few operations in a period of 40 ticks. *)
EXTENDS Replay

Gate(target, offset, duration) ==
  [kind |-> "gate", target |-> target, offset |-> offset, duration |-> duration, delay |-> 0]
Acquire(target, offset, duration, delay) ==
  [kind |-> "acquire", target |-> target, offset |-> offset, duration |-> duration, delay |-> delay]

MCBodies == {
  \* One measurement and nothing else.
  <<Acquire(0, 0, 8, 4)>>,
  \* Gates around two measurements of a qubit, results read at once or later.
  <<Gate(0, 0, 4), Acquire(0, 4, 8, 2), Gate(0, 20, 4), Acquire(0, 24, 8, 0)>>,
  \* Two qubits: parallel gates, one measurement of both ends at one tick.
  <<Gate(0, 0, 4), Gate(1, 0, 4), Acquire(0, 6, 8, 2), Acquire(1, 6, 8, 2)>>,
  \* The measurement issued last is sampled first.
  <<Acquire(0, 0, 12, 2), Acquire(1, 0, 6, 2)>>,
  \* A gate issued first and delayed until the qubit has been sampled.
  <<Gate(0, 11, 3), Acquire(0, 0, 10, 3)>>,
  \* A delayed gate that ends with the loop end, after it, or starts after it.
  <<Gate(0, 12, 4), Acquire(0, 0, 10, 3)>>,
  <<Gate(1, 12, 5), Acquire(0, 0, 10, 3)>>,
  <<Gate(0, 26, 4), Acquire(0, 0, 10, 3)>>,
  \* A round that is not over when the next one starts.
  <<Acquire(0, 0, 10, 3), Gate(1, 5, 40)>>}

\* No drift; a late second or third round, and a late start of the first one.
MCDrifts == {<<0>>, <<0, 5>>, <<0, 0, 5>>, <<5, 0>>}
=============================================================================
