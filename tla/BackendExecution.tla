-------------------------- MODULE BackendExecution --------------------------
(***************************************************************************)
(* Batched execution of quantum operations: class BackendExecution of      *)
(* backend.cpp, as operators on a record.  Of an operation only its kind,  *)
(* its ticks and the identities it concerns matter here; what a backend    *)
(* computes is external.  A backend may fail: it raises an exception or    *)
(* returns the wrong number of outcomes.                                   *)
(*                                                                         *)
(* executed, failed and committed are histories: what the backend has      *)
(* completed, the batch it failed on, and what the device has asked for.   *)
(***************************************************************************)
EXTENDS Integers, Sequences

CONSTANT MaxBatch   \* max_batch_operations

ASSUME BatchAssumption == MaxBatch \in Nat \ {0}

Evolution(from, to, drives, acquisitions) ==
  [kind |-> "Evolution", start |-> from, tick |-> to,
   drives |-> drives, acquisitions |-> acquisitions]
Gates(now, gates) == [kind |-> "Gates", tick |-> now, gates |-> gates]
Measurement(now, references) ==
  [kind |-> "Measurement", tick |-> now, references |-> references]

\* reset of a new epoch at the tick now.  fails_in is the environment's choice
\* for the current call: how many executions from now one fails, 0 for none.
FreshBackend(epoch, now) ==
  [pending |-> <<>>, epoch |-> epoch, committed_tick |-> now, fails_in |-> 0,
   executed |-> <<>>, failed |-> <<>>, committed |-> <<>>, fault |-> "None"]

Reject(b, reason) == [b EXCEPT !.fault = reason]

\* The environment's choice for one call of the device.
Prone(b, n) == [b EXCEPT !.fails_in = n]

\* Mutation of Flush: a failed batch stays pending.
Flush_KeepFailed(b) ==
  IF b.pending = <<>> THEN b
  ELSE IF b.fails_in = 1
    THEN Reject([b EXCEPT !.failed = b.pending], "BackendFailure")
  ELSE [b EXCEPT !.executed = @ \o b.pending, !.pending = <<>>,
                 !.fails_in = IF @ > 0 THEN @ - 1 ELSE 0]

\* execute: the whole batch goes to the backend, in order, and is given up
\* whether or not the backend completes it.
Flush(b) ==
  IF b.pending = <<>> THEN b
  ELSE IF b.fails_in = 1
    THEN Reject([b EXCEPT !.failed = b.pending, !.pending = <<>>], "BackendFailure")
  ELSE [b EXCEPT !.executed = @ \o b.pending, !.pending = <<>>,
                 !.fails_in = IF @ > 0 THEN @ - 1 ELSE 0]

Push(b, operation) ==
  [b EXCEPT !.pending = Append(@, operation),
            !.committed = Append(@, operation),
            !.committed_tick = operation.tick]

Commit(b, operation) ==
  LET pushed == Push(b, operation)
  IN  IF operation.tick < b.committed_tick THEN Reject(b, "BackendTimeDecreased")
      ELSE IF Len(pushed.pending) = MaxBatch THEN Flush(pushed)
      ELSE pushed

\* Mutation of Evolve: an interval without drives is skipped.
Evolve_OnlyDriven(b, from, to, drives, acquisitions) ==
  IF drives = {} THEN [b EXCEPT !.committed_tick = to]
  ELSE Commit(b, Evolution(from, to, drives, acquisitions))

Evolve(b, from, to, drives, acquisitions) ==
  IF from # b.committed_tick \/ to < from THEN Reject(b, "BackendInterval")
  ELSE IF to = from THEN b
  ELSE Commit(b, Evolution(from, to, drives, acquisitions))

Apply(b, now, gates) == IF gates = <<>> THEN b ELSE Commit(b, Gates(now, gates))

\* A measurement needs its outcome now: it executes everything before it.
Measure(b, now, references) ==
  IF references = <<>> THEN b
  ELSE IF now < b.committed_tick THEN Reject(b, "BackendTimeDecreased")
  ELSE IF \E i, j \in 1..Len(references) :
            \/ references[i].epoch # b.epoch
            \/ i # j /\ references[i].target = references[j].target
    THEN Reject(b, "InvalidMeasurement")
  ELSE Flush(Push(b, Measurement(now, references)))
=============================================================================
