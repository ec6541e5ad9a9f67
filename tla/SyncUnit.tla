------------------------------ MODULE SyncUnit ------------------------------
(***************************************************************************)
(* The synchronization unit of a core: class SyncUnit of sync.cpp.  A unit *)
(* is <<>> or the one booking it holds, [target, deadline, received].      *)
(***************************************************************************)
EXTENDS Integers, Sequences

\* Mutation of StepUnit: only the edge of the deadline itself completes a booking.
StepUnit_OnlyOnDeadline(unit, arrived, now) ==
  LET received == unit[1].received \/ arrived
  IN  IF unit = <<>> THEN [unit |-> <<>>, paused |-> FALSE, completed |-> FALSE]
      ELSE IF now = unit[1].deadline /\ received
        THEN [unit |-> <<>>, paused |-> FALSE, completed |-> TRUE]
      ELSE [unit |-> <<[unit[1] EXCEPT !.received = received]>>,
            paused |-> now >= unit[1].deadline, completed |-> FALSE]

\* Mutation of StepUnit: the signal completes a booking before its deadline.
StepUnit_AtSignal(unit, arrived, now) ==
  IF unit = <<>> THEN [unit |-> <<>>, paused |-> FALSE, completed |-> FALSE]
  ELSE IF arrived THEN [unit |-> <<>>, paused |-> FALSE, completed |-> TRUE]
  ELSE [unit |-> unit, paused |-> now >= unit[1].deadline, completed |-> FALSE]

\* step: the booking is completed once its deadline has come and the signal
\* of the partner has been received; past the deadline it pauses the timer.
\* arrived says that the network has an unconsumed signal for this booking.
StepUnit(unit, arrived, now) ==
  LET received == unit[1].received \/ arrived
  IN  IF unit = <<>> THEN [unit |-> <<>>, paused |-> FALSE, completed |-> FALSE]
      ELSE IF now >= unit[1].deadline /\ received
        THEN [unit |-> <<>>, paused |-> FALSE, completed |-> TRUE]
      ELSE [unit |-> <<[unit[1] EXCEPT !.received = received]>>,
            paused |-> now >= unit[1].deadline, completed |-> FALSE]

\* step asks the network for a signal only while none was received.
Listens(unit) == unit # <<>> /\ ~unit[1].received

\* preflight: one booking at a time.
Overlaps(unit, targets) == targets # <<>> /\ unit # <<>>

BookingOf(target, deadline) == [target |-> target, deadline |-> deadline, received |-> FALSE]
=============================================================================
