------------------------------- MODULE Clock -------------------------------
(***************************************************************************)
(* Clocks and mailboxes: struct Clock of time.hpp and class Mailbox of     *)
(* mailbox.hpp.  A clock is a record [period, phase]; a mailbox is the     *)
(* sequence of its envelopes, and its capacity, receiver clock and latency *)
(* are passed to the operation that needs them.                            *)
(***************************************************************************)
EXTENDS Integers, Sequences

\* Clock::validate.
ValidClock(clock) ==
  /\ clock.period \in Nat \ {0}
  /\ clock.phase \in Nat
  /\ clock.phase < clock.period

IsEdge(clock, t) == t >= clock.phase /\ (t - clock.phase) % clock.period = 0

\* The latency-th receiver edge strictly after a publication.
After(clock, publication, latency) ==
  LET first == IF publication < clock.phase
                 THEN clock.phase
                 ELSE clock.phase
                        + ((publication - clock.phase) \div clock.period + 1) * clock.period
  IN  first + (latency - 1) * clock.period

\* The number of the edge at tick t, counting from the clock's first edge.
EdgeNumber(clock, t) == (t - clock.phase) \div clock.period

\* The first edge at or after tick t.
EdgeFrom(clock, t) == IF IsEdge(clock, t) THEN t ELSE After(clock, t, 1)

-----------------------------------------------------------------------------
IsFull(box, capacity) == Len(box) = capacity

\* publish, when the box is not full and time has not gone backwards.
Publish(box, clock, latency, now, epoch, value) ==
  Append(box, [published |-> now, eligible |-> After(clock, now, latency),
               epoch |-> epoch, value |-> value])

PublishFault(box, capacity, now) ==
  \/ IsFull(box, capacity)
  \/ box # <<>> /\ now < box[Len(box)].published

\* peek: <<>> or the front envelope once its arrival edge has come.
Peek(box, now) ==
  IF box # <<>> /\ Head(box).eligible <= now THEN <<Head(box)>> ELSE <<>>

\* take in a loop: the envelopes that leave at this edge, and the ones that stay.
Ready(box, now) ==
  LET count == CHOOSE n \in 0..Len(box) :
                 /\ \A i \in 1..n : box[i].eligible <= now
                 /\ n < Len(box) => box[n + 1].eligible > now
  IN  SubSeq(box, 1, count)
Waiting(box, now) == SubSeq(box, Len(Ready(box, now)) + 1, Len(box))
=============================================================================
