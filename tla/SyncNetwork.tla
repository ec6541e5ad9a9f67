---------------------------- MODULE SyncNetwork ----------------------------
(***************************************************************************)
(* One directional link of class SyncNetwork (sync.cpp) as a sequence of   *)
(* signals [arrival, consumed]; consumed is <<>> or the edge <<e>> at      *)
(* which the receiver took the signal.  Time is counted in TCU edges.      *)
(***************************************************************************)
EXTENDS Integers, Sequences

Unconsumed(signal) == signal.consumed = <<>>

\* Mutation of Occupying: slots consumed on this very edge are free at once.
Occupying_FreeAtOnce(link, now) == SelectSeq(link, LAMBDA s : Unconsumed(s))

\* Mutation of Occupying: consumed signals are never removed.
Occupying_Forever(link, now) == link

\* preflight: the signals that still hold a slot at the edge now.  A slot is
\* free from the edge after the one that consumed its signal.
Occupies(signal, now) == Unconsumed(signal) \/ signal.consumed[1] >= now
Occupying(link, now) ==
  LET kept[i \in 0..Len(link)] ==
        IF i = 0 THEN <<>>
        ELSE IF Occupies(link[i], now) THEN Append(kept[i - 1], link[i]) ELSE kept[i - 1]
  IN  kept[Len(link)]

\* send, after preflight has removed what no longer holds a slot.
Send(link, delay, now) ==
  Append(Occupying(link, now), [arrival |-> now + delay, consumed |-> <<>>])

\* receive: the signals that may be taken at the edge now.
Receivable(link, now) == {i \in 1..Len(link) : Unconsumed(link[i]) /\ link[i].arrival <= now}

\* Mutation of Receive: the signal is not marked as consumed.
Receive_Again(link, now) == link

\* receive takes the first of them, if there is one.
Receive(link, now) ==
  IF Receivable(link, now) = {} THEN link
  ELSE LET first == CHOOSE i \in Receivable(link, now) :
                      \A j \in Receivable(link, now) : i <= j
       IN  [link EXCEPT ![first].consumed = <<now>>]

\* empty, for one link.
LinkEmpty(link) == \A i \in 1..Len(link) : ~Unconsumed(link[i])
=============================================================================
