-------------------------- MODULE ControlProtocol --------------------------
(***************************************************************************)
(* The messages between the control side of a core and its TCU, and what   *)
(* both sides require of them (control_protocol.cpp).  A request is a      *)
(* record [point, events]: the time point, whose manifest lists the ids of *)
(* its events, and the events themselves.                                  *)
(***************************************************************************)
EXTENDS Integers, Sequences

CONSTANTS
  Ports,            \* output ports
  EventCapacity,    \* slots of each port's event queue
  FiringWidth,      \* events of one port at one time point
  StagingCapacity   \* events of one time point

ASSUME ProtocolAssumption ==
  /\ EventCapacity \in Nat \ {0}
  /\ FiringWidth \in Nat \ {0}
  /\ StagingCapacity \in Nat \ {0}

Policies == {"Inherit", "Strict", "PauseWhenEmpty"}

\* Events of request r that go to port p, in the order of the request.
ForPort(r, p) ==
  LET to[i \in 0..Len(r.events)] ==
        IF i = 0 THEN <<>>
        ELSE IF r.events[i].port = p THEN Append(to[i - 1], r.events[i])
        ELSE to[i - 1]
  IN  to[Len(r.events)]

\* What every request must satisfy, on both sides of the link.
ValidTimingEvents(r) ==
  /\ r.point.underflow_policy \in Policies
  /\ r.point.interval = 0 \/ r.point.underflow_policy # "Inherit"
  /\ Len(r.events) = Len(r.point.manifest)
  /\ Len(r.events) <= StagingCapacity
  /\ Len(r.point.synchronizations) <= StagingCapacity
  /\ Len(r.point.synchronizations) <= 1
  /\ \A i \in 1..Len(r.events) :
       /\ r.events[i].epoch = r.point.epoch
       /\ r.events[i].label = r.point.label
       /\ r.events[i].id # 0
       /\ r.events[i].id = r.point.manifest[i]
       /\ \A j \in 1..(i - 1) : r.events[j].id # r.events[i].id
       /\ r.events[i].port \in Ports
  /\ \A p \in Ports : /\ Len(ForPort(r, p)) <= FiringWidth
                      /\ Len(ForPort(r, p)) <= EventCapacity
=============================================================================
