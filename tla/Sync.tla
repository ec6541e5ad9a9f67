-------------------------------- MODULE Sync --------------------------------
(***************************************************************************)
(* Neighbour synchronization: the synchronization units of all cores and   *)
(* the network between them, at the TCU edges of the simulator.            *)
(*                                                                         *)
(* Simulator::tcu_edge runs the cores one after the other, in registration *)
(* order or in reverse (reverse_); a core first steps its unit and then,   *)
(* if its timer is not paused, may trigger a point that books a            *)
(* synchronization (Core::tcu_edge).  Which points are due is the          *)
(* environment's choice: plan says which core books with whom.             *)
(***************************************************************************)
EXTENDS Integers, Sequences, SyncUnit, SyncNetwork

CONSTANTS
  Cores,         \* the cores
  Delay,         \* delay of each directional link <<source, target>>, in edges
  LinkCapacity,  \* signals each directional link can hold
  Orders,        \* the orders in which an edge may run the cores
  MaxEdge        \* bound on the edges

ASSUME SyncAssumption ==
  /\ DOMAIN Delay \subseteq Cores \X Cores
  /\ \A l \in DOMAIN Delay : /\ l[1] # l[2]
                             /\ <<l[2], l[1]>> \in DOMAIN Delay
                             /\ Delay[l] \in Nat \ {0}
  /\ LinkCapacity \in [DOMAIN Delay -> Nat \ {0}]
  /\ \A o \in Orders : /\ o \in Seq(Cores)
                       /\ \A c \in Cores : \E i \in 1..Len(o) :
                            o[i] = c /\ \A j \in 1..Len(o) : o[j] = c => j = i

VARIABLES
  signals,  \* the links of the network
  pending,  \* the unit of each core: <<>> or its booking
  order,    \* the order of the cores, fixed for a simulation
  turn,     \* position of the core that runs next within the edge
  plan,     \* per core, the targets of the point due at this edge
  now,      \* the current edge
  refused   \* the check that failed, or "None"

\* History: per link <<core, target>> the meetings of core with target, each
\* with the edge at which it completed and the deadline of its booking.
VARIABLE met

netVars  == <<signals, pending, refused, met>>
edgeVars == <<order, turn, plan, now>>
vars     == <<netVars, edgeVars>>

Links == DOMAIN Delay
Neighbours(c) == {t \in Cores : <<c, t>> \in Links}
Plans == {p \in [Cores -> {<<>>} \cup {<<t>> : t \in Cores}] :
            \A c \in Cores : p[c] = <<>> \/ p[c][1] \in Neighbours(c)}
EdgeDone == turn > Len(order)

\* Simulator::tcu_edge begins: every core has some point due, or none.
BeginEdge ==
  /\ EdgeDone
  /\ refused = "None"
  /\ now < MaxEdge
  /\ now' = now + 1
  /\ turn' = 1
  /\ plan' \in Plans
  /\ UNCHANGED <<netVars, order>>

\* SyncUnit::step of core c: the network after receive, and the unit after it.
Heard(c) ==
  IF Listens(pending[c])
    THEN [signals EXCEPT ![<<pending[c][1].target, c>>] = Receive(@, now)]
    ELSE signals
Stepped(c) ==
  StepUnit(pending[c],
           Listens(pending[c]) /\ Receivable(signals[<<pending[c][1].target, c>>], now) # {},
           now)

\* The targets of the point that core c triggers: none while it is paused.
Wanted(c) == IF Stepped(c).paused THEN <<>> ELSE plan[c]

\* SyncUnit::preflight.
BookFault(c) ==
  IF Wanted(c) = <<>> THEN "None"
  ELSE IF Overlaps(Stepped(c).unit, Wanted(c)) THEN "SyncOverlap"
  ELSE IF Len(Occupying(Heard(c)[<<c, Wanted(c)[1]>>], now)) >= LinkCapacity[<<c, Wanted(c)[1]>>]
    THEN "SyncCapacity"
  ELSE "None"

\* The step and the booking of core c, and the meeting it may complete.
Serve(c) ==
  /\ signals' = IF Wanted(c) = <<>> THEN Heard(c)
                ELSE LET out == <<c, Wanted(c)[1]>>
                     IN  [Heard(c) EXCEPT ![out] = Send(@, Delay[out], now)]
  /\ pending' = [pending EXCEPT ![c] =
                   IF Wanted(c) = <<>> THEN Stepped(c).unit
                   ELSE <<BookingOf(Wanted(c)[1], now + Delay[<<c, Wanted(c)[1]>>])>>]
  /\ met' = IF Stepped(c).completed
              THEN [met EXCEPT ![<<c, pending[c][1].target>>] =
                      Append(@, [tick |-> now, deadline |-> pending[c][1].deadline])]
              ELSE met

\* Core::tcu_edge of the core whose turn it is; a failed check ends the run.
CoreEdge ==
  /\ ~EdgeDone
  /\ refused = "None"
  /\ refused' = BookFault(order[turn])
  /\ IF BookFault(order[turn]) = "None" THEN Serve(order[turn])
     ELSE UNCHANGED <<signals, pending, met>>
  /\ turn' = turn + 1
  /\ UNCHANGED <<order, plan, now>>

\* Simulator::reset_at: SyncNetwork::reset and SyncUnit::reset.  The edge of a
\* reset's own tick is skipped.
ResetSession ==
  /\ EdgeDone
  /\ refused = "None"
  /\ signals' = [l \in Links |-> <<>>]
  /\ pending' = [c \in Cores |-> <<>>]
  /\ met' = [l \in Links |-> <<>>]
  /\ now' \in {now, now + 1} /\ now' <= MaxEdge
  /\ UNCHANGED <<order, turn, plan, refused>>

Init ==
  /\ signals = [l \in Links |-> <<>>]
  /\ pending = [c \in Cores |-> <<>>]
  /\ met = [l \in Links |-> <<>>]
  /\ order \in Orders
  /\ turn = Len(order) + 1
  /\ plan = [c \in Cores |-> <<>>]
  /\ now = 0
  /\ refused = "None"

Next == BeginEdge \/ CoreEdge \/ ResetSession

Spec == Init /\ [][Next]_vars

-----------------------------------------------------------------------------
(* Properties.                                                             *)

Later(a, b) == IF a >= b THEN a ELSE b
Settled == EdgeDone /\ refused = "None"
PendingWith(a, b) == pending[a] # <<>> /\ pending[a][1].target = b

\* Both partners of the k-th synchronization on a connection complete it on the
\* same edge, the later of their two deadlines: max(B0 + L0, B1 + L1), whichever
\* books first, however the signals cross and whatever the order of the cores.
PartnersMeetAtLaterDeadline ==
  Settled =>
    \A l \in Links :
      LET mine == met[l] theirs == met[<<l[2], l[1]>>]
      IN  /\ Len(mine) = Len(theirs)
          /\ \A k \in 1..Len(mine) :
               /\ mine[k].tick = theirs[k].tick
               /\ mine[k].tick = Later(mine[k].deadline, theirs[k].deadline)

\* Two cores that have booked with each other never wait past the later of
\* their deadlines: no signal of SyncNetwork is lost or taken by another booking.
MutualBookingsComplete ==
  Settled =>
    \A l \in Links :
      (PendingWith(l[1], l[2]) /\ PendingWith(l[2], l[1])) =>
        now < Later(pending[l[1]][1].deadline, pending[l[2]][1].deadline)

\* When no unit waits, every signal has been consumed: Simulator::barrier, which
\* asks for both, is not kept from completing by a signal that nobody will take.
IdleUnitsLeaveNoSignal ==
  (Settled /\ \A c \in Cores : pending[c] = <<>>) => \A l \in Links : LinkEmpty(signals[l])

\* Links with two slots are never full: a core can be at most one signal ahead
\* of its partner, and a slot consumed on an edge is free on the next.
TwoSlotsSuffice ==
  (~EdgeDone /\ refused = "None") =>
    LET c == order[turn]
    IN  BookFault(c) = "SyncCapacity" => LinkCapacity[<<c, Wanted(c)[1]>>] < 2
=============================================================================
