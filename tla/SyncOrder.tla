----------------------------- MODULE SyncOrder -----------------------------
(***************************************************************************)
(* The same synchronizations simulated twice, with the cores of every edge *)
(* in registration order and in reverse (reverse_ of simulator.cpp).  What *)
(* a program observes must not depend on it.                               *)
(***************************************************************************)
EXTENDS Sync

\* The simulation in reverse order; the plan of an edge and its time are shared.
VARIABLES order_r, signals_r, pending_r, refused_r, met_r

Reversed(s) == [i \in 1..Len(s) |-> s[Len(s) + 1 - i]]

Backward == INSTANCE Sync WITH Orders <- {Reversed(o) : o \in Orders}, order <- order_r,
              signals <- signals_r, pending <- pending_r, refused <- refused_r, met <- met_r

forwardVars  == <<order, netVars>>
backwardVars == <<order_r, signals_r, pending_r, refused_r, met_r>>
bothVars     == <<vars, backwardVars>>

BothInit == Init /\ Backward!Init /\ order_r = Reversed(order)

\* A simulation that has failed takes no part in the rest of the edge.
CoreEdges ==
  /\ ~EdgeDone
  /\ turn' = turn + 1
  /\ \/ CoreEdge
     \/ refused # "None" /\ UNCHANGED <<forwardVars, plan, now>>
  /\ \/ Backward!CoreEdge
     \/ refused_r # "None" /\ UNCHANGED <<backwardVars, plan, now>>

BothNext ==
  \/ BeginEdge /\ Backward!BeginEdge
  \/ CoreEdges
  \/ ResetSession /\ Backward!ResetSession

BothSpec == BothInit /\ [][BothNext]_bothVars

\* After every edge both simulations have the same bookings, signals and
\* meetings, and one is refused exactly when the other is: the outcome of an
\* edge does not depend on the order in which Simulator::tcu_edge runs the cores.
OrderIndependent ==
  EdgeDone =>
    /\ (refused = "None") = (refused_r = "None")
    /\ refused = "None" =>
         /\ pending = pending_r
         /\ met = met_r
         /\ \A l \in Links : Occupying(signals[l], now + 1) = Occupying(signals_r[l], now + 1)
=============================================================================
