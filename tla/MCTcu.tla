------------------------------- MODULE MCTcu -------------------------------
(***************************************************************************)
(* Small instances of the timing control unit for TLC.                     *)
(***************************************************************************)
EXTENDS TcuOpen

\* Time points without events: what remains is the timer.
NoEventChoices == {<<>>}

\* No event, or a conditional event and an unconditional one on two ports.
TwoPortChoices ==
  {<<>>,
   <<[port |-> 2, flag |-> "LastOne", target |-> 1],
     [port |-> 1, flag |-> "Always", target |-> 1]>>}

NoSyncChoices == {<<>>}
OneSyncChoices == {<<>>, <<1>>}
=============================================================================
