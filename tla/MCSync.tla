------------------------------- MODULE MCSync -------------------------------
(***************************************************************************)
(* Three cores in a row, simulated in both orders, for TLC.                *)
(***************************************************************************)
EXTENDS SyncOrder

\* Different delays in the two directions.
RowDelays ==
  [l \in {<<1, 2>>, <<2, 1>>, <<2, 3>>, <<3, 2>>} |-> IF l \in {<<1, 2>>, <<3, 2>>} THEN 2 ELSE 1]

\* The connection of cores 1 and 2 has a single slot in each direction.
RowCapacities == [l \in DOMAIN RowDelays |-> IF 3 \in {l[1], l[2]} THEN 2 ELSE 1]

Registered == {<<1, 2, 3>>}
=============================================================================
