------------------------------ MODULE MCKernel ------------------------------
(***************************************************************************)
(* Two cores with different clocks, for TLC.                               *)
(***************************************************************************)
EXTENDS Kernel

\* CPU edges at 0, 2, 4, ... and at 1, 4, 7, ...; TCU edges at 2, 6, 10, ...
CpuClocks == <<[period |-> 2, phase |-> 0], [period |-> 3, phase |-> 1]>>
SharedTcu == [period |-> 4, phase |-> 2]
=============================================================================
