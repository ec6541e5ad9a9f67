--------------------------- MODULE MCControlPath ---------------------------
(***************************************************************************)
(* Small instances of the control path of one core for TLC.                *)
(***************************************************************************)
EXTENDS ControlPath

Op(command, arg) == [command |-> command, arg |-> arg]
Always(kind, port, target) == [kind |-> kind, port |-> port, target |-> target, flag |-> "Always"]

\* Codeword 1 drives a gate, 2 acquires qubit 1, 3 is a conditional gate.
CodewordMap ==
  <<<<Always("Gate", 1, 1)>>,
    <<Always("Acquire", 2, 1)>>,
    <<[Always("Gate", 1, 1) EXCEPT !.flag = "LastOne"]>>>>

TimingInstructions ==
  {Op("wait", 0), Op("wait", 1), Op("wait", 3), Op("sync", 1), Op("cw", <<1>>), Op("fmr", 1)}

FeedbackInstructions ==
  {Op("wait", 0), Op("wait", 2), Op("cw", <<3, 2>>), Op("cw", <<2>>), Op("fmr", 1)}

FastCpu == [period |-> 1, phase |-> 0]
SlowCpu == [period |-> 3, phase |-> 1]
TwoTickTcu == [period |-> 2, phase |-> 1]
=============================================================================
