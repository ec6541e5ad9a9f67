----------------------------- MODULE MCPipeline -----------------------------
(***************************************************************************)
(* All short programs of a small instruction set, for TLC.                 *)
(***************************************************************************)
EXTENDS Pipeline

Instruction(op, rd, rs1, rs2, imm) ==
  [op |-> op, rd |-> rd, rs1 |-> rs1, rs2 |-> rs2, imm |-> imm]

SkipLink  == Instruction("Jump", 1, 0, 0, 2)
SkipNext  == Instruction("Branch", 0, 1, 0, 2)
LoadWord  == Instruction("Load", 1, 1, 0, 0)
StoreWord == Instruction("Store", 0, 1, 2, 0)
Control   == Instruction("Quantum", 1, 1, 2, 0)
TwoLanes  == Instruction("Bundle", 0, 1, 2, 0)
Illegal   == Instruction("Illegal", 0, 0, 0, 0)
Ecall     == Instruction("Ecall", 0, 0, 0, 0)
SetExit   == Instruction("Alu", 2, 2, 0, 1)

\* Register 2 stands for a7.
ExitRegister == [register |-> 2, value |-> 1]

FreeInstructions == {SkipLink, SkipNext, LoadWord, StoreWord, Control, TwoLanes, Illegal}

\* An addition, some free instructions and the exit.
ProgramsWith(n) ==
  {<<SetExit>> \o body \o <<Ecall>> : body \in [1..n -> FreeInstructions]}

\* Without the addition, the environment call is no exit.
NoExitPrograms == {body \o <<Ecall>> : body \in [1..2 -> FreeInstructions]}

ShortPrograms == ProgramsWith(3) \cup NoExitPrograms

EveryOtherTick == [period |-> 2, phase |-> 1]
=============================================================================
