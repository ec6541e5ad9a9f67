---------------------------- MODULE Instructions ----------------------------
(***************************************************************************)
(* Instructions and their effects: evaluate of isa.cpp, reduced to the     *)
(* kinds that the pipeline tells apart.                                    *)
(*                                                                         *)
(* An instruction is a record [op, rd, rs1, rs2, imm].  Program counters   *)
(* count instructions, and a branch adds imm; memory and registers hold    *)
(* values modulo Modulus.                                                  *)
(***************************************************************************)
EXTENDS Integers, Sequences

CONSTANTS
  Registers,  \* register numbers, 0 among them
  Modulus,    \* values are 0..Modulus - 1
  Addresses,  \* the addresses that data may be read from and written to
  Entry,      \* the first instruction
  ExitCall,   \* the register a7 and the value that make an ecall an exit
  Replies     \* the values a control operation may return

Values == 0..(Modulus - 1)

ASSUME IsaAssumption ==
  /\ 0 \in Registers /\ ExitCall.register \in Registers
  /\ Modulus \in Nat \ {0}
  /\ Addresses \subseteq Values
  /\ Replies \subseteq Values
  /\ Entry \in Int

\* What decode tells apart.
Kinds == {"Alu", "Jump", "Branch", "Load", "Store", "Quantum", "Bundle", "Ecall", "Illegal"}

InstructionSet ==
  [op : Kinds, rd : Registers, rs1 : Registers, rs2 : Registers, imm : Int]

ZeroRegisters == [r \in Registers |-> 0]

-----------------------------------------------------------------------------
(* The effect of an instruction on its operands.                           *)

IsTaken(i, lhs, rhs) == i.op = "Jump" \/ (i.op = "Branch" /\ lhs # rhs)
ResultOf(i, at, lhs, rhs) == (IF i.op = "Jump" THEN at + 1 ELSE lhs + rhs + i.imm) % Modulus
NextPc(i, at, lhs, rhs) == IF IsTaken(i, lhs, rhs) THEN at + i.imm ELSE at + 1

\* A quantum operation without a reply is one whose rd is 0.
WritesRd(i) == i.op \in {"Alu", "Jump", "Load", "Quantum"}

Lanes(i) == IF i.op = "Bundle" THEN 2 ELSE IF i.op = "Quantum" THEN 1 ELSE 0
OperationOf(at, lane, lhs, rhs) == [pc |-> at, lane |-> lane, lhs |-> lhs, rhs |-> rhs]

\* Register 0 always reads as zero.
WriteRegister(file, r, value) == IF r = 0 THEN file ELSE [file EXCEPT ![r] = value]

IsExit(file) == file[ExitCall.register] = ExitCall.value

\* Why the instruction at a program counter cannot be executed, or "None".
InstructionFault(code, at, file) ==
  IF at \notin DOMAIN code THEN "InstructionAccess"
  ELSE LET i == code[at]
       IN  CASE i.op = "Illegal" -> "IllegalInstruction"
             [] i.op = "Ecall" /\ ~IsExit(file) -> "EnvironmentCall"
             [] i.op = "Load" /\ file[i.rs1] \notin Addresses -> "LoadAccess"
             [] i.op = "Store" /\ file[i.rs1] \notin Addresses -> "StoreAccess"
             [] OTHER -> "None"
=============================================================================
