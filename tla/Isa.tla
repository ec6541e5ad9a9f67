--------------------------------- MODULE Isa ---------------------------------
(***************************************************************************)
(* What a program means: one instruction after the other.  This is the     *)
(* specification that the pipelined core is shown to implement; it has the *)
(* architectural state only.                                               *)
(***************************************************************************)
EXTENDS Instructions

VARIABLES
  program,     \* the instructions, a function of the program counter
  registers, pc, memory,
  halted,      \* the exit has been executed
  operations   \* the control operations issued, with their operands

isaVars == <<program, registers, pc, memory, halted, operations>>

-----------------------------------------------------------------------------
\* The instruction at pc is executed.
Execute ==
  /\ ~halted
  /\ InstructionFault(program, pc, registers) = "None"
  /\ LET i   == program[pc]
         lhs == registers[i.rs1]
         rhs == registers[i.rs2]
         results == CASE i.op = "Load" -> {memory[lhs]}
                      [] i.op = "Quantum" -> Replies
                      [] OTHER -> {ResultOf(i, pc, lhs, rhs)}
     IN  /\ pc' = NextPc(i, pc, lhs, rhs)
         /\ \E value \in results :
              registers' = IF WritesRd(i) THEN WriteRegister(registers, i.rd, value) ELSE registers
         /\ memory' = IF i.op = "Store" THEN [memory EXCEPT ![lhs] = rhs] ELSE memory
         /\ operations' = operations
                            \o [lane \in 1..Lanes(i) |-> OperationOf(pc, lane, lhs, rhs)]
         /\ halted' = (i.op = "Ecall")
  /\ UNCHANGED program

\* A session reset starts the program again and keeps the memory.  A store that
\* was under way may have reached the memory, and the lanes of a bundle may have
\* been issued in part; the operations of the new session are counted anew.
Restart ==
  /\ registers' = ZeroRegisters
  /\ pc' = Entry
  /\ halted' = FALSE
  /\ operations' = <<>>
  /\ \/ UNCHANGED memory
     \/ /\ ~halted
        /\ InstructionFault(program, pc, registers) = "None"
        /\ program[pc].op = "Store"
        /\ memory' = [memory EXCEPT ![registers[program[pc].rs1]] = registers[program[pc].rs2]]
  /\ UNCHANGED program

IsaInit ==
  /\ registers = ZeroRegisters
  /\ pc = Entry
  /\ halted = FALSE
  /\ operations = <<>>

IsaSpec == IsaInit /\ [][Execute \/ Restart]_isaVars
=============================================================================
