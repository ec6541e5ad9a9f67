--------------------------- MODULE ExecutionFlags ---------------------------
(***************************************************************************)
(* The execution-flag registers of a TCU (class ExecutionFlags of          *)
(* feedback.cpp), as operators on a function from qubits to registers.     *)
(* The TCU holds the registers; a completion updates one of them, and a    *)
(* conditional event reads one of them when its time point triggers.       *)
(***************************************************************************)
EXTENDS Naturals, Sequences

\* The execution conditions of an event.
ExecutionFlag == {"Always", "LastOne", "LastZero", "Equal"}

\* A measurement result: which reservation it answers and the bit it found.
CompletionOf(reference, value) == [reference |-> reference, value |-> value]

ClearRegister ==
  [last_measurement |-> 0, last_one |-> FALSE, last_zero |-> FALSE, equal |-> FALSE]

\* The condition of an event on its register.
Evaluate(register, flag) ==
  \/ flag = "Always"
  \/ flag = "LastOne" /\ register.last_one
  \/ flag = "LastZero" /\ register.last_zero
  \/ flag = "Equal" /\ register.equal

\* The results for qubit q among those of one edge.
ResultsFor(results, q) == SelectSeq(results, LAMBDA r : r.reference.target = q)

\* Each register must see increasing measurement ids.
FlagsFault(flags, results) ==
  \E q \in DOMAIN flags :
    LET list == ResultsFor(results, q)
    IN  \E i \in 1..Len(list) :
          list[i].reference.measurement <=
            IF i = 1 THEN flags[q].last_measurement ELSE list[i - 1].reference.measurement

\* Mutation of RegisterAfter: the first result of an edge wins.
RegisterAfter_FirstResult(register, list) ==
  IF Len(list) = 0 THEN register
  ELSE [last_measurement |-> list[Len(list)].reference.measurement,
        last_one  |-> list[1].value,
        last_zero |-> ~list[1].value,
        equal     |-> register.last_measurement # 0 /\ register.last_one = list[1].value]

\* A register after the results for it, in order: the last one, and whether
\* it repeats the one before it, if there was one.
RegisterAfter(register, list) ==
  LET n == Len(list)
  IN  IF n = 0 THEN register
      ELSE [last_measurement |-> list[n].reference.measurement,
            last_one  |-> list[n].value,
            last_zero |-> ~list[n].value,
            equal     |-> IF n > 1 THEN list[n - 1].value = list[n].value
                          ELSE /\ register.last_measurement # 0
                               /\ register.last_one = list[n].value]

FlagsAfter(flags, results) ==
  [q \in DOMAIN flags |-> RegisterAfter(flags[q], ResultsFor(results, q))]
=============================================================================
