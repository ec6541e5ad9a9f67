------------------------ MODULE MeasurementRegisters ------------------------
(***************************************************************************)
(* The measurement registers of a core: class MeasurementRegisters of      *)
(* feedback.cpp, as operators on a record.  A reservation is made before   *)
(* an acquisition is queued; it is released when the result reaches the    *)
(* register (and, with fast feedback, when the TCU's credit comes back).   *)
(***************************************************************************)
EXTENDS Integers, Sequences, FiniteSets

CONSTANTS
  RegisterQubits,   \* qubits with a measurement register
  ResultCapacity,   \* result_capacity: results in flight per path
  FastFeedback      \* fast_feedback: results also go to the TCU

ASSUME RegisterAssumption ==
  /\ ResultCapacity \in Nat \ {0}
  /\ FastFeedback \in BOOLEAN

ClearRegisters ==
  [pending |-> [q \in RegisterQubits |-> 0], value |-> [q \in RegisterQubits |-> FALSE],
   references |-> {}, fast_references |-> {}, next_measurement |-> 1]

HasCapacity(mr, count) ==
  /\ count <= ResultCapacity - Cardinality(mr.references)
  /\ FastFeedback => count <= ResultCapacity - Cardinality(mr.fast_references)

\* The references of a reservation for the targets, in order.
ReservationFor(mr, epoch, targets) ==
  [i \in 1..Len(targets) |->
     [epoch |-> epoch, measurement |-> mr.next_measurement + i - 1, target |-> targets[i]]]

Reserve(mr, references) ==
  LET new == {references[i] : i \in 1..Len(references)}
  IN  [mr EXCEPT
        !.references = @ \cup new,
        !.fast_references = IF FastFeedback THEN @ \cup new ELSE @,
        !.pending = [q \in RegisterQubits |-> @[q] + Cardinality({f \in new : f.target = q})],
        !.next_measurement = @ + Len(references)]

\* The results of one edge, delivered in order.  Each must answer a pending
\* reservation that is the oldest of its target at that moment.
DeliverFault(mr, results) ==
  LET left(i) == mr.references \ {results[j].reference : j \in 1..(i - 1)}
  IN  IF \E i \in 1..Len(results) : results[i].reference \notin left(i)
        THEN "DuplicateResult"
      ELSE IF \E i \in 1..Len(results) : \E f \in left(i) :
                /\ f.target = results[i].reference.target
                /\ f.measurement < results[i].reference.measurement
        THEN "ResultOutOfOrder"
      ELSE "None"

\* A register keeps the last of the results delivered to it.
Deliver(mr, results) ==
  LET for(q) == {i \in 1..Len(results) : results[i].reference.target = q}
      last(q) == CHOOSE i \in for(q) : \A j \in for(q) : j <= i
  IN  [mr EXCEPT
        !.value = [q \in RegisterQubits |->
                     IF for(q) = {} THEN @[q] ELSE results[last(q)].value],
        !.pending = [q \in RegisterQubits |-> @[q] - Cardinality(for(q))],
        !.references = @ \ {results[i].reference : i \in 1..Len(results)}]

\* The credits of one edge.
AcknowledgeFault(mr, credits) ==
  IF \E i \in 1..Len(credits) :
       credits[i] \notin mr.fast_references \ {credits[j] : j \in 1..(i - 1)}
    THEN "UnknownCredit" ELSE "None"

\* Mutation of AcknowledgeFast: of several credits only the first counts.
AcknowledgeFast_OnlyFirst(mr, credits) ==
  [mr EXCEPT !.fast_references = @ \ {credits[i] : i \in 1..(IF credits = <<>> THEN 0 ELSE 1)}]

AcknowledgeFast(mr, credits) ==
  [mr EXCEPT !.fast_references = @ \ {credits[i] : i \in 1..Len(credits)}]

\* Mutation of ReadRegister: a pending measurement does not block the read.
ReadRegister_Unguarded(mr, q) == <<mr.value[q]>>

\* The register is readable once no measurement of the qubit is pending.
ReadRegister(mr, q) == IF mr.pending[q] # 0 THEN <<>> ELSE <<mr.value[q]>>

DeliveriesPending(mr) == mr.references # {} \/ mr.fast_references # {}
=============================================================================
