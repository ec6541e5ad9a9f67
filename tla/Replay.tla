------------------------------- MODULE Replay -------------------------------
(***************************************************************************)
(* Repeated programs without repeated control: the replay strategy of      *)
(* python/qsbit_backend/simulation.py.  A loop of fixed operations is run  *)
(* for three rounds with a recording backend; the recorded calls are split *)
(* at the ticks at which the loop's end retires, and any number of rounds  *)
(* is then produced by repeating the second group (replay_direct), or by   *)
(* sampling one table of transitions per measurement (sample_transitions). *)
(*                                                                         *)
(* The control run is the environment here.  It repeats its operations     *)
(* every Period ticks, as a program of positive waits and fetches does as  *)
(* long as no due tick moves; drift stands for what else could move them,  *)
(* in the first rounds or depending on the outcomes.                       *)
(***************************************************************************)
EXTENDS Integers, Sequences, FiniteSets, FiniteSetsExt, SequencesExt

CONSTANTS
  Bodies,         \* the loops: sequences of operations of one round
  Drifts,         \* ticks by which rounds 1, 2 and all later ones are late
  Start,          \* the tick of the first round
  Period,         \* validate_mappings: ticks of a round
  Lag,            \* ticks from the last result of a round to its loop end
  MaxRepetitions  \* bound on the repetitions

ASSUME ReplayAssumption ==
  /\ Period \in Nat \ {0} /\ Start \in Nat /\ Lag \in Nat \ {0}
  /\ \A body \in Bodies : \E i \in DOMAIN body : body[i].kind = "acquire"

VARIABLES
  body, drift,           \* the loop, and per outcome the drift of its rounds
  mode,                  \* quantum_execution
  repetitions,           \* how many rounds are asked for
  status,                \* how far the simulation is
  calls, groups, idle,   \* the recorded calls, split, and the final idle call or <<>>
  iteration,             \* replayed rounds
  identity,              \* the last measurement identity of the replay
  output                 \* what the backend was given: operations, or segments

vars == <<body, drift, mode, repetitions, status, calls, groups, idle,
          iteration, identity, output>>
inputs == <<body, drift, mode, repetitions>>

-----------------------------------------------------------------------------
(* A control run of a number of rounds with fixed outcomes.                *)

Acquires == {i \in DOMAIN body : body[i].kind = "acquire"}

\* The tick of round r (from 1) when all outcomes are o.
RoundTick(o, r) ==
  Start + (r - 1) * Period + drift[o][IF r > Len(drift[o]) THEN Len(drift[o]) ELSE r]

\* The k-th operation of the loop in round r; measurements are numbered as issued.
Operation(o, r, k) ==
  LET start == RoundTick(o, r) + body[k].offset
      end   == start + body[k].duration
  IN  [kind |-> body[k].kind, target |-> body[k].target, start |-> start, end |-> end,
       ready |-> end + body[k].delay,
       measurement |-> (r - 1) * Cardinality(Acquires) + Cardinality(Acquires \cap 1..k)]

Operations(o, n) == {Operation(o, r, k) : r \in 1..n, k \in DOMAIN body}

\* The loop end of round r retires after the results of the round are read.
EndTick(o, r) == Max({Operation(o, r, k).ready : k \in Acquires}) + Lag

\* The boundaries of the device: ticks with a start, an end or a result.
Boundaries(operations) ==
  {op.start : op \in operations} \cup {op.end : op \in operations}
    \cup {op.ready : op \in {x \in operations : x.kind = "acquire"}}

\* The elements of a set of ticks, or of records with a field, in order.
Sorted(S) == [i \in 1..Cardinality(S) |-> CHOOSE t \in S : Cardinality({u \in S : u < t}) = i - 1]
SortedOn(S, key(_)) ==
  [i \in 1..Cardinality(S) |->
     CHOOSE x \in S : Cardinality({y \in S : key(y) < key(x)}) = i - 1]

\* What the backend is given for the boundary at tick t, after that at tick from.
CallsAt(operations, from, t) ==
  LET active  == {op \in operations : op.kind = "acquire" /\ op.start <= from /\ op.end >= t}
      sampled == SortedOn({op \in operations : op.kind = "acquire" /\ op.end = t},
                          LAMBDA op : op.measurement)
      gates   == SortedOn({op \in operations : op.kind = "gate" /\ op.start = t},
                          LAMBDA op : op.target)
  IN  (IF t > from
         THEN <<[kind |-> "evolve", start |-> from, tick |-> t,
                 acquisitions |-> {[target |-> op.target, start |-> op.start, end |-> op.end,
                                    measurement |-> op.measurement] : op \in active}]>>
         ELSE <<>>)
      \o (IF sampled # <<>>
            THEN <<[kind |-> "measure", tick |-> t,
                    references |-> [i \in DOMAIN sampled |->
                       [target |-> sampled[i].target, measurement |-> sampled[i].measurement]]]>>
            ELSE <<>>)
      \o (IF gates # <<>>
            THEN <<[kind |-> "apply", tick |-> t, gates |-> [i \in DOMAIN gates |-> gates[i].target]]>>
            ELSE <<>>)

\* The run stops once the last loop end has retired and the device is idle.
StopTick(o, n) == Max(Boundaries(Operations(o, n)) \cup {EndTick(o, n)}) + Lag

\* All calls of a run of n rounds, with the evolution to the stop tick.
FullRun(o, n) ==
  LET operations == Operations(o, n)
      ticks == Sorted(Boundaries(operations) \cup {StopTick(o, n)})
      from(i) == IF i = 1 THEN 0 ELSE ticks[i - 1]
      at == [i \in DOMAIN ticks |-> CallsAt(operations, from(i), ticks[i])]
  IN  FoldLeft(LAMBDA x, y : x \o y, <<>>, at)

-----------------------------------------------------------------------------
(* normalized and partition.                                               *)

\* normalized: a call without identities, shifted back.
Normalized(call, shift) ==
  CASE call.kind = "evolve" ->
         [kind |-> "evolve", start |-> call.start - shift, tick |-> call.tick - shift,
          acquisitions |-> {[target |-> a.target, start |-> a.start - shift, end |-> a.end - shift] :
                              a \in call.acquisitions}]
    [] call.kind = "measure" ->
         [kind |-> "measure", tick |-> call.tick - shift,
          references |-> [i \in DOMAIN call.references |-> call.references[i].target]]
    [] call.kind = "apply" -> [call EXCEPT !.tick = @ - shift]
NormalizedAll(list, shift) == [i \in DOMAIN list |-> Normalized(list[i], shift)]

Rounds == 3
Ends(o) == [r \in 1..Rounds |-> EndTick(o, r)]

\* bisect_left: the group of a tick, one more than there are if it is after all ends.
GroupOf(ends, tick) == Cardinality({i \in DOMAIN ends : ends[i] < tick}) + 1

\* After the last loop end there is at most the evolution to the stop tick.
OnlyIdleAfter(list, ends, stop) ==
  \A i \in DOMAIN list :
    GroupOf(ends, list[i].tick) > Len(ends) =>
      i = Len(list) /\ list[i].kind = "evolve" /\ list[i].tick = stop

\* An operation ends in the group in which it starts.
NoneCrosses(operations, ends) ==
  \A op \in operations : LET g == GroupOf(ends, op.start) IN g <= Len(ends) /\ op.end <= ends[g]

GroupsOf(list, ends) ==
  [g \in DOMAIN ends |-> SelectSeq(list, LAMBDA c : GroupOf(ends, c.tick) = g)]
IdleOf(list, ends) == SelectSeq(list, LAMBDA c : GroupOf(ends, c.tick) > Len(ends))

-----------------------------------------------------------------------------
(* Control runs and checks of _execute.                                    *)

\* control_run with all outcomes zero, and partition.
ControlRun ==
  /\ status = "New"
  /\ \E list \in {FullRun(FALSE, Rounds)} : \E ends \in {Ends(FALSE)} :
       /\ calls' = list
       /\ groups' = GroupsOf(list, ends)
       /\ idle' = IdleOf(list, ends)
       /\ status' = IF /\ OnlyIdleAfter(list, ends, StopTick(FALSE, Rounds))
                       /\ NoneCrosses(Operations(FALSE, Rounds), ends)
                       /\ \A g \in DOMAIN ends : GroupsOf(list, ends)[g] # <<>>
                      THEN "Partitioned" ELSE "Refused"
  /\ UNCHANGED <<inputs, iteration, identity, output>>

\* The second and third rounds are the same, and a run with all outcomes one
\* differs in nothing.
CheckRun ==
  /\ status = "Partitioned"
  /\ \E one \in {FullRun(TRUE, Rounds)} :
       status' = IF /\ NormalizedAll(groups[2], Period) = NormalizedAll(groups[3], 2 * Period)
                    /\ NormalizedAll(calls, 0) = NormalizedAll(one, 0)
                    /\ StopTick(FALSE, Rounds) = StopTick(TRUE, Rounds)
                    /\ Ends(FALSE) = Ends(TRUE)
                   THEN "Replaying" ELSE "Refused"
  /\ UNCHANGED <<inputs, calls, groups, idle, iteration, identity, output>>

-----------------------------------------------------------------------------
(* replay_direct.                                                          *)

\* The measurements of a group in the order in which they are sampled.
SampledIn(list) ==
  FoldLeft(LAMBDA x, c : IF c.kind # "measure" THEN x
                         ELSE x \o [i \in DOMAIN c.references |->
                                      c.references[i].measurement],
           <<>>, list)

\* A call shifted in time, its measurements renumbered.
Shifted(call, shift, identities) ==
  CASE call.kind = "evolve" ->
         [call EXCEPT !.start = @ + shift, !.tick = @ + shift,
                      !.acquisitions = {[a EXCEPT !.start = @ + shift, !.end = @ + shift,
                                                  !.measurement = identities[@]] : a \in @}]
    [] call.kind = "measure" ->
         [call EXCEPT !.tick = @ + shift,
                      !.references = [i \in DOMAIN @ |->
                                        [@[i] EXCEPT !.measurement = identities[@]]]]
    [] call.kind = "apply" -> [call EXCEPT !.tick = @ + shift]

\* Mutation of ShiftOf: every round counts, the recorded second one too.
ShiftOf_EveryRound(i) == i * Period

\* The ticks by which round i (from 0) is after the recorded group it repeats.
ShiftOf(i) == IF i = 0 THEN 0 ELSE (i - 1) * Period

\* One round.  The recorded batches only group the calls, which stay in order.
ReplayRound ==
  /\ status = "Replaying" /\ mode = "direct"
  /\ iteration < repetitions
  /\ LET group   == IF iteration = 0 THEN groups[1] ELSE groups[2]
         sampled == SampledIn(group)
         identities == [m \in Range(sampled) |->
                          identity + CHOOSE i \in DOMAIN sampled : sampled[i] = m]
     IN  /\ output' = output \o [i \in DOMAIN group |->
                                   Shifted(group[i], ShiftOf(iteration), identities)]
         /\ identity' = identity + Len(sampled)
  /\ iteration' = iteration + 1
  /\ UNCHANGED <<inputs, status, calls, groups, idle>>

\* The evolution to the stop tick of the last round.
ReplayIdle ==
  /\ status = "Replaying" /\ mode = "direct"
  /\ iteration = repetitions
  /\ output' = IF idle = <<>> THEN output
               ELSE LET shift == (repetitions - Rounds) * Period
                        call  == idle[1]
                    IN  Append(output, [kind |-> "evolve", start |-> call.start + shift,
                                        tick |-> call.tick + shift, acquisitions |-> {}])
  /\ status' = "Done"
  /\ UNCHANGED <<inputs, calls, groups, idle, iteration, identity>>

-----------------------------------------------------------------------------
(* sample_transitions.                                                     *)

\* pending with one more call, its ticks counted from the last measurement.
Extended(pending, call) ==
  LET from == IF pending = <<>> THEN 0 ELSE pending[Len(pending)].tick
  IN  Append(pending,
             IF call.kind = "evolve"
               THEN [kind |-> "evolve", start |-> from, tick |-> from + (call.tick - call.start)]
               ELSE [kind |-> "apply", tick |-> from, gates |-> call.gates])

\* What the tables of a list of calls are computed from: the segments that end
\* with a measurement, and the segment that is still open.
Segments(pending, list) ==
  FoldLeft(LAMBDA x, call :
             IF call.kind = "measure"
               THEN [closed |-> Append(x.closed, x.open), open |-> <<>>]
               ELSE [x EXCEPT !.open = Extended(@, call)],
           [closed |-> <<>>, open |-> pending], list)

\* One round: the first table, then the second one again and again.  Only a
\* profile of a single qubit (target 0) is accepted.
SampleTransitions ==
  /\ status = "Replaying" /\ mode = "transitions"
  /\ IF \E i \in DOMAIN body : body[i].target # 0
       THEN /\ status' = "Refused"
            /\ UNCHANGED <<iteration, output>>
       ELSE LET first  == Segments(<<>>, groups[1])
                steady == Segments(first.open, groups[2])
            IN  /\ iteration' = iteration + 1
                /\ output' = output \o (IF iteration = 0 THEN first ELSE steady).closed
                /\ status' = IF iteration + 1 = repetitions THEN "Done" ELSE status
  /\ UNCHANGED <<inputs, calls, groups, idle, identity>>

-----------------------------------------------------------------------------
Init ==
  /\ body \in Bodies
  /\ drift \in [BOOLEAN -> Drifts]
  /\ mode \in {"direct", "transitions"}
  /\ repetitions \in 1..MaxRepetitions
  /\ status = "New"
  /\ calls = <<>> /\ groups = <<>> /\ idle = <<>>
  /\ iteration = 0
  /\ identity = 0
  /\ output = <<>>

Done == status \in {"Done", "Refused"} /\ UNCHANGED vars

Next ==
  \/ ControlRun
  \/ CheckRun
  \/ ReplayRound
  \/ ReplayIdle
  \/ SampleTransitions
  \/ Done

Spec == Init /\ [][Next]_vars

-----------------------------------------------------------------------------
(* Properties.                                                             *)

\* The calls of a full run, measurements numbered in the order of sampling.
Renumbered(list) ==
  LET sampled == SampledIn(list)
      identities == [m \in Range(sampled) |-> CHOOSE i \in DOMAIN sampled : sampled[i] = m]
  IN  [i \in DOMAIN list |-> Shifted(list[i], 0, identities)]

\* A replay that is not refused gives the backend exactly what a full run of all
\* repetitions would have given it, for fewer rounds than were recorded as well
\* as for more (simulation.py replay_direct): the same evolutions without gap or
\* overlap, the same gates and samples, each acquisition with the identity of
\* its measurement.  Sampling from tables (sample_transitions) uses, for each
\* measurement of the full run, the operations since the measurement before it.
ReplaysFullRun ==
  status = "Done" =>
    \A o \in BOOLEAN :
      output = IF mode = "direct" THEN Renumbered(FullRun(o, repetitions))
               ELSE Segments(<<>>, FullRun(o, repetitions)).closed
=============================================================================
