-------------------------------- MODULE Tcu --------------------------------
(***************************************************************************)
(* The timing control unit of one core: class TcuCycleModel of tcu.cpp.    *)
(* It keeps the timing queue, one event queue per port, the execution      *)
(* flags and the timer, and takes one step per TCU clock edge.             *)
(*                                                                         *)
(* Time is counted in TCU edges.  After a reset start_, every edge and     *)
(* paused_ticks_ differ by whole TCU periods, so dividing a difference of  *)
(* ticks by the period is exact and is a difference of edge numbers here.  *)
(*                                                                         *)
(* Every check of a step precedes every assignment of it, so a step that   *)
(* fails a check changes nothing and leaves its reason in fault.           *)
(***************************************************************************)
EXTENDS Integers, Sequences, FiniteSets, ExecutionFlags, ControlProtocol

CONSTANTS
  Qubits,           \* qubits with an execution-flag register
  TimingCapacity,   \* slots of the timing queue
  SyncCapacity      \* slots of the synchronization queue

ASSUME CapacityAssumption ==
  /\ TimingCapacity \in Nat \ {0}
  /\ SyncCapacity \in Nat \ {0}

VARIABLES
  timing,            \* timing_: queue of [point, due]
  events,            \* events_: per port, queue of operation events
  flags,             \* execution_flags_
  start,             \* start_: the edge at which the timer starts
  paused,            \* paused_ticks_, in edges
  sync_size,         \* sync_size_: synchronizations in the timing queue
  last_label,        \* last_label_ admitted
  last_due,          \* last_due_ admitted
  closed,            \* closed_: the stream has ended
  admitted_policy,   \* admitted_policy_: policy after the last admitted point
  triggered_policy,  \* triggered_policy_: policy after the last triggered point
  output,            \* the TcuOutput of the last step
  fault              \* the check that failed, or "None"

queueVars  == <<timing, events, sync_size, last_label, last_due>>
policyVars == <<admitted_policy, triggered_policy>>
tcuVars    == <<queueVars, policyVars, flags, start, paused, closed, output, fault>>

NoOutput ==
  [admitted |-> FALSE, launch |-> <<>>, cancelled |-> <<>>,
   synchronizations |-> <<>>, fast_delivered |-> <<>>]

-----------------------------------------------------------------------------
(* Underflow policies.                                                     *)

\* The underflow policy in force after a point.
PolicyAfter(point, previous) ==
  IF point.underflow_policy = "Inherit" THEN previous ELSE point.underflow_policy

-----------------------------------------------------------------------------
(* The timer.                                                              *)

\* The timer cycle of the edge now: elapsed edges less the paused ones.
Cycle(now) == IF now >= start THEN now - start - paused ELSE 0

\* What a step knows of the timer when it begins.
CurrentTimingState(now, sync_paused) ==
  [running |-> now >= start,
   cycle   |-> Cycle(now),
   instruction_supply |-> /\ now >= start
                          /\ triggered_policy = "PauseWhenEmpty"
                          /\ timing = <<>>
                          /\ ~closed,
   synchronization |-> now >= start /\ sync_paused]

IsPaused(state) == state.instruction_supply \/ state.synchronization

-----------------------------------------------------------------------------
(* Triggering the head of the timing queue.                                *)

\* Mutation of Triggers: the comparison of due cycles is strict.
Triggers_AfterDue(state) ==
  /\ state.running
  /\ ~IsPaused(state)
  /\ timing # <<>>
  /\ Head(timing).due < state.cycle

\* Mutation of Triggers: a synchronization does not hold the trigger back.
Triggers_WhilePaused(state) ==
  /\ state.running
  /\ ~state.instruction_supply
  /\ timing # <<>>
  /\ Head(timing).due <= state.cycle

\* The step triggers the head unless one of the early returns applies.
Triggers(state) ==
  /\ state.running
  /\ ~IsPaused(state)
  /\ timing # <<>>
  /\ Head(timing).due <= state.cycle

\* The number of events with the given label at the front of a port queue.
FrontRun(queue, label) ==
  Cardinality({i \in 1..Len(queue) : \A j \in 1..i : queue[j].label = label})

\* The positions <<port, index>> of the events gathered for a label.
GatheredAt(label) ==
  {x \in Ports \X (1..EventCapacity) : x[2] <= FrontRun(events[x[1]], label)}

\* The ids of the events gathered for a label.
GatheredIds(label) == {events[x[1]][x[2]].id : x \in GatheredAt(label)}

\* The port queues hold exactly the events that the head's manifest lists.
ManifestHolds(epoch) ==
  LET label    == Head(timing).point.label
      manifest == Head(timing).point.manifest
      ids      == GatheredIds(label)
  IN  /\ \A p \in Ports : events[p] = <<>> \/ Head(events[p]).label >= label
      /\ \A x \in GatheredAt(label) : events[x[1]][x[2]].epoch = epoch
      /\ Cardinality(ids) = Cardinality(GatheredAt(label))
      /\ Cardinality(ids) = Len(manifest)
      /\ \A i \in 1..Len(manifest) : manifest[i] \in ids

\* The gathered events in manifest order.
Manifested ==
  LET label == Head(timing).point.label
      at(id) == CHOOSE x \in GatheredAt(label) : events[x[1]][x[2]].id = id
  IN  [i \in 1..Len(Head(timing).point.manifest) |->
         LET x == at(Head(timing).point.manifest[i]) IN events[x[1]][x[2]]]

\* An event runs when its condition holds of the flags at the start of the edge.
ConditionHolds(event) == Evaluate(flags[event.target], event.flag)

\* The batch that is launched and the events that are cancelled.
LaunchBatch == SelectSeq(Manifested, ConditionHolds)
CancelledBatch == SelectSeq(Manifested, LAMBDA e : ~ConditionHolds(e))

\* refusal is the answer of the device and synchronization preflights.
TriggerFault(epoch, state, refusal) ==
  IF ~Triggers(state) THEN "None"
  ELSE IF Head(timing).due # state.cycle THEN "MissedFiringEdge"
  ELSE IF ~ManifestHolds(epoch) THEN "ManifestMismatch"
  ELSE refusal

-----------------------------------------------------------------------------
(* Admitting a request into the queues.                                    *)

\* Mutation of DueOf: a zero interval is not widened to one cycle.
DueOf_ZeroInterval(r) == last_due + r.point.interval

\* The cycle a request is due: intervals after the first are at least one.
DueOf(r) ==
  IF last_label = 0 \/ r.point.interval >= 1
    THEN last_due + r.point.interval
    ELSE last_due + 1

\* Mutation of MeetsDeadline: the due edge itself is in time.
MeetsDeadline_OnTheEdge(now, due, state) == now <= start + paused + due

\* Mutation of MeetsDeadline: a paused timer earns no exception.
MeetsDeadline_NoException(now, due, state) == now < start + paused + due

\* A request meets its deadline strictly before its due edge, or on it while
\* the timer stands still for want of instructions.
MeetsDeadline(now, due, state) ==
  \/ now < start + paused + due
  \/ /\ admitted_policy = "PauseWhenEmpty"
     /\ state.instruction_supply
     /\ now = start + paused + due

\* A zero interval repeats a time point; only the pausing policy allows it.
RepeatsTimePoint(r) ==
  /\ last_label # 0
  /\ r.point.interval = 0
  /\ admitted_policy # "PauseWhenEmpty"
  /\ r.point.underflow_policy # "PauseWhenEmpty"

AdmissionFault(now, epoch, r, state) ==
  IF closed THEN "RequestAfterClosure"
  ELSE IF ~ValidTimingEvents(r) THEN "InvalidRequest"
  ELSE IF r.point.epoch # epoch \/ r.point.label # last_label + 1 THEN "RequestOutOfOrder"
  ELSE IF RepeatsTimePoint(r) THEN "DuplicateTimePoint"
  ELSE IF ~MeetsDeadline(now, DueOf(r), state) THEN "LateAdmission"
  ELSE IF Len(r.point.synchronizations) > SyncCapacity THEN "SyncCapacity"
  ELSE "None"

\* Space is judged by the occupancy at the start of the edge: the slots that a
\* trigger frees on this edge can be used from the next one on.
HasSpace(r) ==
  /\ Len(timing) < TimingCapacity
  /\ Len(r.point.synchronizations) <= SyncCapacity - sync_size
  /\ \A p \in Ports : Len(events[p]) + Len(ForPort(r, p)) <= EventCapacity

-----------------------------------------------------------------------------
(* The commits, on the queues as values.                                   *)

TimingAfter(triggers, admits, r) ==
  (IF triggers THEN Tail(timing) ELSE timing)
    \o (IF admits THEN <<[point |-> r.point, due |-> DueOf(r)]>> ELSE <<>>)

\* Mutation of EventsAfter: a cancelled event stays in its port queue.
EventsAfter_KeepCancelled(triggers, admits, r) ==
  [p \in Ports |->
     LET run == FrontRun(events[p], Head(timing).point.label)
     IN  (IF triggers /\ \A i \in 1..run : ConditionHolds(events[p][i])
            THEN SubSeq(events[p], run + 1, Len(events[p])) ELSE events[p])
           \o (IF admits THEN ForPort(r, p) ELSE <<>>)]

EventsAfter(triggers, admits, r) ==
  [p \in Ports |->
     LET run == FrontRun(events[p], Head(timing).point.label)
     IN  (IF triggers THEN SubSeq(events[p], run + 1, Len(events[p])) ELSE events[p])
           \o (IF admits THEN ForPort(r, p) ELSE <<>>)]

SyncSizeAfter(triggers, admits, r) ==
  sync_size - (IF triggers THEN Len(Head(timing).point.synchronizations) ELSE 0)
            + (IF admits THEN Len(r.point.synchronizations) ELSE 0)

OutputOf(now, triggers, admits, results) ==
  [admitted  |-> admits,
   launch    |-> IF triggers
                   THEN <<[label |-> Head(timing).point.label, tick |-> now,
                           events |-> LaunchBatch]>>
                   ELSE <<>>,
   cancelled |-> IF triggers THEN CancelledBatch ELSE <<>>,
   synchronizations |-> IF triggers THEN Head(timing).point.synchronizations ELSE <<>>,
   fast_delivered   |-> [i \in 1..Len(results) |-> results[i].reference]]

\* Mutation of PausedAfter: each reason for a pause counts.
PausedAfter_PerReason(state) ==
  paused + (IF state.instruction_supply THEN 1 ELSE 0)
         + (IF state.synchronization THEN 1 ELSE 0)

\* The edges the timer has stood still, whatever the reasons for this one.
PausedAfter(state) == IF IsPaused(state) THEN paused + 1 ELSE paused

-----------------------------------------------------------------------------
(* Operations.  candidate is <<>> or <<request>>: what the link shows;     *)
(* results are the fast results of the current epoch that have arrived.    *)

StepFault(now, epoch, candidate, results, refusal, sync_paused) ==
  LET state     == CurrentTimingState(now, sync_paused)
      trigger   == TriggerFault(epoch, state, refusal)
      admission == IF candidate = <<>> THEN "None"
                   ELSE AdmissionFault(now, epoch, candidate[1], state)
  IN  IF trigger # "None" THEN trigger
      ELSE IF admission # "None" THEN admission
      ELSE IF FlagsFault(flags, results) THEN "FastResultOrder"
      ELSE "None"

\* One TCU clock edge that passes every check: trigger, admit, deliver the
\* fast results, update the pause.  The caller decides closed' and fault'.
Step(now, epoch, candidate, results, refusal, sync_paused) ==
  LET state    == CurrentTimingState(now, sync_paused)
      triggers == Triggers(state)
      admits   == candidate # <<>> /\ HasSpace(candidate[1])
      r        == candidate[1]
  IN  /\ StepFault(now, epoch, candidate, results, refusal, sync_paused) = "None"
      /\ timing' = TimingAfter(triggers, admits, r)
      /\ events' = EventsAfter(triggers, admits, r)
      /\ sync_size' = SyncSizeAfter(triggers, admits, r)
      /\ triggered_policy' = IF triggers THEN PolicyAfter(Head(timing).point, triggered_policy)
                             ELSE triggered_policy
      /\ admitted_policy' = IF admits THEN PolicyAfter(r.point, admitted_policy)
                            ELSE admitted_policy
      /\ last_label' = IF admits THEN r.point.label ELSE last_label
      /\ last_due' = IF admits THEN DueOf(r) ELSE last_due
      /\ flags' = FlagsAfter(flags, results)
      /\ paused' = PausedAfter(state)
      /\ output' = OutputOf(now, triggers, admits, results)
      /\ UNCHANGED start

\* A failed check: the simulation stops where it is.
Refuse(reason) ==
  /\ reason # "None"
  /\ fault' = reason
  /\ UNCHANGED <<queueVars, policyVars, flags, start, paused, closed, output>>

\* The end of the stream names the last label sent, and comes once.
CloseFault(end_label, label) ==
  IF closed \/ end_label # label THEN "InvalidClosure" ELSE "None"

\* No more work: the simulation may end.
TcuDrained == closed /\ timing = <<>> /\ \A p \in Ports : events[p] = <<>>

\* A reset whose new epoch starts its timer at edge first.
ResetTcu(first) ==
  /\ timing' = <<>>
  /\ events' = [p \in Ports |-> <<>>]
  /\ flags' = [q \in Qubits |-> ClearRegister]
  /\ start' = first
  /\ paused' = 0
  /\ sync_size' = 0
  /\ last_label' = 0
  /\ last_due' = 0
  /\ closed' = FALSE
  /\ admitted_policy' = "Strict"
  /\ triggered_policy' = "Strict"
  /\ output' = NoOutput
  /\ fault' = fault

TcuInit(first) ==
  /\ timing = <<>>
  /\ events = [p \in Ports |-> <<>>]
  /\ flags = [q \in Qubits |-> ClearRegister]
  /\ start = first
  /\ paused = 0
  /\ sync_size = 0
  /\ last_label = 0
  /\ last_due = 0
  /\ closed = FALSE
  /\ admitted_policy = "Strict"
  /\ triggered_policy = "Strict"
  /\ output = NoOutput
  /\ fault = "None"
=============================================================================
