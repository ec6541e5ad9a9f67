------------------------------ MODULE TcuOpen ------------------------------
(***************************************************************************)
(* The timing control unit in an arbitrary environment: requests, fast     *)
(* results, synchronization pauses, preflight refusals, the closure and    *)
(* resets arrive in any order the link allows.                             *)
(***************************************************************************)
EXTENDS Tcu

CONSTANTS
  EventChoices,  \* the event lists a time point may carry
  SyncChoices,   \* the synchronization lists a time point may carry
  StartDelay,    \* edges from a reset to the start of the timer
  MaxInterval,   \* bound on the interval of a request
  MaxLabel,      \* bound on the labels of an epoch
  MaxEdge,       \* bound on the clock edges
  MaxResult,     \* bound on the fast results of an epoch
  MaxEpoch       \* bound on the epochs

ASSUME OpenAssumption ==
  /\ EventChoices \subseteq Seq([port : Ports, flag : ExecutionFlag, target : Qubits])
  /\ SyncChoices \subseteq Seq(Nat)
  /\ StartDelay \in Nat
  /\ MaxInterval \in Nat

VARIABLES
  edge,         \* the next TCU edge
  epoch,        \* the reset epoch
  request,      \* the request the link shows: <<>> or <<request>>
  next_result   \* the id of the next fast result

envVars == <<edge, epoch, request, next_result>>
vars    == <<tcuVars, envVars>>

\* The request the control side builds: interval and policy as in
\* TimingControl::enqueue, the manifest listing the ids of the events.
RequestOf(interval, policy, list, syncs) ==
  [point |-> [epoch |-> epoch, label |-> last_label + 1, interval |-> interval,
              underflow_policy |-> policy, synchronizations |-> syncs,
              manifest |-> [i \in 1..Len(list) |-> (last_label + 1) * StagingCapacity + i]],
   events |-> [i \in 1..Len(list) |->
                 [epoch |-> epoch, id |-> (last_label + 1) * StagingCapacity + i,
                  label |-> last_label + 1, port |-> list[i].port,
                  flag |-> list[i].flag, target |-> list[i].target]]]

PolicyChoices(interval) ==
  {"PauseWhenEmpty", IF interval > 0 THEN "Strict" ELSE "Inherit"}

\* A request becomes visible.
Submit ==
  /\ fault = "None"
  /\ ~closed
  /\ request = <<>>
  /\ last_label < MaxLabel
  /\ \E interval \in 0..MaxInterval, list \in EventChoices, syncs \in SyncChoices :
       \E policy \in PolicyChoices(interval) :
         request' = <<RequestOf(interval, policy, list, syncs)>>
  /\ UNCHANGED <<tcuVars, edge, epoch, next_result>>

\* The fast results of one edge.
ResultChoices ==
  {<<>>} \cup
  {<<CompletionOf([epoch |-> epoch, measurement |-> next_result, target |-> q], v)>> :
      q \in Qubits, v \in BOOLEAN}

\* One edge; an admitted request leaves the link.
Edge ==
  /\ fault = "None"
  /\ edge < MaxEdge
  /\ \E results \in ResultChoices, refusal \in {"None", "Preflight"}, sync_paused \in BOOLEAN :
       /\ next_result + Len(results) <= MaxResult + 1
       /\ \/ /\ Step(edge, epoch, request, results, refusal, sync_paused)
             /\ edge' = edge + 1
             /\ request' = IF output'.admitted THEN <<>> ELSE request
             /\ next_result' = next_result + Len(results)
             /\ UNCHANGED <<closed, fault, epoch>>
          \/ /\ Refuse(StepFault(edge, epoch, request, results, refusal, sync_paused))
             /\ UNCHANGED envVars

\* The stream ends once every request has been admitted.
EndOfStream ==
  /\ fault = "None"
  /\ request = <<>>
  /\ CloseFault(last_label, last_label) = "None"
  /\ closed' = TRUE
  /\ UNCHANGED <<queueVars, policyVars, flags, start, paused, output, fault, envVars>>

\* A reset, between two edges or on one: the edge of a reset's own tick is
\* skipped, although the timer may start on it.
Reset ==
  /\ fault = "None"
  /\ epoch < MaxEpoch
  /\ ResetTcu(edge + StartDelay)
  /\ epoch' = epoch + 1
  /\ request' = <<>>
  /\ next_result' = 1
  /\ edge' \in {edge, edge + 1}

Init ==
  /\ TcuInit(StartDelay)
  /\ edge = 0
  /\ epoch = 1
  /\ request = <<>>
  /\ next_result = 1

Next == Submit \/ Edge \/ EndOfStream \/ Reset

Spec == Init /\ [][Next]_vars

-----------------------------------------------------------------------------
(* Properties.                                                             *)

TimingPoint == [epoch : Nat, label : Nat, interval : Nat, underflow_policy : Policies,
                synchronizations : Seq(Nat), manifest : Seq(Nat)]
QueueEntry == [point : TimingPoint, due : Nat]
InForce == {"Strict", "PauseWhenEmpty"}

\* The timing queue, the timer and the request have their types (the fields of
\* TcuCycleModel, tcu.hpp): a policy in force is never Inherit.
TypeOK ==
  /\ timing \in Seq(QueueEntry)
  /\ start \in Nat /\ paused \in Nat /\ last_label \in Nat /\ last_due \in Nat
  /\ closed \in BOOLEAN
  /\ admitted_policy \in InForce
  /\ triggered_policy \in InForce
  /\ edge \in Nat /\ epoch \in Nat
  /\ request # <<>> => Len(request) = 1 /\ request[1].point \in TimingPoint

\* A queued point never falls behind the timer, so the check of
\* prepare_trigger that a queued point missed its firing edge cannot fail.
FiringEdgeAhead ==
  /\ timing # <<>> => Head(timing).due >= Cycle(edge)
  /\ fault # "MissedFiringEdge"

\* The port queues hold the events of the queued points and nothing else, in
\* label order: the manifest checks of prepare_trigger cannot fail.  sync_size_
\* counts the synchronizations of the queued points exactly and no queue is
\* over its limit, so the subtractions in prepare_admission never wrap around.
PortQueuesMatchManifests ==
  /\ \A k \in 1..Len(timing) :
       LET point == timing[k].point
       IN  {point.manifest[i] : i \in 1..Len(point.manifest)} =
           {events[x[1]][x[2]].id :
              x \in {y \in Ports \X (1..EventCapacity) :
                        /\ y[2] <= Len(events[y[1]])
                        /\ events[y[1]][y[2]].label = point.label}}
  /\ \A p \in Ports : \A i \in 1..Len(events[p]) :
       /\ \E k \in 1..Len(timing) : timing[k].point.label = events[p][i].label
       /\ i > 1 => events[p][i - 1].label <= events[p][i].label
  /\ fault # "ManifestMismatch"
  /\ sync_size = Cardinality({x \in (1..TimingCapacity) \X (1..SyncCapacity) :
                                /\ x[1] <= Len(timing)
                                /\ x[2] <= Len(timing[x[1]].point.synchronizations)})
  /\ sync_size <= SyncCapacity /\ Len(timing) <= TimingCapacity
  /\ \A p \in Ports : Len(events[p]) <= EventCapacity

\* A program that has executed wait 0 is never late: while the last admitted
\* point asks the timer to pause, meets_deadline cannot refuse the next one.
WaitZeroNeverLate == fault = "LateAdmission" => admitted_policy # "PauseWhenEmpty"

\* While the timer starves it stands exactly one cycle after the last point
\* (paused_ticks_ grows by one period per edge whatever the reasons), so the
\* next interval is measured from that point.
StarvedTimerStandsAfterLastPoint ==
  (fault = "None" /\ CurrentTimingState(edge, FALSE).instruction_supply) =>
    /\ admitted_policy = "PauseWhenEmpty"
    /\ Cycle(edge) = last_due + 1

\* Once the stream is closed and the timer has passed the last admitted due
\* cycle nothing is left in the queues: drained() is then true.
DrainsWithTheTimeline ==
  (fault = "None" /\ closed /\ (last_label = 0 \/ Cycle(edge) > last_due)) => TcuDrained

-----------------------------------------------------------------------------
(* The inductive invariant behind these properties.                        *)

\* The timer never counts more paused edges than have passed.
TimerInv == paused <= IF edge >= start THEN edge - start ELSE 0

\* Due cycles increase along the queue, start at the timer's cycle or later
\* and end at last_due; labels are consecutive and end at last_label.
QueueInv ==
  /\ Len(timing) <= last_label
  /\ \A i \in 1..Len(timing) :
       /\ timing[i].point.label = last_label - Len(timing) + i
       /\ timing[i].due >= Cycle(edge)
       /\ i = Len(timing) => timing[i].due = last_due
       /\ \A j \in 1..Len(timing) : i < j => timing[i].due < timing[j].due

\* The policies of the queued points lead from the triggered policy to the
\* admitted one.
PolicyInv ==
  /\ last_label = 0 => admitted_policy = "Strict"
  /\ \E pol \in [0..Len(timing) -> InForce] :
       /\ pol[0] = triggered_policy
       /\ pol[Len(timing)] = admitted_policy
       /\ \A i \in 1..Len(timing) : pol[i] = PolicyAfter(timing[i].point, pol[i - 1])

\* Once every admitted point has triggered, the timer has just passed the last
\* one; with the pausing policy it stays there until the stream closes.
EmptyInv ==
  (timing = <<>> /\ last_label # 0) =>
    /\ edge >= start
    /\ Cycle(edge) > last_due
    /\ (admitted_policy = "PauseWhenEmpty" /\ ~closed) => Cycle(edge) = last_due + 1

\* The inductive invariant of the timing control unit in any environment.
TcuInv ==
  /\ TypeOK
  /\ TimerInv
  /\ QueueInv
  /\ PolicyInv
  /\ EmptyInv
  /\ fault # "MissedFiringEdge"
  /\ WaitZeroNeverLate

-----------------------------------------------------------------------------
(* What the unit implements.                                               *)

\* The queued points as the abstract timeline sees them.
Schedule == {[label |-> timing[i].point.label, due |-> timing[i].due] : i \in 1..Len(timing)}
FiredLabels == {output.launch[i].label : i \in 1..Len(output.launch)}

Line == INSTANCE Timeline WITH cycle <- Cycle(edge), schedule <- Schedule, fired <- FiredLabels

\* The TCU implements the timeline: its clock advances by one or holds, and
\* each point fires in exactly the cycle it was admitted for.
ImplementsTimeline == Line!Timeline
=============================================================================
