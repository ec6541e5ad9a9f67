------------------------------- MODULE Device -------------------------------
(***************************************************************************)
(* The control electronics shared by all cores: class ControlElectronics   *)
(* of device/control_electronics.cpp, with its reservations, readouts and  *)
(* batched backend, under the tick loop of the simulator.                  *)
(*                                                                         *)
(* At a TCU edge each core may launch a batch of events; the barrier that  *)
(* ends a tick processes the physical boundary of that tick.  Which        *)
(* batches are launched is the environment's choice from Batches.  Events  *)
(* and measurements carry identities that are numbered per core and made   *)
(* global on the way to the device (Simulator::device_events).             *)
(***************************************************************************)
EXTENDS Integers, Sequences, FiniteSets, Subsequences, BackendExecution, ResourceReservations, Readouts

CONSTANTS
  CoreCount,   \* number of cores
  Batches,     \* per core, the batches it may launch: sequences of events
  TwoQubitGates,  \* per two-qubit gate, its two inputs [core, port, codeword] and its duration
  TcuPeriod,   \* ticks between TCU edges
  Failures,    \* executions, counted in one call, at which the backend may fail
  LastLaunch,  \* bound on the ticks at which launches happen
  MaxEpoch     \* bound on the resets

\* An event of a batch: the action of a codeword, whose targets and resources are
\* those of the gate for a gate output; codeword tells apart the codewords of a
\* time point, whose events make up the batch.
EventSpec ==
  [kind : {"Gate", "Pulse", "Acquire", "Arm", "GateOutput"}, port : Nat, targets : SUBSET Nat,
   resources : SUBSET [id : Nat, exclusive : BOOLEAN], gate : STRING, codeword : Nat,
   output_delay : Nat, duration : Nat \ {0}, discriminator_delay : Nat, separate_arm : BOOLEAN]

\* The readout events of a batch that belong to one measurement.
SameReadout(e, f) == e.codeword = f.codeword /\ e.targets = f.targets
ReadoutMembers(batch, kind, e) == {k \in 1..Len(batch) : batch[k].kind = kind /\ SameReadout(batch[k], e)}

\* What Profile::validate ensures for the actions of a codeword: a readout event
\* has one target, a codeword acquires a target once, and an acquisition has an
\* arm of its own exactly if it asks for one.
WellFormed(batch) ==
  \A e \in {batch[k] : k \in 1..Len(batch)} :
    e.kind \in {"Acquire", "Arm"} =>
      /\ \E q \in e.targets : e.targets = {q}
      /\ \E k \in 1..Len(batch) :
           /\ ReadoutMembers(batch, "Acquire", e) = {k}
           /\ IF batch[k].separate_arm
                THEN \E m \in 1..Len(batch) : ReadoutMembers(batch, "Arm", e) = {m}
                ELSE ReadoutMembers(batch, "Arm", e) = {}

ASSUME DeviceAssumption ==
  /\ CoreCount \in Nat \ {0}
  /\ TcuPeriod \in Nat \ {0}
  /\ Failures \subseteq 1..3
  /\ LastLaunch \in Nat /\ MaxEpoch \in Nat
  /\ \A g \in DOMAIN TwoQubitGates :
       Cardinality(TwoQubitGates[g].inputs) = 2 /\ TwoQubitGates[g].duration \in Nat \ {0}
  /\ \A core \in 1..CoreCount : \A batch \in Batches[core] :
       batch \in Seq(EventSpec) /\ WellFormed(batch)

VARIABLES
  reservations,    \* reservations_
  boundaries,      \* boundaries_: tick -> [starts, ends, ready]
  active,          \* active_: the actions that have started and not ended
  readouts,        \* readouts_
  last_tick,       \* last_tick_: up to here the backend has evolved
  processed_tick,  \* processed_tick_: <<>> or the last processed boundary
  backend          \* backend_

VARIABLES
  now, epoch,      \* the current tick and epoch
  launched,        \* the cores whose TCU edge has run in this tick
  next_id,         \* per core, the identities of the next [event, measurement]
  stopped,         \* the simulation has completed
  fault,           \* the check that failed, or "None"
  summary          \* after the run: "None", then "Written" or "Failed"

\* History of the epoch: its first tick, every accepted action, the outcomes as
\* sampled (measurement id -> value) and the completions delivered to cores.
VARIABLES origin, accepted, sampled, delivered

deviceVars  == <<reservations, boundaries, active, readouts, last_tick, processed_tick, backend>>
worldVars   == <<now, epoch, launched, next_id, stopped, fault, summary>>
historyVars == <<origin, accepted, sampled, delivered>>
vars        == <<deviceVars, worldVars, historyVars>>

Cores == 1..CoreCount
Running == fault = "None" /\ ~stopped
OnEdge == now % TcuPeriod = 0
EdgeRan == OnEdge => launched = Cores

-----------------------------------------------------------------------------
(* Identities.                                                             *)

\* Mutation of LocalCore: identities are not shifted before the division.
LocalCore_Unshifted(global) == (global % CoreCount) + 1

\* device_events: the identity that the device sees, and the way back that
\* the barrier takes for a completion.
GlobalId(id, core) == (id - 1) * CoreCount + core
LocalCore(global) == ((global - 1) % CoreCount) + 1
LocalId(global) == ((global - 1) \div CoreCount) + 1

\* The acquisitions of a batch that were reserved before that of a readout event.
AcquiredBefore(batch, e) ==
  LET mine == CHOOSE k \in Acquisitions(batch) : SameReadout(batch[k], e)
  IN  Cardinality({k \in Acquisitions(batch) : k < mine})

\* resolve: the events of a batch of one core, scheduled from the tick now.
\* The readout events of a codeword with the same target share a reference.
Resolve(core, batch) ==
  [i \in 1..Len(batch) |->
     LET e     == batch[i]
         start == now + e.output_delay
     IN  [id |-> GlobalId(next_id[core].event + i - 1, core), epoch |-> epoch, core |-> core,
          port |-> e.port, kind |-> e.kind, targets |-> e.targets, resources |-> e.resources,
          gate |-> e.gate, codeword |-> e.codeword, start |-> start, end |-> start + e.duration,
          delay |-> e.discriminator_delay, separate_arm |-> e.separate_arm,
          reference |->
            IF e.kind \in {"Acquire", "Arm"}
              THEN <<[epoch |-> epoch,
                      measurement |->
                        GlobalId(next_id[core].measurement + AcquiredBefore(batch, e), core),
                      target |-> CHOOSE q \in e.targets : TRUE]>>
              ELSE <<>>]]

\* The input of a two-qubit gate that an action drives.
InputOf(a) == [core |-> a.core, port |-> a.port, codeword |-> a.codeword]

\* A gate output must come from one of the gate's inputs and last as long as it.
Endpoint(a) ==
  a.kind = "GateOutput" =>
    /\ InputOf(a) \in TwoQubitGates[a.gate].inputs
    /\ a.end - a.start = TwoQubitGates[a.gate].duration

\* prepare: the checks of preflight and, again, of accept.
LaunchFault(actions) ==
  IF \E i \in 1..Len(actions) : ~Endpoint(actions[i]) THEN "GateInputMismatch"
  ELSE IF CheckFault(reservations, actions) # "None" THEN CheckFault(reservations, actions)
  ELSE IF PrepareFault(readouts, actions, epoch) # "None"
    THEN PrepareFault(readouts, actions, epoch)
  ELSE IF processed_tick # <<>> /\ now <= processed_tick[1] THEN "LaunchAfterBarrier"
  ELSE "None"

-----------------------------------------------------------------------------
(* accept.                                                                 *)

NoBoundary == [starts |-> <<>>, ends |-> <<>>, ready |-> <<>>]
BoundaryAt(tick) == IF tick \in DOMAIN boundaries THEN boundaries[tick] ELSE NoBoundary

\* The boundaries with the starts, ends and results of new actions added.
BoundariesWith(actions, new) ==
  LET all     == {actions[i] : i \in 1..Len(actions)}
      ticks   == {a.start : a \in all} \cup {a.end : a \in all} \cup {r.ready : r \in new}
      ids(s)  == [i \in 1..Len(s) |-> s[i].id]
      refs(s) == [i \in 1..Len(s) |-> s[i].reference[1].measurement]
      ready(a) == ReadoutOf(a, actions).ready
  IN  [t \in DOMAIN boundaries \cup ticks |->
         [starts |-> BoundaryAt(t).starts \o At(actions, {i \in 1..Len(actions) : actions[i].start = t}),
          ends   |-> BoundaryAt(t).ends \o
                       ids(At(actions, {i \in 1..Len(actions) : actions[i].end = t})),
          ready  |-> BoundaryAt(t).ready \o
                       refs(At(actions, {i \in Acquisitions(actions) : ready(actions[i]) = t}))]]

\* One core's TCU edge: nothing, or a batch that is accepted or refused.
Launch(core) ==
  /\ Running
  /\ OnEdge
  /\ core \notin launched
  /\ launched' = launched \cup {core}
  /\ \/ UNCHANGED <<reservations, boundaries, readouts, next_id, fault, accepted>>
     \/ /\ now <= LastLaunch
        /\ \E batch \in Batches[core] : \E actions \in {Resolve(core, batch)} :
             LET new == {ReadoutOf(actions[i], actions) : i \in Acquisitions(actions)}
             IN  IF LaunchFault(actions) # "None"
                   THEN /\ fault' = LaunchFault(actions)
                        /\ UNCHANGED <<reservations, boundaries, readouts, next_id, accepted>>
                   ELSE /\ reservations' = ReserveActions(reservations, actions)
                        /\ readouts' = Insert(readouts, new)
                        /\ boundaries' = BoundariesWith(actions, new)
                        /\ next_id' = [next_id EXCEPT
                                ![core].event = @ + Len(batch),
                                ![core].measurement = @ + Cardinality(Acquisitions(batch))]
                        /\ accepted' = accepted \cup {actions[i] : i \in 1..Len(actions)}
                        /\ UNCHANGED fault
  /\ UNCHANGED <<active, last_tick, processed_tick, backend, now, epoch, stopped, summary,
                 origin, sampled, delivered>>

-----------------------------------------------------------------------------
(* process: the physical boundary of the current tick.                     *)

Started(id) == {a \in active : a.id = id}
Ending(b) == {a \in active : \E i \in 1..Len(b.ends) : b.ends[i] = a.id}

\* The references of the acquisitions that end, in the order of the boundary.
Samples(b) ==
  LET acquire == At(b.ends, {i \in 1..Len(b.ends) : \E a \in Started(b.ends[i]) : a.kind = "Acquire"})
      action(id) == CHOOSE a \in active : a.id = id
  IN  [i \in 1..Len(acquire) |-> action(acquire[i]).reference[1]]

\* Mutation of Activity: actions that start now are counted for the past.
Activity_WithStarts(b, kind) ==
  {[id |-> a.id, start |-> a.start, end |-> a.end] :
     a \in {x \in active \cup {b.starts[i] : i \in 1..Len(b.starts)} : x.kind = kind}}

\* The drives or acquisitions active in the interval that ends now.
Activity(b, kind) ==
  {[id |-> a.id, start |-> a.start, end |-> a.end] : a \in {x \in active : x.kind = kind}}

\* resolve_gate_outputs: every started gate has both outputs, of full length.
GateOutputs(b, g) == {i \in 1..Len(b.starts) : b.starts[i].kind = "GateOutput" /\ b.starts[i].gate = g}
StartedGates(b) == {g \in DOMAIN TwoQubitGates : GateOutputs(b, g) # {}}
GatePaired(b, g) ==
  /\ Cardinality(GateOutputs(b, g)) = 2
  /\ \A input \in TwoQubitGates[g].inputs :
       Cardinality({i \in GateOutputs(b, g) :
                      /\ InputOf(b.starts[i]) = input
                      /\ b.starts[i].end = now + TwoQubitGates[g].duration}) = 1

\* The gates applied at this boundary: ideal gates, then the paired ones.
AppliedGates(b) ==
  LET ideal == At(b.starts, {i \in 1..Len(b.starts) : b.starts[i].kind = "Gate"})
  IN  [i \in 1..Len(ideal) |-> ideal[i].targets]
        \o (IF StartedGates(b) = {} THEN <<>> ELSE <<StartedGates(b)>>)

\* The checks of process, in the order of the code; the last two follow the
\* first change of the backend.
ProcessFault(b, outcome) ==
  LET refs    == Samples(b)
      targets == {refs[i].target : i \in 1..Len(refs)}
      taken   == Sample(readouts, outcome)
  IN  IF now < last_tick \/ (processed_tick # <<>> /\ now <= processed_tick[1])
        THEN "BoundaryReplay"
      ELSE IF \E i \in 1..Len(b.ends) : Started(b.ends[i]) = {} THEN "EndWithoutStart"
      ELSE IF Cardinality(targets) # Len(refs) THEN "DuplicateSample"
      ELSE IF \E i \in 1..Len(b.starts) : b.starts[i].epoch # epoch THEN "OldEpoch"
      ELSE IF \E i \in 1..Len(b.starts) :
                IsGate(b.starts[i]) /\ b.starts[i].targets \cap targets # {}
        THEN "SampleGateCollision"
      ELSE IF \E g \in StartedGates(b) : ~GatePaired(b, g) THEN "GateInputMismatch"
      ELSE IF \E i \in 1..Len(b.starts) : Started(b.starts[i].id) \ Ending(b) # {}
        THEN "StartedTwice"
      ELSE IF \E i \in 1..Len(b.ready) : \/ b.ready[i] \notin DOMAIN taken
                                         \/ taken[b.ready[i]].sample = <<>>
        THEN "ReadyBeforeSample"
      ELSE "None"

\* evolve to now, then measure what ends, then apply what starts; a failure of
\* the backend ends the call where it happens.
Evolved(b, n) ==
  Evolve(Prone(backend, n), last_tick, now, Activity(b, "Pulse"), Activity(b, "Acquire"))
Measured(b, n) ==
  IF Evolved(b, n).fault # "None" THEN Evolved(b, n) ELSE Measure(Evolved(b, n), now, Samples(b))
Applied(b, n) ==
  IF Measured(b, n).fault # "None" THEN Measured(b, n)
  ELSE Apply(Measured(b, n), now, AppliedGates(b))

\* The completion of a readout as the core receives it.
CompletionFor(readout, tick) ==
  [core |-> LocalCore(readout.reference.measurement),
   measurement |-> LocalId(readout.reference.measurement),
   target |-> readout.reference.target, value |-> ResultOf(readout).value, tick |-> tick]

\* The outcomes sampled so far, with those of this boundary.
SampledWith(outcome) ==
  [id \in DOMAIN sampled \cup DOMAIN outcome |->
     IF id \in DOMAIN outcome THEN outcome[id] ELSE sampled[id]]

\* A boundary that is processed to its end.
FinishBoundary(b, outcome) ==
  \E taken \in {Sample(readouts, outcome)} :
    /\ active' = (active \ Ending(b)) \cup {b.starts[i] : i \in 1..Len(b.starts)}
    /\ readouts' = Erase(taken, {b.ready[i] : i \in 1..Len(b.ready)})
    /\ last_tick' = now
    /\ processed_tick' = <<now>>
    /\ boundaries' = [t \in DOMAIN boundaries \ {now} |-> boundaries[t]]
    /\ reservations' = DiscardBefore(reservations, now)
    /\ sampled' = SampledWith(outcome)
    /\ delivered' = delivered \o [i \in 1..Len(b.ready) |->
                                    CompletionFor(taken[b.ready[i]], now)]

\* The backend fails on the gates of the boundary, after its measurements.
AbandonGates(b, outcome) ==
  /\ active' = active \ Ending(b)
  /\ readouts' = Sample(readouts, outcome)
  /\ sampled' = SampledWith(outcome)
  /\ UNCHANGED <<last_tick, processed_tick, boundaries, reservations, delivered>>

\* The backend fails before any outcome of the boundary is known.
AbandonBoundary ==
  UNCHANGED <<active, readouts, last_tick, processed_tick, boundaries, reservations,
              sampled, delivered>>

Process ==
  /\ Running
  /\ EdgeRan
  /\ now \in DOMAIN boundaries
  /\ \E b \in {boundaries[now]} :
     \E outcome \in [{Samples(b)[i].measurement : i \in 1..Len(Samples(b))} -> BOOLEAN],
        n \in Failures \cup {0} :
       IF ProcessFault(b, outcome) # "None"
         THEN /\ fault' = ProcessFault(b, outcome)
              /\ UNCHANGED <<deviceVars, sampled, delivered>>
         ELSE /\ backend' = Prone(Applied(b, n), 0)
              /\ fault' = backend'.fault
              /\ CASE Measured(b, n).fault # "None" -> AbandonBoundary
                   [] Measured(b, n).fault = "None" /\ fault' # "None" ->
                        AbandonGates(b, outcome)
                   [] OTHER -> FinishBoundary(b, outcome)
  /\ UNCHANGED <<now, epoch, launched, next_id, stopped, summary, origin, accepted>>

-----------------------------------------------------------------------------
(* The rest of the barrier.                                                *)

Drained == DOMAIN boundaries = {} /\ active = {} /\ DOMAIN readouts = {}

\* finalize: the idle rest of the run, and the last batch.
Finalize ==
  /\ Running
  /\ EdgeRan
  /\ now > LastLaunch
  /\ Drained
  /\ \E n \in Failures \cup {0} :
     \E evolved \in {Evolve(Prone(backend, n), last_tick, now, {}, {})} :
       /\ backend' = Prone(IF evolved.fault = "None" THEN Flush(evolved) ELSE evolved, 0)
       /\ last_tick' = IF evolved.fault = "None" THEN now ELSE last_tick
  /\ fault' = backend'.fault
  /\ stopped' = (fault' = "None")
  /\ UNCHANGED <<reservations, boundaries, active, readouts, processed_tick,
                 now, epoch, launched, next_id, summary, historyVars>>

\* The next TCU edge or the next boundary, whichever comes first.
NextTick ==
  LET ticks == {((now \div TcuPeriod) + 1) * TcuPeriod} \cup DOMAIN boundaries
  IN  CHOOSE t \in ticks : \A u \in ticks : t <= u

\* schedule_wakeup: the next due tick, or an earlier one at which a reset is
\* scheduled; a boundary at or before now would have been missed.
AdvanceTick ==
  /\ Running
  /\ EdgeRan
  /\ now \notin DOMAIN boundaries
  /\ ~(Drained /\ now > LastLaunch)
  /\ fault' = IF NextTick <= now THEN "UnprocessedEvent" ELSE "None"
  /\ now' \in IF NextTick <= now THEN {now}
             ELSE IF epoch < MaxEpoch THEN (now + 1)..NextTick
             ELSE {NextTick}
  /\ launched' = {}
  /\ UNCHANGED <<deviceVars, epoch, next_id, stopped, summary, historyVars>>

\* reset_at: before the edges of a tick, which it skips.
ResetSession ==
  /\ Running
  /\ now > 0
  /\ launched = {} /\ processed_tick # <<now>>
  /\ epoch < MaxEpoch
  /\ epoch' = epoch + 1
  /\ reservations' = {}
  /\ boundaries' = << >>
  /\ active' = {}
  /\ readouts' = << >>
  /\ last_tick' = now
  /\ processed_tick' = <<>>
  /\ backend' = FreshBackend(epoch + 1, now)
  /\ launched' = Cores
  /\ next_id' = [c \in Cores |-> [event |-> 1, measurement |-> 1]]
  /\ origin' = now
  /\ accepted' = {} /\ sampled' = << >> /\ delivered' = <<>>
  /\ UNCHANGED <<now, stopped, fault, summary>>

\* simulation_summary, once the simulation has stopped for whatever reason: it
\* reads the final state, which executes what is pending and may fail as well.
Summarize ==
  /\ ~Running
  /\ summary = "None"
  /\ \E n \in (Failures \cap {1}) \cup {0} : backend' = Prone(Flush(Prone(backend, n)), 0)
  /\ summary' = IF backend'.failed # backend.failed THEN "Failed" ELSE "Written"
  /\ UNCHANGED <<reservations, boundaries, active, readouts, last_tick, processed_tick,
                 now, epoch, launched, next_id, stopped, fault, historyVars>>

\* After the summary nothing happens any more.
Stopped == summary # "None" /\ UNCHANGED vars

Init ==
  /\ reservations = {}
  /\ boundaries = << >>
  /\ active = {}
  /\ readouts = << >>
  /\ last_tick = 0
  /\ processed_tick = <<>>
  /\ backend = FreshBackend(1, 0)
  /\ now = 0
  /\ epoch = 1
  /\ launched = {}
  /\ next_id = [c \in Cores |-> [event |-> 1, measurement |-> 1]]
  /\ stopped = FALSE
  /\ fault = "None"
  /\ summary = "None"
  /\ origin = 0
  /\ accepted = {} /\ sampled = << >> /\ delivered = <<>>

Next ==
  \/ \E core \in Cores : Launch(core)
  \/ Process
  \/ Finalize
  \/ AdvanceTick
  \/ ResetSession
  \/ Summarize
  \/ Stopped

Spec == Init /\ [][Next]_vars

-----------------------------------------------------------------------------
(* Properties.                                                             *)

\* What a launch may be refused for, at the launch or, when the other half of a
\* two-qubit gate never comes, at its start.
LaunchRefusals == {"ResourceConflict", "GateInputMismatch"}

\* Once a launch is accepted nothing it leads to can fail: the reservation check
\* of resources.cpp foresees every collision that process would meet at a
\* boundary, and no boundary, sample, end or backend interval is out of order.
\* Only the backend itself may fail.
AcceptedWorkNeverFails == fault \in LaunchRefusals \cup {"BackendFailure", "None"}

\* What runs at the same time is compatible: distinct ports, no contended
\* resource, and a shared target only for pulses, arms or one gate's outputs.
ActiveActionsCompatible ==
  \A a, b \in active :
    a # b => /\ a.port # b.port
             /\ ~SameGate(a, b) => ~Contended(a, b) /\ ~Incompatible(a, b)

Log == backend.executed \o backend.failed \o backend.pending
EvolutionsOf(log) == At(log, {i \in 1..Len(log) : log[i].kind = "Evolution"})
Evolutions == EvolutionsOf(Log)

\* The backend's evolutions cover the time since the epoch began without gap or
\* overlap, and every gate and measurement is at the end of the one before it.
EvolutionIsGapless ==
  LET ev == Evolutions
  IN  /\ \A i \in 1..Len(ev) : ev[i].start = IF i = 1 THEN origin ELSE ev[i - 1].tick
      /\ fault # "BackendFailure" =>
           last_tick = IF ev = <<>> THEN origin ELSE ev[Len(ev)].tick
      /\ \A i \in 1..Len(Log) :
           Log[i].kind # "Evolution" =>
             Log[i].tick = IF i = 1 THEN origin ELSE Log[i - 1].tick

\* Every evolution is computed with exactly the pulses that span it: none starts
\* or ends inside an interval, and no accepted pulse is missing from one.
DrivesMatchPulses ==
  \A i \in 1..Len(Evolutions) :
    LET ev == Evolutions[i]
    IN  ev.drives = {[id |-> a.id, start |-> a.start, end |-> a.end] :
                       a \in {x \in accepted : /\ x.kind = "Pulse"
                                               /\ x.start < ev.tick /\ ev.start < x.end}}
        /\ \A d \in ev.drives : d.start <= ev.start /\ ev.tick <= d.end

\* Batching changes nothing but the moment of execution, and a failure of the
\* backend is final: each operation is given to the backend once, in the device's
\* order, a batch that failed is never tried again, not by the summary either,
\* and outcomes are exactly those of measurements that were executed.  What a
\* written summary reads of a run the backend survived covers the whole run.
BatchingKeepsOrder ==
  LET measured == {i \in 1..Len(backend.executed) : backend.executed[i].kind = "Measurement"}
      refs(i)  == backend.executed[i].references
  IN  /\ Log = backend.committed
      /\ backend.failed # <<>> => backend.pending = <<>>
      /\ \A i \in 1..Len(backend.pending) : backend.pending[i].kind # "Measurement"
      /\ Len(backend.pending) < MaxBatch
      /\ DOMAIN sampled = UNION {{refs(i)[k].measurement : k \in 1..Len(refs(i))} : i \in measured}
      /\ stopped \/ (summary = "Written" /\ fault # "BackendFailure") =>
           backend.executed = backend.committed

\* Each accepted acquisition is delivered once, to the core that launched it,
\* with its own sample, at max(end, arm) + delay; when the device is drained
\* none is missing.
ResultsDeliveredOnce ==
  LET acquired == {a \in accepted : a.kind = "Acquire"}
      arm(a)   == LET arms == {x.start : x \in {y \in accepted :
                                 y.kind = "Arm" /\ y.reference = a.reference}}
                  IN  IF arms = {} THEN a.start ELSE CHOOSE t \in arms : TRUE
      due(a)   == (IF arm(a) > a.end THEN arm(a) ELSE a.end) + a.delay
      answer(a) == [core |-> a.core, measurement |-> LocalId(a.reference[1].measurement),
                    target |-> a.reference[1].target,
                    value |-> sampled[a.reference[1].measurement], tick |-> due(a)]
      done     == {a \in acquired : due(a) <= last_tick /\ processed_tick # <<>>}
  IN  fault = "None" =>
        /\ {delivered[i] : i \in 1..Len(delivered)} = {answer(a) : a \in done}
        /\ Len(delivered) = Cardinality(done)
        /\ Drained => done = acquired
=============================================================================
