# TLA+ verification of qsbit-sim

qsbit-sim simulates the control hardware of a quantum computer cycle by cycle:
RISC-V style cores issue quantum instructions, a timing control unit (TCU) per
core fires them at exact clock edges, control electronics turn them into
operations on a quantum backend, and measurement results come back to the
program and to the TCU. The correctness of such a simulator is the correctness
of its timing: *what fires when*, and what a program may rely on although every
path crosses two clock domains.

This directory models that behaviour in TLA+, checks it with TLC on small
instances and proves the central results with TLAPS.

## 1. The system

| Part | Source | State | Operations |
|---|---|---|---|
| Timing control | `src/timing_control.cpp` | staged events and synchronization, current time point, outstanding request, held instruction | `receive`, `enqueue`, `wait`, `cw`, `sync`, `fmr`, exit |
| Control protocol | `src/control_protocol.cpp`, `event.hpp`, `timing_config.cpp` | none | codeword decoding, `validate_timing_events` |
| Links | `mailbox.hpp`, `control_links.hpp`, `time.hpp` | six mailboxes with eligibility ticks | publish, peek, take, reset |
| Timing control unit | `src/tcu.cpp` | timing queue, port queues, timer start and paused ticks, policies, closure | `step` (trigger, admission, results, pause), `close`, `drained`, `reset` |
| Execution flags, measurement registers | `src/feedback.cpp` | per qubit flags; per qubit value and pending references | evaluate, commit; reserve, deliver, acknowledge, read |
| Synchronization | `src/sync.cpp` | directional links with signals; one booking per core | send, receive, book, step |
| Core, simulation kernel | `src/core.cpp`, `src/simulator.cpp` | clocks, epoch, per-tick progress of the processes | CPU, memory and TCU edges, barrier, wake-up, reset, completion, fault |
| CPU pipeline, memory | `src/cpu/`, `src/memory.cpp` | stage registers, fetch generation, two ports | step, flush, port step |
| Control electronics | `src/device/` | reservations, boundaries, active actions, readouts | preflight, accept, process, finalize, reset |
| Backend execution | `src/backend.cpp` | pending operations of a batch | evolve, apply, measure, flush |
| Decoder | `src/decoder.cpp`, `src/decoder/mmio.cpp` | MMIO registers, sessions, request and job queues, two links | access, step, reset |
| Profile | `src/profile.cpp`, `src/defaults.cpp`, `src/config_json.cpp` | the parameters of a core's hardware, its gates and codeword mappings | validate, overlay, dump |
| Command line | `src/main.cpp`, `src/app/` | the settings of a run | read options and run files in order, resolve cores, construct |
| Repeated-program simulation | `python/qsbit_backend/simulation.py`, `recording.py` | recorded backend calls of three rounds | record, partition, compare, replay, tabulate |
| ISA, ELF, trace, Python backends, tools | remaining files | none, or numerical | parsing, formatting, arithmetic |

How they interact: the CPU hands control operations to `TimingControl`, which
blocks the pipeline by returning no result and ends the run by throwing. A time point travels as one request
over a mailbox to the TCU; its acknowledgment, the end of the stream, results
and credits travel over mailboxes of their own, each with a latency counted in
edges of the *receiving* clock. The TCU queues the point, fires it in its due
cycle, hands the events to the control electronics and the synchronizations to
the synchronization unit. Results return from the electronics at the barrier
that ends a tick. Before all this, `main` turns options, run files and profile
overlays into cores, connections and a backend; around it, the Python layer
runs the whole simulator on three rounds of a loop and produces the backend
operations of any number of rounds from what it recorded.

What is hard here: the two edges of one tick run in either order
(`reverse_`); a blocked instruction is executed again at every CPU edge; the
timer may stand still for two reasons at once; requests, replies, closure and
results cross clocks on different links; queues are judged full by their state
at the start of an edge; a reset may come at any tick and must leave nothing
behind; a backend may fail in the middle of a boundary; a profile is checked
when it is read, long before the codewords that need it are played; and
everything may wait on something: the CPU on a reply, the TCU on
the CPU or on another core, the registers on the device.

## 2. Modules

| Module | Models | Notes |
|---|---|---|
| `ExecutionFlags` | class `ExecutionFlags` | operators on a record per qubit |
| `ControlProtocol` | requests, `validate_timing_events` | capacities of ports and staging |
| `Tcu` | class `TcuCycleModel` | state as variables; `Step`, `Refuse`, `ResetTcu` |
| `TcuOpen` | the TCU in an arbitrary environment | the module the proofs are about |
| `Timeline` | what a TCU promises | abstract: a clock that holds or advances, points that fire in their cycle |
| `TcuProofs`, `TcuQueueProofs`, `KernelProofs`, `PipelineProofs`, `SyncProofs`, `DeviceProofs`, `DecoderProofs` | theorems | section 5 |
| `Subsequences`, `SubsequenceProofs` | loops that erase elements of a list | `At` and the facts about it that `DeviceProofs` and `DecoderProofs` share |
| `Clock` | `Clock`, `Mailbox` | edges, latency in receiver edges, boxes as sequences of envelopes |
| `MeasurementRegisters` | class `MeasurementRegisters` | operators on a record |
| `TimingControl` | class `TimingControl`, the six links | one CPU edge runs several operations, so they are operators on a record |
| `SyncUnit` | class `SyncUnit` | operators on the one booking |
| `ControlPath` | one core under the kernel | composes all of the above with two clocks, device and partner as environment |
| `SyncNetwork`, `Sync` | class `SyncNetwork` with several units | the cores of an edge run one by one, in any order; what they book is the environment's choice |
| `SyncOrder` | the same, run twice | extends `Sync` by a copy in the opposite processing order, compared after every edge |
| `BackendExecution` | class `BackendExecution` | the operations pending in a batch, as operators; an execution may fail |
| `ResourceReservations`, `Readouts` | `device/resources.cpp`, `device/readouts.cpp` | operators; faults in the order of the code's checks |
| `Device` | class `ControlElectronics` with its backend | several cores launch actions at their edges, the barrier processes boundaries, the summary reads the state at the end |
| `DecoderMmio`, `Decoder` | `decoder/mmio.cpp`, class `DecoderSystem` | registers and commands of each core; transport, windows, jobs, result slots |
| `Instructions` | what `isa.cpp` distinguishes | kinds of instructions and their effects |
| `Isa` | what a program means | abstract: one instruction after the other, over the architectural state |
| `MemoryModel` | class `MemoryModel` and its ports | operators on a port; `Pipeline` and the core compose it |
| `Pipeline` | class `InOrderPipeline` with its memory | CPU and memory edges in either order, timing control as an environment that accepts, blocks or throws |
| `Kernel` | class `Simulator` on the SystemC scheduler | the five processes in delta cycles, with several CPU clocks; cores, device and decoders only as work for later ticks |
| `Profile` | class `Profile`, its defaults, overlay and JSON form | operators on a record; `ValidProfile`, `Overlaid`, `ProfileJson`; the lists of the reader and of the writer are separate, as in the code |
| `CodewordPlay` | what an idle machine does with a codeword | the checks of timing control, gate pairing and electronics on the actions of a mapping |
| `RunConfig` | `main`, `app/run_config.cpp`, `app/config.cpp`, the constructors | one action per kind of argument, then resolution and construction, then the play of a codeword |
| `Replay` | `simulation.py` and the recording backend | the control run is the environment: a loop whose rounds may drift |
| `MC...` | constants for TLC | one per composed module |

Correspondence. Every C++ member of the modelled classes that influences
control is a variable or a record field with its source name; every method that
changes state is an action or an operator on the state it changes, and its
`require`s are collected, in order, in an operator `...Fault`. A step that fails
a check throws, which ends the simulation, so `fault` holds the reason and
nothing moves any more. The map in `PROJECT.json` names the lines.

Abstractions. In `Tcu` time is counted in TCU edges: start and pauses are whole
TCU periods apart, so the divisions of the code are exact. `ControlPath` counts
ticks. Event descriptors are reduced to kind, port, target and condition. The
field `pause_` of the TCU selects trace records only and is left out, as are
all trace records. `checked_add` overflows are not reached within the bounds.
In `ControlPath` the program is the environment: any sequence of the enumerated
instructions up to a bound, then exit.

In `Device`, qubits, ports and cores are small sets, an operation is its kind,
and what a backend computes is a choice at the measurement; `Failures` names the
executions at which it may raise instead. A batch holds the events of one time
point; `codeword` tells apart the codewords that they come from, because the
readout events of a codeword with one target share a measurement. In `Decoder` the
cores are clients: each follows a menu of register accesses, with a choice at
every step among submissions, consumptions, resets and reads, some of them
refused by the code; a correction is the set of measurement bits of a window
that are one, so that corrections add modulo two as in the code. In `Pipeline` an
instruction word is the instruction itself, program counters count
instructions, values are numbers modulo `Modulus`, and the code segment is not
writable, as in the images that the loader builds with separate segments; a
program that overwrites its own code is outside the model. Widths and
alignment of accesses are left out. Timing control answers an edge with the
number of commands it accepts, and may throw at the one after them: that is the
fault `Control`, whatever its reason (a codeword without a wait, an unmapped
port, a full staging area, a bad qubit or partner). It may strike the second lane
of a bundle whose first lane is already issued.

A two-qubit gate of `Device` has two inputs, each a core, a port and a codeword,
and a duration; an output with another codeword or duration is refused at the
launch (`Endpoint`) and again at the boundary (`GatePaired`).

In `Profile` a JSON object is a function of the keys it has. The keys that the
reader accepts, those it stores, those the writer writes and the names of kinds
and flags are separate definitions, each from its own list of `config_json.cpp`,
so nothing makes them agree but their contents.

In `RunConfig` an argument is an option with its operand, a file being its
contents. Values of the wrong type or size, unknown options and unreadable
files behave alike, so one `Malformed` argument stands for all of them. A path
is a directory and a name, because relative names in a file belong to that
file. The accepted configuration plays one codeword, or the inputs of a gate on
the cores that own them, on an otherwise idle machine, from the first TCU edge at
which the timer runs and up to the watchdog: everything that can then fail is a
fault of the configuration. In `Replay` a loop is the list of its
operations with their offsets; the calls of a control run are derived from it
as `ControlElectronics::process` makes them. `drift` moves single rounds,
differently for each outcome, which is what the checks of the recorded rounds
must notice. Batches only group calls and are left out, as are the limits on
the total time.

## 3. Runs

| Run | Instance | What it shows |
|---|---|---|
| `tcu_timer` | 3 points, 8 edges, 2 epochs, two timing slots | the inductive invariant of the proofs; no missed firing edge; wait 0 is never late; the starving timer's position; draining; refinement of `Timeline` |
| `tcu_queues` | 2 ports, conditional event, synchronizations, one-slot queues | port queues agree with the manifests and stay within capacity |
| `path_timing` | CPU with two edges per TCU edge, all programs of 4 instructions, early and late partner, a reset at any tick | handshake, program timing, barriers, termination, with synchronization pauses |
| `path_feedback` | slow CPU out of phase, 5 instructions with measurements, both feedback paths, result capacity 2 | fetches return the latest outcome; both paths agree; termination |
| `sync_row` | 3 cores in a row, different delays per direction, links of one and two slots, bookings and resets, both processing orders side by side | partners complete on the same edge, at the later deadline; bookings that both made complete; no signal is left over; two slots suffice; the order of cores at an edge has no effect |
| `device` | 2 cores, 2 qubits, gates, pulses, acquisitions with and without arm, halves of a two-qubit gate, launches up to tick 7, one reset, a backend that may fail at its first or second execution | what is accepted never fails later; the reservations prevent every conflict; the backend sees each interval once with the right drives, in order, and nothing twice after a failure; each result reaches its core once |
| `decoder` | 2 cores and 3 sessions, two result slots, two request slots, slow links | corrections are the core's own work; slots and jobs agree; a stall needs an unread result; the ticks skipped between boundaries are idle |
| `pipeline` | all bodies of 3 of 7 instructions between an addition and an exit, all bodies of 2 without the addition, an edge every other tick, memory latency 2, one blocked operation, any command refused, a reset at any tick, a watchdog at tick 120, which the slowest program just meets | refinement of `Isa`; no program without a backward branch waits for the watchdog; identity checks of the ports never fail; faults are precise, those of timing control in the middle of a bundle included |
| `kernel` | 2 cores with CPU periods 2 and 3, TCU period 4, resets on and between edges, 4 pieces of work up to 3 ticks ahead, watchdog between edges | the barrier acts after all edges of a tick; no tick with work is passed over; a reset happens once and no core runs at its tick |
| `config` | some 4000 command lines of up to three arguments, profiles that keep or break each rule of validation, one and two cores | an accepted configuration plays, on time; a valid profile that is dumped and read over either of two others gives itself |
| `outcomes` | two outcome lists on one command line | **violated**: omitted measurement identities need not return zero |
| `replay` | 9 loops of up to 4 operations, 4 drifts for each outcome, up to 5 repetitions, both ways of execution | a replay that is not refused equals the full run |

Bounds. Three points let the first be triggered, the second be the head and the
third be admitted on one edge; two slots make the queue full while this
happens; eight edges exceed the longest timeline of three points with pauses
before, between and after them. In the path runs, programs of four and five
instructions contain every pair of commands with a wait before, between and
after, which is where `pending_point`, `enqueued` and `allow_same_time` take
all their combinations. Clock periods 1, 2 and 3 with phases make edges
coincide and separate. `Watchdog` lies far beyond the longest run that makes
progress. The start delay is large enough that a strict program can be in time
and small enough that it can be late.

Three cores in a row are the smallest network in which a unit has two partners;
unequal delays make signals overtake bookings. In `device`, the last launch
lies late enough that a second action can start, end and be sampled on the
same ticks as a first one of the other core; the failing execution may be that of
a boundary, of the end or of the summary. Two result slots for three sessions are the smallest
limit that a session can hold while the others compete. Three
free instructions fill execute, decode and the fetch latch behind a jump, so
that every stage is flushed with every instruction in it; a reset may fall
between any two edges. Up to five repetitions are fewer than, as many as and more
than the three that `Replay` records, and its loops end before, at and after
their last operation.

Fairness. The only liveness property, `Terminates`, assumes weak fairness of `Next`:
the SystemC kernel always runs the next due process, and the barrier always
schedules a wake-up, so simulated time never stops while the run has not
ended. Nothing is assumed of single actions.

`CHECK_DEADLOCK FALSE` is said only in the `tcu_*` and `sync_row` runs, whose edge
counter is bounded, so that the model stops where the system would go on; all
other runs check deadlock.

## 4. Properties and the hazards they answer

`PROJECT.json` lists the hazards at their lines. The central ones:

* *Firing edges.* A point that the timer has passed can never fire. Admission,
  pauses, policies and resets together must keep every due cycle ahead
  (`FiringEdgeAhead`, `ImplementsTimeline`, `WaitZeroNeverLate`).
* *Handshake.* A retried instruction must not submit again, a reply must not
  be lost or taken for another (`HandshakeAgrees`, `NoProtocolFault`; in
  `path_feedback`, `Terminates` excludes protocol faults as well).
* *Timing across the handshake.* The interval of a point is computed from
  values that change when replies arrive (`DuesFollowProgram`,
  `WaitIsBarrier`).
* *Feedback.* Two links with two clocks carry each outcome
  (`FetchReturnsLatest`, `FeedbackPathsAgree`).
* *Waiting.* Nobody waits for ever (`Terminates`): only faults that answer what
  the program asked for may end a run early. The pipeline has a bounded
  form of this (`EndsBeforeWatchdog`).
* *Rendezvous.* Signals of synchronizations come before, on and after deadlines
  (`PartnersMeetAtLaterDeadline`, `MutualBookingsComplete`,
  `IdleUnitsLeaveNoSignal`), and the order in which the cores of one edge run
  must not matter (`OrderIndependent`).
* *Shared qubits.* Conflicts between cores must be found at the launch, when
  the event can still be refused, although they happen at later boundaries
  (`AcceptedWorkNeverFails`, `ActiveActionsCompatible`). Batching must not
  change what the backend sees (`EvolutionIsGapless`, `DrivesMatchPulses`,
  `BatchingKeepsOrder`).
* *Shared decoders.* Resets overtake requests, results wait for slots and links
  (`CorrectionsAreOwnWork`, `ResultSlotsMatchJobs`, `SkippedTicksAreIdle`).
* *The tick.* The barrier may be notified by four processes and run between
  them; a second barrier of a tick must find nothing to do (`BarrierEndsTick`,
  `WorkInItsTick`, `SkippedTicksAreIdle`), and the reset of a tick is noticed by
  every process but performed by one (`ResetsOnceAndAlone`).
* *Speculation.* The pipeline fetches and decodes ahead of branches, blocked
  operations and faults (`ImplementsIsa`, `FaultsArePrecise`,
  `PortsStayInStep`). Timing control may throw on the second lane of a bundle
  after it has accepted the first; the instruction then has issued exactly the
  lanes before the refused one, and no other instruction is half done.
* *A failing backend.* It may raise after samples were taken and before gates
  were applied; the batch is given up, not executed again by the flush of the
  summary, and no outcome of it is delivered (`BatchingKeepsOrder`,
  `ResultsDeliveredOnce`).
* *Checks far from their use.* A profile is validated when it is read, then
  changed by later options; gates are spread over the profiles of several cores
  (`ConfiguredCodewordsPlay`). `--start` in particular is stored unchecked; an
  accepted run must still begin on a TCU edge before the watchdog, or every
  deadline would be missed. The writer and the reader of a profile list keys,
  names and members separately (`DumpReadsBack`), and the Python layer relies on
  the two fitting together. The dumped profile is read over a base that differs
  from the default in every field, so a field that is not written shows.
* *Replay.* Three rounds stand for any number: the split at the loop ends, the
  shift, the numbering of measurements and the operations carried over from one
  round to the next all have an edge at the first and at the last round
  (`ReplaysFullRun`).

### Disagreements with the documentation

`docs/interfaces.md` says of `--outcomes` that "omitted IDs return zero" and that
later values override earlier ones. The code stores the bits of a second list
over those of the first and keeps the rest (`run_config.cpp:234`), so after
`--outcomes 1,1 --outcomes 0` measurement 2 returns one. The run `outcomes` shows
it (`OmittedOutcomesReturnZero`); the outcomes of a run file do replace earlier
ones.

`docs/interfaces.md:173` says that `--dump-default-profile` writes "the complete
default profile". `main.cpp:32` writes the profile as the options, overlays and
run files before it have left it, and so does `RunConfig` (`dumped`):
`--seed 7 --dump-default-profile` writes seed 7. `simulation.py:267` relies on what
the code does, so no property is stated of the documented behaviour.

### Observations

These behaviours deserve a reader's attention; no property is stated for them.

*Paths of a first run file.* A second `--config` overwrites the directory
against which the core programs are resolved (`run_config.cpp:67`), also for
programs that the first file named, although the documentation says that paths
inside a file are relative to that file.

*Dump of an invalid profile.* `--start` is validated only by a later overlay or by
the construction of a core, and a dump comes before that: `--start` off the TCU's
edges with `--dump-default-profile` writes a profile that cannot be read. That is
why `DumpReadsBack` speaks of valid profiles.

*A failure of the summary.* When a fault leaves operations pending and the
backend fails in the summary's flush, the program exits with code 2 and without
summary.

*Gates that never pair.* Outputs of one gate whose delays differ by no multiple
of the TCU period are accepted, and no program can make them meet.

*Later rounds of a replay.* The recorded rounds are compared with each other,
and a processor that falls behind only after the third round is not noticed.

*A decoder that stands still.*
Requests are admitted in order, and the last packet of a window needs a free
result slot (`decoder.cpp:175`). `StallNeedsConsumer` shows that the queue
stands still only while every slot holds an unread result. If the core that
owns such a result has already sent the first packet of its next window, the
result can no longer be consumed (`decoder.cpp:59`) and the rest of the window
waits behind the other session's packet, so only a reset resolves it. With
`result_capacity` at least the number of sessions this cannot happen.

Each property of each run has a mutant: an operator next to the original that
changes it the way a plausible slip would, and that TLC must refute.

## 5. Proofs

Every theorem is about the specification that a run checks, for every value of
the constants that satisfies the named assumptions; the bounds of the runs are
arbitrary there.

### The timing control unit

`TcuProofs` and `TcuQueueProofs` are about `TcuOpen!Spec` under
`ProtocolAssumption`, `CapacityAssumption` and `OpenAssumption`: capacities are
positive, the environment's choices are sequences of the right type.

* `TcuInvariant`: `Spec => []TcuInv`.
* `TypeCorrect`, `NeverMissesFiringEdge`, `PausedAdmissionIsNeverLate`,
  `StarvedTimerPosition`: consequences.
* `TcuImplementsTimeline`: `Spec => Line!Timeline`, the refinement.
* `QueuesInvariant`: `Spec => []QueuesInv`, the invariant of the event queues.
* `ManifestsAlwaysMatch`, `QueuesDrain`: the invariants
  `PortQueuesMatchManifests` and `DrainsWithTheTimeline` of the runs.

The argument. "The head of the queue is not behind the timer" is not inductive:
after a trigger the second point becomes the head, so all due cycles must be
ahead and increasing (`QueueInv`). A new point's due cycle is computed from
`last_due`, so the last queued due cycle must be `last_due`. When the queue is
empty this says nothing, and then the deadline check decides; with the pausing
policy a request on the due edge itself is accepted, which is right only if the
timer stands exactly one cycle after the last point (`EmptyInv`). That holds
because the timer starves as soon as the last point has triggered, which needs
the policy *triggered* last to be the policy *admitted* last once the queue is
empty: `PolicyInv` links both along the queue. `TimerInv` keeps the subtraction
of paused edges within the elapsed ones.

The refinement maps the timing queue to the set of its `[label, due]`, the
logical time to `Cycle(edge)` and the last launch to the fired label. An edge
that triggers or passes is `Advance`, an edge that pauses is `Hold`, submission
and closure stutter, a reset is `Restart`.

For the event queues the hazard is that a trigger removes the front run of the
head's label from every port queue, whatever the manifest says: an event with a
smaller label in front of it, or one of the same label behind a larger one, would
be left over or cut off. `PortsInv` excludes both: labels do not decrease along a
queue and are those of queued points, which `QueueInv` makes consecutive, so the
head's label is the least there is and its front run is all of it (`FrontRunIs`).
`ManifestInv` says that the events of each queued label and the ids of its
manifest correspond one to one. That survives a step because events only
move within their queue (`Carried`, `MatchesCarried`), and holds of a new point
because `ForPort` lists each event of a request once and in order
(`ForPortLists`) and a valid request has distinct ids. The cardinalities that
`prepare_trigger` compares then are those of bijections with the manifest
(`HeadManifest`), so the check cannot fail. `SyncInv` counts the queued points
that carry a synchronization. The facts about `ForPort` and `FrontRun` are
inductions over the queues: `UpTo` and `LeastOf` derive them from the
well-foundedness of the naturals, as a statement about sets.

### The simulation kernel

`KernelProofs` is about `Kernel!Spec` under `KernelAssumption`: there is a core,
the clocks are those that `Clock::validate` accepts, the resets lie between the
first tick and the watchdog, as `reset_at` demands.

* `KernelInvariant`: `Spec => []KernelInv`.
* `WorkProcessedInItsTick`, `ResetsAreOnceAndAlone`: the two invariants of the
  run `kernel`.
* `NoCoreAfterBarrier`: `Spec => BarrierEndsTick`, its action property.

The argument. That no work is late (`PastInv`) needs a wake-up before all that is
left to do, which the barrier schedules, but the barrier returns early while an
edge of its tick has not run. So the invariant says of every tick: each due
method has run, or is runnable or notified, and not twice (`EdgesInv`); a
tick whose processes have all run has been ended by a barrier that scheduled the
next (`TickInv`). From the first part it follows that a barrier that finds all
edges done is the last to find any work, and that nobody runs after it. A reset
may be noticed by any of the processes; `ResetInv` counts the performed ones and
`TickInv` says that none is missed by the time the tick is over, which is why
`core_ran` never is a tick of a reset. Least elements of sets of ticks come from
the well-foundedness theorems of the library (`MinOfTicks`).

### The pipeline and its memory

`PipelineProofs` is about `Pipeline!Spec` under `IsaAssumption`,
`MemoryAssumption` and `ProgramsAssumption`: values are numbers modulo `Modulus`
and addresses and replies are values, the clock is valid, the memory takes at
least one edge, programs consist of instructions. The program, its length and
its branches are arbitrary, as are the patterns of blocked and refused operations and
resets.

* `PipelineInvariant`: `Spec => []PipelineInv`.
* `IdentityChecksNeverFail`, `FaultsStopAtTheirInstruction`: two invariants of the
  run `pipeline`.
* `PipelineImplementsIsa`: `Spec => ImplementsIsa`, the refinement of the
  sequential machine.

The argument. The identity checks hold because at most one message is under way
on each port and it is the one the core waits for: `FetchInv` and `DataInv` say
where on its way it is and that the response, when it exists, is the memory's
answer to the request in the core. A flush leaves the outstanding fetch alone,
so that request may belong to an abandoned path; its generation then differs
from the current one. `FrontInv` therefore counts it towards `fetch_pc` only if
it is current, and says that decode, the fetch latch and a current request hold
consecutive instructions from `pc` on. `ExecuteFrame` says that the frame in
execute is the instruction at `pc` with the registers as they are now, or its
fault. For the refinement, memory and control operations need a history of the
last retirement: `DataInv` says that the image differs from it at most by the
store in execute whose response is on its way, and `LanesInv` that the operations
accepted since are the first lanes of the bundle in execute. An edge runs
several stages, so the invariant is stated of the record `World` that the stages
hand on (`WorldInv`) and each stage has a lemma; the execute stage either changes
nothing the architecture sees, or makes one step of `Isa`, or raises the fault of
the instruction at `pc`, or is refused by timing control (`ExecuteStageInv`). A
refusal leaves in `accepted` the lanes that the frame has completed, which
`LanesInv` makes a proper prefix of those of the instruction (`RefusedAt`,
`RefusedLane`, `RefusedExit`). A reset in the middle of a store is
the second disjunct of `Isa!Restart` (`ImageOf`).

### Neighbour synchronization

`SyncProofs` is about `Sync!Spec` under `SyncAssumption`: connections go both
ways between different cores, delays and capacities are positive, as the profile
demands, and every order runs each core once. The number of cores, the topology,
the delays, what is booked and when are arbitrary.

* `SyncInvariant`: `Spec => []IInv`.
* `MeetingsAgree`, `NoLateBooking`, `NoSignalLeft`, `LinksHaveRoom`: the four
  invariants of `Sync` that the run `sync_row` checks.

The argument. The properties speak of the time between two edges, but the cores
run one by one: within an edge the first of two partners may complete a meeting
and, if a point is due, book the next one before the other has even heard the
first signal. So the invariant of a pair (`PairInv`) is that both have completed
the same meetings (`Even`) or that one of them is exactly one ahead (`Ahead`), in
which case it has run at this edge, the other has not, and the other will complete
the same meeting when its turn comes. `Even` says whose signal is open on a link:
only that of the partner's present booking, and not once it has been heard.
`LinkInv` bounds a link by two signals and orders them: the first is consumed
before the second arrives, which is why the preflight of the next booking finds at
most one slot taken. Whatever a core does concerns one pair; `NetChange`
carries this to the network.

The second half of `SyncProofs` is about `SyncOrder!BothSpec`, under the same
assumptions.

* `BothInvariant`: `BothSpec => []BothInv`.
* `OutcomeIndependentOfOrder`: the invariant `OrderIndependent` of `sync_row`; in
  fact the links are equal, not only the slots that the next edge finds taken.

The argument. Neither simulation can be mapped to the other within an edge, since
different cores have run. Both are compared with the edge run at once: `Half` says
that a simulation in which the cores D have run is what D brings about from the
state at the beginning of the edge (`ParSignals`, `ParUnits`, `ParMet`), or has
failed if one of D fails. That a core finds, when its turn comes, what it would
have found first rests on three facts about a link: a signal sent at this edge is
not receivable at it, a signal received at this edge keeps its slot until the edge
is over, and so receive and send commute (`ReceiveSend`). The second is the one
that the mutant `Occupying_FreeAtOnce` breaks. They hold of links as they
are between edges (`StartLink`), which `SyncInvariant` provides.

### The control electronics and the backend

`DeviceProofs` is about `Device!Spec` under `DeviceAssumption`: there is a core
and a TCU period, a two-qubit gate has two inputs, and every batch is well formed
(`WellFormed`). The last is what `Profile::validate` ensures of the codewords that
a batch is decoded from: a readout action has one target, a codeword acquires a
target once, and an acquisition has a discriminator arm of its own exactly if it
asks for one. The number of cores, the batches, their delays and durations, the
resources, the resets and the failures of the backend are arbitrary.

* `DeviceInvariant`: `Spec => []Inv`.
* `WorkNeverFails`, `CompatibleWork`, `GaplessEvolution`, `DrivenEvolution`,
  `BatchingOrdered`, `DeliveredOnce`: the six invariants of the run `device`.

The argument. The device keeps no list of what it has accepted: reservations are
discarded, boundaries erased, readouts closed. The invariant puts each of them
back in relation to the history `accepted` and to the tick up to which boundaries
have been processed (`Closed`).

* `ActionInv`: *all* accepted actions are pairwise compatible, although a launch
  is checked against the remaining reservations only. That is enough because a
  reservation is dropped only when its action ended before the processed tick
  (`ActiveInv`), and a launch schedules nothing before now (`PairLater`).
* `BoundaryInv`: the boundary of every open tick lists exactly the accepted
  actions that start or end then and the measurements due then, each once
  (`Complete`). Whatever is still to happen therefore waits at a boundary that is
  not in the past (`OpenPending`), which is why time never passes it.
* `ActiveInv`: the active actions are those whose start is closed and whose end is
  not. Between two boundaries these are the actions that span the interval, so
  the evolution up to now has the right drives (`ActiveDrives`); a pulse that is
  launched later starts later and changes no past evolution (`DrivenLater`).
* `ReadoutInv`, `DeliveryInv`: an acquisition whose result is not due has an open
  readout, with a sample once its end is closed; one whose result is due has been
  answered, once. The due tick is a function of the accepted actions, and a later
  launch does not move it, because identities are never reused (`NewIds`,
  `DueStable`); across cores that rests on the numbering of `device_events`
  (`GlobalIdInjective`).
* `LogInv`: executed, failed and pending operations, in this order, are what the
  device asked for; they have no gaps; and outcomes exist exactly for the
  measurements that were executed. This part also holds after a fault, which is
  why it is separate from `Core`.

With these, `ProcessFaultKinds` goes through the checks of `process` one by one
and finds each of them true, but for the missing half of a two-qubit gate, and
`PrepareNone` those of `Readouts::prepare`. The calls that a boundary makes to the
backend may fail at each of three places; `BoundaryCalls` collects what each
leaves. `EvolveStep`, `MeasureStep` and `ApplyStep` say what a call does to
a backend that has not failed (`Going`) and that it either goes on or is `Broken`.
The lists of boundaries and logs are selections by position (`At`), whose facts
(`AtLists`, `AtAppend` of `SubsequenceProofs`) are inductions over their length,
again by `UpTo`.

### The decoder system

`DecoderProofs` is about `Decoder!Spec` under `DecoderAssumption` and
`MmioAssumption`: capacities, latencies, bandwidth, period, window and output
sizes are positive, there are finitely many decoders, and the programs of the
cores (`Menu`) are sequences of register accesses. What a decoder computes
(`Decode`) is arbitrary.

* `DecoderInvariant`: `Spec => []Inv`.
* `ResultSlots`, `StallOnlyForConsumer`, `SkippedTicks`: the invariants
  `ResultSlotsMatchJobs`, `StallNeedsConsumer` and `SkippedTicksAreIdle` of the
  run `decoder`.
* `DecoderHistory`: `Spec => []HistoryInv`.
* `OwnCorrections`: the invariant `CorrectionsAreOwnWork`.

The argument. The invariant of the transport (`TransportInv`) holds after each of
the four parts of `step`, so each part has a lemma of its own
(`TransmissionStep`, `JobsStep`, `AdmitStep`, `RespondedStep`), and each command
of a core another (`ConsumeStep`, `PostedStep`).

* `SlotInv`: a session that waits for a result has one job, any other none. The
  property of the run, that reserved slots stay within the capacity, follows only
  together with it: an admission reserves a slot for a session that has neither a
  job nor an unread result, or reuses its own.
* `IdInv` and `LinkInv`: identities grow along the link and packets arrive in the
  order in which they were sent, a reset and the requests around it included. A
  reset cancels by identity, so this is what makes it cancel exactly what its
  core had submitted before it.
* `Idle`: after a barrier nothing is left that is due at its tick. `admit_requests`
  loops until no request is admissible; that it gets there within the turns that
  the model allows, one per request, is `AdmitStep`. An idle transport stays so
  up to its next boundary (`IdleLater`), and a step of an idle transport changes
  nothing (`IdleStutters`): that is `SkippedTicks`, and with `~Admissible` it gives
  `StallOnlyForConsumer`.

None of this speaks of bits. The account does (`OwnInv`): for a client with no
reset on its way, what it submitted is, in this order, the windows that have
returned, the window at the decoder if there is one, the open window, and the
bits of its packets on the link; its unread result is the sum of the windows
returned since it last consumed. While a reset is on its way, the account of what
comes before it is void, and what the client has submitted since is exactly what
the packets after the reset spell (`Spells`, `After`). That second half is
needed: `stream` is cut when the command is executed, the session and the counts
of its windows only when the packet arrives, and in between the core may submit
again and old results may still return. When the reset arrives, `TransmissionOwn` turns the second half
into a fresh first one. A client that is not busy has no packet, no job and no
reset on its way, so its account is closed, which is `CorrectionsAreOwnWork`.

That a window is the same whatever is submitted after it, and so the sum over
complete windows too, are `WindowPrefix` and `TotalPrefix`; the sums are
recursive functions and the inductions over their length go by `UpTo`.

### Only model-checked

Liveness (`Terminates`), which the prover does not support.
`EndsBeforeWatchdog`, a bound on the length of runs that depends on the
programs. The invariants of `ControlPath`, which composes two clocks, six links and
the whole state of `TimingControl` in one step: they would need an invariant
larger than that of `Device`, and the parts that carry most of the risk, the TCU
and the meetings of partners, are proved on their own.
`Profile`, `CodewordPlay`, `RunConfig` and `Replay` are computations over data of a
few steps, where a bounded input says most of what a proof would.

## 6. Not modelled, and the plan

Left out for good: instruction encodings and 32-bit arithmetic (`isa.cpp`), ELF
parsing, JSON syntax and the types and sizes of values, trace formatting, the
trace player, the conversion of operations to Python objects, the installation
layout (`runtime.cpp`), and the numerical content of the backends. They have no
state that outlives a call or no control flow that the timing depends on. The
trace refuses a record older than the last one; the order of processes in a
tick, checked in `Kernel`, excludes it. Of the Python layer, the recognition of
a loop in an ELF file and the sampling from tables are left out.

The SystemC scheduler is external and modelled as `Kernel` describes it: the
processes of an evaluation phase run in any order, a clock's rising edge is
seen one delta cycle after the tick begins, edges of several clocks at one tick
are seen in the same delta cycle, notifications merge.

What is left, were the development to go on: a proof of the handshake invariant
of `ControlPath`, and batching as a refinement of immediate execution, of which
`BatchingOrdered` is the safety part.
