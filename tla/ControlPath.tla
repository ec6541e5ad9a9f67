---------------------------- MODULE ControlPath ----------------------------
(***************************************************************************)
(* One core: the CPU's control instructions, TimingControl, the links, the *)
(* TCU, the synchronization unit and the measurement registers, driven by  *)
(* two clocks as Core and Simulator drive them (core.cpp, simulator.cpp).  *)
(*                                                                         *)
(* In one tick the due clock edges run in either order, then the barrier   *)
(* delivers device results, then time advances to the next event.  The     *)
(* device, the partner of a synchronization and the program are the        *)
(* environment: any program of at most MaxInstructions instructions, which *)
(* then exits.                                                             *)
(***************************************************************************)
EXTENDS Tcu, TimingControl, SyncUnit

CONSTANTS
  Instructions,     \* what a program may issue: a set of [command, arg]
  StartTick,        \* profile.start: ticks from a reset to the timer's start
  SyncDelay,        \* link delay of a synchronization, in ticks
  PeerDelays,       \* when the partner's signal arrives, after the booking
  ReadoutDelays,    \* ticks from the launch of an acquisition to its result
  Watchdog,         \* profile.watchdog: the tick by which a run must have drained
  MaxInstructions,  \* bound on the length of a program
  MaxEpoch          \* bound on the resets

ASSUME PathAssumption ==
  /\ IsEdge(TcuClock, StartTick)
  /\ SyncDelay \in Nat \ {0}
  /\ Watchdog \in Nat \ {0}
  /\ MaxInstructions \in Nat

VARIABLES
  control, links, registers,  \* TimingControl, ControlLinks, MeasurementRegisters
  cpu,       \* the execute stage: [frame, issued, halted]
  unit,      \* the synchronization unit
  peer,      \* arrival tick of the partner's signal: <<>> or <<tick>>
  readouts,  \* acquisitions in the device: sequence of [reference, ready]
  now,       \* the current tick
  epoch,     \* the reset epoch
  done,      \* the clock edges that have run in this tick
  finished   \* the simulation has completed

\* History: the time point of every submission and the due cycle of every
\* admission of the epoch, the outcome of every delivered measurement, and
\* the last fmr: <<[qubit, value]>>.
VARIABLES times, dues, outcomes, read

sideVars  == <<control, links, registers, cpu>>
worldVars == <<unit, peer, readouts>>
clockVars == <<now, epoch, done, finished>>
history   == <<times, dues, outcomes, read>>
vars      == <<tcuVars, sideVars, worldVars, clockVars, history>>

Clocks == {"cpu", "tcu"}
DueEdges ==
  {c \in Clocks : \/ c = "cpu" /\ IsEdge(CpuClock, now)
                  \/ c = "tcu" /\ IsEdge(TcuClock, now)}

Running == fault = "None" /\ ~finished
EdgesDone == DueEdges \subseteq done

\* The timer's start edge for an epoch that begins at the given tick.
StartEdge(origin) == EdgeNumber(TcuClock, EdgeFrom(TcuClock, origin + StartTick))

-----------------------------------------------------------------------------
(* Core::cpu_edge: receive, then the execute stage of the CPU.             *)

World == [control |-> control, links |-> links, registers |-> registers, fault |-> "None"]

ExitCommand == [command |-> "halt", arg |-> 0]
OtherInstruction == [command |-> "other", arg |-> 0]

\* The operation in the execute stage: the blocked one, or the next of the
\* program, which may be any instruction that is not a control operation.
NextCommands ==
  IF cpu.issued < MaxInstructions THEN Instructions \cup {OtherInstruction, ExitCommand}
  ELSE {ExitCommand}
Operations ==
  IF cpu.frame # <<>> THEN {cpu.frame[1]}
  ELSE {[instruction |-> cpu.issued + 1, command |-> c.command, arg |-> c.arg] :
          c \in NextCommands}

\* The state of the core's control side becomes w.
BecomeWorld(w) ==
  /\ control' = w.control
  /\ links' = w.links
  /\ registers' = w.registers
  /\ fault' = w.fault

\* The CPU stage after an operation: it stays until it has a result.
CpuAfter(w, operation, result) ==
  [frame  |-> IF result = <<>> THEN <<operation>> ELSE <<>>,
   issued |-> IF result = <<>> THEN cpu.issued ELSE cpu.issued + 1,
   halted |-> result # <<>> /\ w.control.closed]

\* A control operation passes to TimingControl, which may block or refuse it.
CpuExecute(w, operation) ==
  IF ExecuteFault(w, operation) # "None"
    THEN /\ BecomeWorld(Fail(w, ExecuteFault(w, operation)))
         /\ read' = <<>>
         /\ UNCHANGED <<cpu, times>>
    ELSE \E x \in {Release(Dispatch(Hold(w, operation), operation, now, epoch))} :
           /\ BecomeWorld(x.w)
           /\ cpu' = CpuAfter(x.w, operation, x.result)
           /\ times' = IF w.control.enqueue_request = x.w.control.enqueue_request THEN times
                       ELSE Append(times, x.w.control.time_point)
           /\ read' = IF operation.command = "fmr" /\ x.result # <<>>
                        THEN <<[qubit |-> operation.arg, value |-> x.result[1]]>> ELSE <<>>

\* Any other instruction takes its cycle.
CpuOther(w) ==
  /\ BecomeWorld(w)
  /\ cpu' = [cpu EXCEPT !.issued = @ + 1]
  /\ read' = <<>>
  /\ UNCHANGED times

CpuEdge ==
  /\ Running
  /\ "cpu" \in DueEdges \ done
  /\ done' = done \cup {"cpu"}
  /\ \E replied \in {ReceiveReply(World, now, epoch)} :
     \E resulted \in {ReceiveResults(replied, now, epoch)} :
     \E w \in {ReceiveCredits(resulted, now, epoch)} :
       IF w.fault # "None" \/ cpu.halted
         THEN BecomeWorld(w) /\ read' = <<>> /\ UNCHANGED <<cpu, times>>
         ELSE \E operation \in Operations :
                IF operation.command = "other" THEN CpuOther(w) ELSE CpuExecute(w, operation)
  /\ UNCHANGED <<queueVars, policyVars, flags, start, paused, closed, output,
                 worldVars, now, epoch, finished, dues, outcomes>>

-----------------------------------------------------------------------------
(* Core::tcu_edge, and the launch of its output into the device.           *)

PublishAll(box, clock, latency, values) ==
  box \o [i \in 1..Len(values) |->
            [published |-> now, eligible |-> After(clock, now, latency),
             epoch |-> epoch, value |-> values[i]]]

\* The acquisitions of a launch; results of a qubit stay in launch order.
ReadoutsOf(launch, delay) ==
  LET acquire == IF launch = <<>> THEN <<>>
                 ELSE SelectSeq(launch[1].events, LAMBDA e : e.kind = "Acquire")
      busy(q) == {r \in {readouts[i] : i \in 1..Len(readouts)} : r.reference.target = q}
      ready(q) == LET latest == {r.ready : r \in busy(q)} \cup {now + delay}
                  IN  CHOOSE t \in latest : \A u \in latest : u <= t
  IN  [i \in 1..Len(acquire) |-> [reference |-> acquire[i].reference[1],
                                  ready |-> ready(acquire[i].target)]]

\* The checks after the TCU's own step, in the order of the code.
AfterStepFault(closure) ==
  IF output'.admitted /\ PublishFault(links.replies, 1, now) THEN "MailboxFull"
  ELSE IF Len(links.fast_credits) + Len(output'.fast_delivered) > ResultCapacity
    THEN "MailboxFull"
  ELSE IF closure = <<>> THEN "None"
  ELSE IF closure[1].epoch # epoch THEN "StaleClosure"
  ELSE CloseFault(closure[1].value, last_label')

\* Mutation of LinksAfterStep: the reply to an admission is not sent.
LinksAfterStep_NoReply(candidate, closure) ==
  [links EXCEPT
     !.timing_events = IF output'.admitted THEN Tail(@) ELSE @,
     !.fast_results = Waiting(@, now),
     !.fast_credits = PublishAll(@, CpuClock, 1, output'.fast_delivered),
     !.closure = IF closure # <<>> THEN Tail(@) ELSE @]

LinksAfterStep(candidate, closure) ==
  [links EXCEPT
     !.timing_events = IF output'.admitted THEN Tail(@) ELSE @,
     !.replies = IF output'.admitted
                   THEN Publish(@, CpuClock, ReplyLatency, now, epoch, candidate[1].point.label)
                   ELSE @,
     !.fast_results = Waiting(@, now),
     !.fast_credits = PublishAll(@, CpuClock, 1, output'.fast_delivered),
     !.closure = IF closure # <<>> THEN Tail(@) ELSE @]

\* book: the partner's signal will arrive after one of PeerDelays.
Book(after) ==
  IF output'.synchronizations = <<>>
    THEN /\ unit' = after
         /\ peer' = IF after = <<>> \/ after[1].received THEN <<>> ELSE peer
    ELSE /\ unit' = <<BookingOf(output'.synchronizations[1], now + SyncDelay)>>
         /\ \E delay \in PeerDelays : peer' = <<now + delay>>

\* The request that the link shows at this edge.
Candidate ==
  LET front == Peek(links.timing_events, now)
  IN  [i \in 1..Len(front) |-> front[i].value]

TcuEdge ==
  /\ Running
  /\ "tcu" \in DueEdges \ done
  /\ done' = done \cup {"tcu"}
  /\ \E edge \in {EdgeNumber(TcuClock, now)},
        stepped \in {StepUnit(unit, Listens(unit) /\ peer # <<>> /\ peer[1] <= now, now)},
        candidate \in {Candidate},
        results \in {Arrived(links.fast_results, now, epoch)},
        closure \in {Peek(links.closure, now)} :
     LET refusal == IF Overlaps(stepped.unit, Head(timing).point.synchronizations)
                      THEN "SyncOverlap" ELSE "None"
     IN  \/ /\ Refuse(StepFault(edge, epoch, candidate, results, refusal, stepped.paused))
            /\ UNCHANGED <<sideVars, worldVars, dues>>
         \/ /\ Step(edge, epoch, candidate, results, refusal, stepped.paused)
            /\ links' = LinksAfterStep(candidate, closure)
            /\ fault' = AfterStepFault(closure)
            /\ closed' = (closed \/ closure # <<>>)
            /\ Book(stepped.unit)
            /\ \E delay \in ReadoutDelays :
                 readouts' = readouts \o ReadoutsOf(output'.launch, delay)
            /\ dues' = IF output'.admitted THEN Append(dues, last_due') ELSE dues
            /\ UNCHANGED <<control, registers, cpu>>
  /\ UNCHANGED <<now, epoch, finished, times, outcomes, read>>

-----------------------------------------------------------------------------
(* The barrier at the end of a tick.                                       *)

DueReadouts == {i \in 1..Len(readouts) : readouts[i].ready = now}

\* Core::deliver of the first due readout, with either outcome.
DeliverResult ==
  /\ Running
  /\ EdgesDone
  /\ DueReadouts # {}
  /\ \E value \in BOOLEAN :
       LET i == CHOOSE k \in DueReadouts : \A m \in DueReadouts : k <= m
           c == CompletionOf(readouts[i].reference, value)
       IN  /\ readouts' = SubSeq(readouts, 1, i - 1) \o SubSeq(readouts, i + 1, Len(readouts))
           /\ fault' = IF \/ PublishFault(links.cpu_results, ResultCapacity, now)
                          \/ FastFeedback /\ PublishFault(links.fast_results, ResultCapacity, now)
                         THEN "MailboxFull" ELSE "None"
           /\ links' = [links EXCEPT
                !.cpu_results = Publish(@, CpuClock, CpuResultLatency, now, epoch, c),
                !.fast_results = IF FastFeedback
                                   THEN Publish(@, TcuClock, FastResultLatency, now, epoch, c)
                                   ELSE @]
           /\ outcomes' = outcomes \cup {c}
  /\ UNCHANGED <<queueVars, policyVars, flags, start, paused, closed, output,
                 control, registers, cpu, unit, peer, clockVars, times, dues, read>>

\* Core::drained, with the device and the partner's link empty.
Drained ==
  /\ cpu.halted
  /\ control.closed
  /\ control.enqueue_request = <<>>
  /\ TcuDrained
  /\ unit = <<>>
  /\ ~DeliveriesPending(registers)
  /\ \A box \in DOMAIN links : links[box] = <<>>
  /\ readouts = <<>>

Complete ==
  /\ Running
  /\ EdgesDone
  /\ DueReadouts = {}
  /\ Drained
  /\ finished' = TRUE
  /\ UNCHANGED <<tcuVars, sideVars, worldVars, now, epoch, done, history>>

\* The next tick at which something is due.
NextTick ==
  LET ticks == {After(CpuClock, now, 1), After(TcuClock, now, 1)}
                 \cup {readouts[i].ready : i \in 1..Len(readouts)} \cup {Watchdog}
  IN  CHOOSE t \in ticks : \A u \in ticks : t <= u

\* The barrier goes on to the next tick unless the watchdog has expired.
AdvanceTick ==
  /\ Running
  /\ EdgesDone
  /\ DueReadouts = {}
  /\ ~Drained
  /\ fault' = IF now < Watchdog THEN "None" ELSE "Watchdog"
  /\ now' = IF now < Watchdog THEN NextTick ELSE now
  /\ done' = {}
  /\ UNCHANGED <<queueVars, policyVars, flags, start, paused, closed, output,
                 sideVars, worldVars, epoch, finished, history>>

\* Simulator::reset_at: before the first edge of a tick, whose edges it skips.
ResetSession ==
  /\ Running
  /\ now > 0
  /\ done = {}
  /\ epoch < MaxEpoch
  /\ epoch' = epoch + 1
  /\ ResetTcu(StartEdge(now))
  /\ control' = ClearControl
  /\ links' = ClearLinks
  /\ registers' = ClearRegisters
  /\ cpu' = [frame |-> <<>>, issued |-> 0, halted |-> FALSE]
  /\ unit' = <<>>
  /\ peer' = <<>>
  /\ readouts' = <<>>
  /\ done' = Clocks
  /\ times' = <<>> /\ dues' = <<>> /\ outcomes' = {} /\ read' = <<>>
  /\ UNCHANGED <<now, finished>>

\* After completion or a fault the simulation stays stopped.
Stopped == ~Running /\ UNCHANGED vars

Init ==
  /\ TcuInit(StartEdge(0))
  /\ control = ClearControl
  /\ links = ClearLinks
  /\ registers = ClearRegisters
  /\ cpu = [frame |-> <<>>, issued |-> 0, halted |-> FALSE]
  /\ unit = <<>>
  /\ peer = <<>>
  /\ readouts = <<>>
  /\ now = 0
  /\ epoch = 1
  /\ done = {}
  /\ finished = FALSE
  /\ times = <<>> /\ dues = <<>> /\ outcomes = {} /\ read = <<>>

Next ==
  \/ CpuEdge
  \/ TcuEdge
  \/ DeliverResult
  \/ Complete
  \/ AdvanceTick
  \/ ResetSession
  \/ Stopped

\* The kernel always runs the next due process, so some step is always taken.
Spec == Init /\ [][Next]_vars /\ WF_vars(Next)

-----------------------------------------------------------------------------
(* Properties.                                                             *)

\* The checks that guard the protocol between the components.  The others
\* answer what a program may do: LateAdmission, WaitRequired, SecondSync,
\* SyncOverlap, FastFeedbackDisabled and the capacities of one instruction.
ProtocolFaults ==
  {"MissedFiringEdge", "ManifestMismatch", "RequestAfterClosure", "InvalidRequest",
   "RequestOutOfOrder", "DuplicateTimePoint", "FastResultOrder", "InvalidClosure",
   "StaleClosure", "UnexpectedAcknowledgment", "LinkBusy", "MailboxFull",
   "OperationAfterExit", "BlockedInstructionChanged", "DuplicateResult",
   "InvalidMeasurement", "ResultOutOfOrder", "UnknownCredit"}

\* No program makes the control side, the links and the TCU disagree: every
\* Protocol, ManifestMismatch, mailbox and delivery check of timing_control.cpp,
\* core.cpp, tcu.cpp and feedback.cpp holds whenever it is evaluated.
NoProtocolFault == fault \notin ProtocolFaults

\* The outstanding request is in exactly one place: on the link, or admitted
\* with its reply under way; otherwise both sides know the same last label.
HandshakeAgrees ==
  LET request == control.enqueue_request
      on_link == links.timing_events
      reply   == links.replies
  IN  Running =>
        \/ /\ request = <<>> /\ on_link = <<>> /\ reply = <<>>
           /\ last_label = control.last_label
        \/ /\ request # <<>> /\ Len(on_link) = 1 /\ reply = <<>>
           /\ on_link[1].value = request[1]
           /\ last_label = control.last_label
        \/ /\ request # <<>> /\ on_link = <<>> /\ Len(reply) = 1
           /\ reply[1].value = last_label
           /\ last_label = control.last_label + 1

\* Each submitted point is admitted once, in order, and the distance of two
\* points in the program is their distance on the TCU's timeline, except that
\* points at the same program time are one cycle apart (prepare_admission).
DuesFollowProgram ==
  /\ Len(dues) \in {Len(times), Len(times) - 1}
  /\ \A i \in 1..Len(dues) :
       IF i = 1 THEN dues[1] = times[1]
       ELSE dues[i] - dues[i - 1] = IF times[i] = times[i - 1] THEN 1
                                    ELSE times[i] - times[i - 1]

\* wait, fmr and exit complete only after every submitted point has been
\* admitted by the TCU: they are barriers, although requests cross two clocks.
WaitIsBarrier ==
  [][(epoch' = epoch /\ fault' = "None" /\
      (control'.time_point # control.time_point \/ control'.closed # control.closed
         \/ read' # <<>>)) =>
       /\ Len(times') = last_label
       /\ control'.last_label = last_label
       /\ control'.enqueue_request = <<>>]_vars

\* The value a measurement fetch returns is the outcome of the last measurement
\* of that qubit the program issued, which is no longer pending anywhere.
FetchReturnsLatest ==
  read # <<>> =>
    LET q     == read[1].qubit
        known == {c \in outcomes : c.reference.target = q}
    IN  /\ ~\E f \in registers.references : f.target = q
        /\ ~\E i \in 1..Len(readouts) : readouts[i].reference.target = q
        /\ IF known = {} THEN read[1].value = 0
           ELSE \E c \in known :
                  /\ \A d \in known : d.reference.measurement <= c.reference.measurement
                  /\ read[1].value = IF c.value THEN 1 ELSE 0

\* When nothing is in flight the execution flags of the TCU and the measurement
\* registers of the CPU, fed by different links, hold the same last outcome.
FeedbackPathsAgree ==
  (FastFeedback /\ Running /\ ~DeliveriesPending(registers)) =>
    \A c \in outcomes :
      LET q == c.reference.target
      IN  /\ flags[q].last_one = registers.value[q]
          /\ flags[q].last_measurement >= c.reference.measurement

\* What a program may be refused for.
ProgramFaults ==
  {"LateAdmission", "WaitRequired", "SecondSync", "SyncOverlap", "SyncCapacity",
   "FastFeedbackDisabled", "StagingCapacity", "PortCapacity", "ResultCapacity"}

\* Every program runs to completion or is refused for what it asks: no
\* handshake, measurement fetch, pause or synchronization waits until the
\* watchdog of Simulator::barrier ends the run.
Terminates == <>(finished \/ fault \in ProgramFaults)
=============================================================================
