------------------------------ MODULE Pipeline ------------------------------
(***************************************************************************)
(* The core's pipeline and its memory: class InOrderPipeline of            *)
(* cpu/pipeline.cpp with class MemoryModel, at the CPU and memory edges of *)
(* one core.  Timing control, behind the control callback, accepts an      *)
(* operation, blocks it, at most MaxBlocked times in a session, or throws; *)
(* the first lane of a bundle may be accepted before the second throws.    *)
(*                                                                         *)
(* A stage holds <<>> or <<frame>>.  The instruction word is the record of *)
(* module Instructions itself; decoding only finds the illegal ones.       *)
(***************************************************************************)
EXTENDS MemoryModel

CONSTANTS
  Programs,    \* the programs to run: functions from program counters
  MaxBlocked,  \* bound on the edges at which timing control blocks
  MaxEpoch,    \* bound on the resets
  Watchdog     \* profile.watchdog: the tick by which a run must have drained

ASSUME ProgramsAssumption ==
  \A p \in Programs : DOMAIN p \subseteq Int /\ p \in [DOMAIN p -> InstructionSet]

VARIABLES
  cpu,         \* registers_, pc_, fetch_pc_, fetch_request_, fetched_, decode_,
               \* execute_, next_fetch_, next_data_, generation_, halted_
  fetch, data, \* the two ports, with the memory's side of them
  image,       \* image_: the data in memory
  program

VARIABLES
  now, epoch,
  edges,       \* the processes whose edge has run in this tick
  blocked,     \* edges at which an operation was blocked in this session
  fault        \* the fault that ended the simulation, or "None"

\* History: the control operations accepted in this session, and the memory as
\* it was when the last instruction retired.
VARIABLES accepted, retired_memory

vars == <<cpu, fetch, data, image, program, now, epoch, edges, blocked, fault,
          accepted, retired_memory>>

ResetCpu ==
  [registers |-> ZeroRegisters, pc |-> Entry, fetch_pc |-> Entry, fetch_request |-> <<>>,
   fetched |-> <<>>, decode |-> <<>>, execute |-> <<>>, next_fetch |-> 1, next_data |-> 1,
   generation |-> 0, halted |-> FALSE]

\* What one CPU edge works on; fault is the first check that fails.
World == [cpu |-> cpu, fetch |-> fetch, data |-> data, accepted |-> accepted,
          retires |-> FALSE, fault |-> "None"]

Raise(w, reason) == [w EXCEPT !.fault = reason]
Ok(w) == w.fault = "None"

-----------------------------------------------------------------------------
(* step, in the order of the code.                                         *)

FrameOf(request, response) ==
  [id |-> request.id, pc |-> request.pc, word |-> response.value, fault |-> response.fault,
   lhs |-> 0, rhs |-> 0, memory_request |-> 0, completed_lanes |-> 0]

\* Mutation of IsCurrent: answers from before a flush are used.
IsCurrent_AnyGeneration(c, request) == ~c.halted

\* An answer from before a flush is dropped.
IsCurrent(c, request) == request.generation = c.generation /\ ~c.halted

\* Mutation of TakeFetch: a dropped answer leaves its request outstanding.
TakeFetch_StillWaiting(w) ==
  LET envelope == Peek(w.fetch.responses, now)
      c        == w.cpu
      popped   == [w EXCEPT !.fetch.responses = Tail(@)]
  IN  IF envelope = <<>> THEN w
      ELSE IF envelope[1].epoch # epoch \/ ~IsCurrent(c, c.fetch_request[1]) THEN popped
      ELSE [popped EXCEPT !.cpu.fetch_request = <<>>,
                          !.cpu.fetched = <<FrameOf(c.fetch_request[1], envelope[1].value)>>]

\* A fetch response arrives.
TakeFetch(w) ==
  LET envelope == Peek(w.fetch.responses, now)
      c        == w.cpu
      popped   == [w EXCEPT !.fetch.responses = Tail(@)]
  IN  IF envelope = <<>> THEN w
      ELSE IF envelope[1].epoch # epoch THEN popped
      ELSE IF c.fetch_request = <<>> \/ c.fetch_request[1].id # envelope[1].value.id
        THEN Raise(popped, "UnexpectedFetchResponse")
      ELSE IF ~IsCurrent(c, c.fetch_request[1])
        THEN [popped EXCEPT !.cpu.fetch_request = <<>>]
      ELSE IF c.fetched # <<>> THEN Raise(popped, "FetchLatchOverflow")
      ELSE [popped EXCEPT !.cpu.fetch_request = <<>>,
                          !.cpu.fetched = <<FrameOf(c.fetch_request[1], envelope[1].value)>>]

Flush(c) ==
  [c EXCEPT !.decode = <<>>, !.fetched = <<>>, !.generation = @ + 1, !.fetch_pc = c.pc]

\* The instruction in execute completes: retire, and the flush of a taken branch
\* or an exit.
Retire(w, value, next_pc, flush) ==
  LET i == w.cpu.execute[1].word
      c == [w.cpu EXCEPT !.registers = IF WritesRd(i) THEN WriteRegister(@, i.rd, value) ELSE @,
                         !.pc = next_pc,
                         !.execute = <<>>]
  IN  [w EXCEPT !.cpu = IF flush THEN Flush(c) ELSE c, !.retires = TRUE]

\* Mutation of AcceptLanes: a blocked bundle starts again from its first lane.
AcceptLanes_StartOver(w, count) ==
  LET f == w.cpu.execute[1]
  IN  [w EXCEPT !.accepted = @ \o [k \in 1..count |-> OperationOf(f.pc, k, f.lhs, f.rhs)],
                !.cpu.execute[1].completed_lanes = IF count < 2 THEN 0 ELSE 2]

\* Timing control accepts the next lanes of the bundle.
AcceptLanes(w, count) ==
  LET f == w.cpu.execute[1]
  IN  [w EXCEPT !.accepted = @ \o [k \in 1..count |->
                                     OperationOf(f.pc, f.completed_lanes + k, f.lhs, f.rhs)],
                !.cpu.execute[1].completed_lanes = @ + count]

\* A load or store: the request, once, and then the response.
AccessData(w) ==
  LET f        == w.cpu.execute[1]
      envelope == Peek(w.data.responses, now)
      popped   == [w EXCEPT !.data.responses = Tail(@)]
      request  == [id |-> w.cpu.next_data, address |-> f.lhs, kind |-> f.word.op, value |-> f.rhs]
  IN  IF f.memory_request = 0
        THEN IF IsFull(w.data.requests, PortSlots) THEN w
             ELSE [w EXCEPT !.data.requests = Publish(@, CpuClock, LinkEdges, now, epoch, request),
                            !.cpu.next_data = @ + 1,
                            !.cpu.execute[1].memory_request = request.id]
      ELSE IF envelope = <<>> THEN w
      ELSE IF envelope[1].epoch # epoch \/ envelope[1].value.id # f.memory_request
        THEN Raise(popped, "UnexpectedDataResponse")
      ELSE IF envelope[1].value.fault # "None" THEN Raise(popped, envelope[1].value.fault)
      ELSE Retire(popped, envelope[1].value.value, f.pc + 1, FALSE)

\* The execute stage, with the answer of timing control: how many operations it
\* accepts at this edge, what it replies, and whether it throws at the next one.
ExecuteStage(w, answer) ==
  IF w.cpu.execute = <<>> THEN w
  ELSE LET f == w.cpu.execute[1]
           i == f.word
       IN  IF f.fault # "None" THEN Raise(w, f.fault)
           ELSE CASE i.op \in {"Bundle", "Quantum"} ->
                       LET v == AcceptLanes(w, answer.lanes)
                       IN  IF answer.throws THEN Raise(v, "Control")
                           ELSE IF v.cpu.execute[1].completed_lanes = Lanes(i)
                             THEN Retire(v, answer.reply, f.pc + 1, FALSE)
                           ELSE v
                  [] i.op = "Ecall" /\ IsExit(w.cpu.registers) ->
                       IF answer.throws THEN Raise(w, "Control")
                       ELSE IF answer.lanes = 0 THEN w
                       ELSE [Retire(w, 0, f.pc + 1, TRUE) EXCEPT !.cpu.halted = TRUE]
                  [] i.op = "Ecall" /\ ~IsExit(w.cpu.registers) -> Raise(w, "EnvironmentCall")
                  [] i.op \in {"Load", "Store"} -> AccessData(w)
                  [] OTHER -> Retire(w, ResultOf(i, f.pc, f.lhs, f.rhs),
                                     NextPc(i, f.pc, f.lhs, f.rhs), IsTaken(i, f.lhs, f.rhs))

\* Decoding reads the operands as the frame enters the execute stage.
Decoded(frame, registers) ==
  IF frame.fault # "None" THEN frame
  ELSE IF frame.word.op = "Illegal" THEN [frame EXCEPT !.fault = "IllegalInstruction"]
  ELSE [frame EXCEPT !.lhs = registers[frame.word.rs1], !.rhs = registers[frame.word.rs2]]

EnterExecute(c) ==
  IF c.execute # <<>> \/ c.decode = <<>> THEN c
  ELSE [c EXCEPT !.execute = <<Decoded(c.decode[1], c.registers)>>, !.decode = <<>>]

EnterDecode(c) ==
  IF c.decode # <<>> \/ c.fetched = <<>> THEN c
  ELSE [c EXCEPT !.decode = c.fetched, !.fetched = <<>>]

\* Mutation of IssueFetch: an outstanding fetch is given up by a flush.
IssueFetch_Eager(w) ==
  LET c       == w.cpu
      request == [id |-> c.next_fetch, address |-> c.fetch_pc, kind |-> "Fetch", value |-> 0]
  IN  IF \/ c.fetch_request # <<>> /\ c.fetch_request[1].generation = c.generation
         \/ c.fetched # <<>> \/ IsFull(w.fetch.requests, PortSlots)
        THEN w
      ELSE [w EXCEPT !.fetch.requests = Publish(@, CpuClock, LinkEdges, now, epoch, request),
                     !.cpu.next_fetch = @ + 1,
                     !.cpu.fetch_pc = @ + 1,
                     !.cpu.fetch_request =
                        <<[id |-> request.id, pc |-> c.fetch_pc, generation |-> c.generation]>>]

IssueFetch(w) ==
  LET c       == w.cpu
      request == [id |-> c.next_fetch, address |-> c.fetch_pc, kind |-> "Fetch", value |-> 0]
  IN  IF c.fetch_request # <<>> \/ c.fetched # <<>> \/ IsFull(w.fetch.requests, PortSlots) THEN w
      ELSE [w EXCEPT !.fetch.requests = Publish(@, CpuClock, LinkEdges, now, epoch, request),
                     !.cpu.next_fetch = @ + 1,
                     !.cpu.fetch_pc = @ + 1,
                     !.cpu.fetch_request =
                        <<[id |-> request.id, pc |-> c.fetch_pc, generation |-> c.generation]>>]

\* The whole edge: response, execute, and unless halted the earlier stages.
StepCpu(w, answer) ==
  LET arrived  == TakeFetch(w)
      executed == IF ~Ok(arrived) \/ arrived.cpu.halted THEN arrived
                  ELSE ExecuteStage(arrived, answer)
  IN  IF ~Ok(executed) \/ executed.cpu.halted THEN executed
      ELSE IssueFetch([executed EXCEPT !.cpu = EnterDecode(EnterExecute(@))])

-----------------------------------------------------------------------------
(* The edges of a tick.                                                    *)

Running == fault = "None"
IsCpuEdge == IsEdge(CpuClock, now)

\* The control operations that wait in execute: an exit counts as one.
Offered ==
  IF cpu.execute = <<>> \/ cpu.halted \/ cpu.execute[1].fault # "None" THEN 0
  ELSE IF cpu.execute[1].word.op = "Ecall" THEN IF IsExit(cpu.registers) THEN 1 ELSE 0
  ELSE Lanes(cpu.execute[1].word) - cpu.execute[1].completed_lanes

\* The possible answers of timing control, and whether one blocks.
Answers ==
  {answer \in [lanes : 0..Offered, reply : IF Offered = 0 THEN {0} ELSE Replies,
               throws : BOOLEAN] : answer.throws => answer.lanes < Offered}
Blocks(answer) == ~answer.throws /\ answer.lanes < Offered

CpuEdge ==
  /\ Running
  /\ IsCpuEdge
  /\ "cpu" \notin edges
  /\ edges' = edges \cup {"cpu"}
  /\ \E answer \in Answers :
       /\ Blocks(answer) => blocked < MaxBlocked
       /\ blocked' = IF Blocks(answer) THEN blocked + 1 ELSE blocked
       /\ \E w \in {StepCpu(World, answer)} :
            /\ cpu' = w.cpu
            /\ fetch' = w.fetch
            /\ data' = w.data
            /\ accepted' = w.accepted
            /\ fault' = w.fault
            /\ retired_memory' = IF w.retires THEN image ELSE retired_memory
  /\ UNCHANGED <<image, program, now, epoch>>

MemoryEdge ==
  /\ Running
  /\ IsCpuEdge
  /\ "memory" \notin edges
  /\ edges' = edges \cup {"memory"}
  /\ fetch' = StepPort(fetch, program, image, now, epoch)
  /\ data' = StepPort(data, program, image, now, epoch)
  /\ image' = StepImage(data, program, image, now, epoch)
  /\ fault' = IF PortFault(fetch, program, image, now, epoch) # "None"
                THEN PortFault(fetch, program, image, now, epoch)
                ELSE PortFault(data, program, image, now, epoch)
  /\ UNCHANGED <<cpu, program, now, epoch, blocked, accepted, retired_memory>>

\* Nothing is left to do: the core has halted and its ports are empty.
Drained ==
  /\ cpu.halted
  /\ \A p \in {fetch, data} : p.requests = <<>> /\ p.responses = <<>> /\ p.pending = <<>>

\* The barrier: unless the watchdog has expired, time goes on to the next edge
\* or, before it, to the tick of a reset.
AdvanceTick ==
  /\ Running
  /\ IsCpuEdge => edges = {"cpu", "memory"}
  /\ ~Drained
  /\ IF now >= Watchdog
       THEN fault' = "Watchdog" /\ UNCHANGED <<now, edges>>
       ELSE /\ now' \in IF epoch < MaxEpoch THEN (now + 1)..After(CpuClock, now, 1)
                        ELSE {After(CpuClock, now, 1)}
            /\ edges' = {}
            /\ UNCHANGED fault
  /\ UNCHANGED <<cpu, fetch, data, image, program, epoch, blocked, accepted, retired_memory>>

\* Core::reset: everything but the image and the program.
ResetSession ==
  /\ Running
  /\ now > 0
  /\ edges = {}
  /\ epoch < MaxEpoch
  /\ epoch' = epoch + 1
  /\ cpu' = ResetCpu
  /\ fetch' = IdlePort /\ data' = IdlePort
  /\ edges' = {"cpu", "memory"}
  /\ blocked' = 0
  /\ accepted' = <<>>
  /\ retired_memory' = image
  /\ UNCHANGED <<image, program, now, fault>>

Stopped == (~Running \/ Drained) /\ UNCHANGED vars

Init ==
  /\ program \in Programs
  /\ cpu = ResetCpu
  /\ fetch = IdlePort /\ data = IdlePort
  /\ image = [a \in Addresses |-> 0]
  /\ now = 0
  /\ epoch = 1
  /\ edges = {}
  /\ blocked = 0
  /\ fault = "None"
  /\ accepted = <<>>
  /\ retired_memory = image

Next == CpuEdge \/ MemoryEdge \/ AdvanceTick \/ ResetSession \/ Stopped

Spec == Init /\ [][Next]_vars

-----------------------------------------------------------------------------
(* Properties.                                                             *)

\* The operations of the instructions that have retired.
RetiredOperations ==
  SubSeq(accepted, 1, Len(accepted) - IF cpu.execute = <<>> THEN 0
                                      ELSE cpu.execute[1].completed_lanes)

Architecture ==
  INSTANCE Isa WITH registers <- cpu.registers, pc <- cpu.pc, memory <- retired_memory,
                    halted <- cpu.halted, operations <- RetiredOperations

\* The pipelined core implements the sequential machine: instructions retire in
\* program order, each once and with current operands, loads see every earlier
\* store, nothing from an abandoned path has an effect, and a reset starts anew.
ImplementsIsa == Architecture!IsaSpec

ProtocolFaults ==
  {"UnexpectedFetchResponse", "FetchLatchOverflow", "UnexpectedDataResponse", "RequestReordered"}

\* The identity checks of both ports never fail, through flushes, stalls,
\* resets and either order of the edges.
PortsStayInStep == fault \notin ProtocolFaults

\* What an instruction sends to timing control: its lanes, or the exit.
Commands(i) == IF i.op = "Ecall" THEN 1 ELSE Lanes(i)

\* One of the commands at pc has been refused, and those before it were issued.
IsRefused ==
  LET i == program[cpu.pc]
  IN  /\ InstructionFault(program, cpu.pc, cpu.registers) = "None"
      /\ \E count \in 0..(Commands(i) - 1) :
           accepted = RetiredOperations \o
                        [lane \in 1..count |->
                           OperationOf(cpu.pc, lane, cpu.registers[i.rs1], cpu.registers[i.rs2])]

\* A fault stops the core exactly at the instruction that causes it: every older
\* instruction has retired, no younger one has touched the memory or timing
\* control, and the instruction itself has issued nothing but the lanes before
\* the one that timing control refuses.
FaultsArePrecise ==
  ~Running /\ fault \notin ProtocolFaults \cup {"Watchdog"} =>
    /\ image = retired_memory
    /\ IF fault = "Control" THEN IsRefused
       ELSE fault = InstructionFault(program, cpu.pc, cpu.registers)
            /\ accepted = RetiredOperations

\* Every program without a backward branch comes to its exit or its fault before
\* the watchdog of Simulator::barrier ends the run: neither a flush nor a full
\* mailbox nor a blocked operation leaves the pipeline waiting.
EndsBeforeWatchdog == fault # "Watchdog"
=============================================================================
