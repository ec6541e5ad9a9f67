--------------------------- MODULE PipelineProofs ---------------------------
(***************************************************************************)
(* Proofs about the pipelined core and its memory, for every program and   *)
(* every latency of the memory: the identity checks of the ports never     *)
(* fail, faults are precise and the core implements the sequential machine *)
(* of module Isa.                                                          *)
(***************************************************************************)
EXTENDS Pipeline, SequenceTheorems, TLAPS

-----------------------------------------------------------------------------
(* The inductive invariant.  It is stated about the world of a CPU edge,   *)
(* so that it can be followed through the stages of step.                  *)

Operations == [pc : Int, lane : Nat, lhs : Values, rhs : Values]

\* The shape of the records, whatever their fields hold.
IsSlot(s) == s = <<>> \/ s = <<s[1]>>
IsFrame(f) ==
  f = [id |-> f.id, pc |-> f.pc, word |-> f.word, fault |-> f.fault, lhs |-> f.lhs,
       rhs |-> f.rhs, memory_request |-> f.memory_request,
       completed_lanes |-> f.completed_lanes]
IsPort(p) ==
  p = [requests |-> p.requests, responses |-> p.responses, pending |-> p.pending,
       last_id |-> p.last_id]
IsCpu(c) ==
  c = [registers |-> c.registers, pc |-> c.pc, fetch_pc |-> c.fetch_pc,
       fetch_request |-> c.fetch_request, fetched |-> c.fetched, decode |-> c.decode,
       execute |-> c.execute, next_fetch |-> c.next_fetch, next_data |-> c.next_data,
       generation |-> c.generation, halted |-> c.halted]

CpuType(c) ==
  /\ IsCpu(c)
  /\ c.registers \in [Registers -> Values]
  /\ c.pc \in Int /\ c.fetch_pc \in Int
  /\ c.next_fetch \in Nat \ {0} /\ c.next_data \in Nat \ {0}
  /\ c.generation \in Nat /\ c.halted \in BOOLEAN
  /\ IsSlot(c.fetch_request) /\ IsSlot(c.fetched) /\ IsSlot(c.decode) /\ IsSlot(c.execute)

Occupied(s) == IF s = <<>> THEN 0 ELSE 1

\* A frame as it was fetched.
FreshFrame(f) ==
  /\ IsFrame(f)
  /\ f.memory_request = 0 /\ f.completed_lanes = 0
  /\ \/ f.fault = "None" /\ f.pc \in DOMAIN program /\ f.word = program[f.pc]
     \/ f.fault = "InstructionAccess" /\ f.pc \notin DOMAIN program

\* The frame in execute is the instruction at pc, with current operands.
ExecuteFrame(c, f) ==
  /\ IsFrame(f)
  /\ f.pc = c.pc
  /\ ~c.halted
  /\ \/ /\ f.fault # "None"
        /\ f.fault = InstructionFault(program, c.pc, c.registers)
        /\ f.memory_request = 0 /\ f.completed_lanes = 0
     \/ /\ f.fault = "None"
        /\ c.pc \in DOMAIN program
        /\ f.word = program[c.pc] /\ f.word.op # "Illegal"
        /\ f.lhs = c.registers[f.word.rs1] /\ f.rhs = c.registers[f.word.rs2]
        /\ f.completed_lanes \in 0..Lanes(f.word)
        /\ f.word.op \in {"Bundle", "Quantum"} => f.completed_lanes # Lanes(f.word)
        /\ f.memory_request \in Nat
        /\ f.memory_request # 0 => /\ f.word.op \in {"Load", "Store"}
                                   /\ f.memory_request < c.next_data

\* The request that the core waits for belongs to the current path.
CurrentRequest(c) == c.fetch_request # <<>> /\ c.fetch_request[1].generation = c.generation

\* The stages hold consecutive instructions from pc on.
FrontInv(c) ==
  /\ c.decode # <<>> => /\ FreshFrame(c.decode[1])
                        /\ c.decode[1].pc = c.pc + Occupied(c.execute)
  /\ c.fetched # <<>> =>
       /\ FreshFrame(c.fetched[1])
       /\ c.fetched[1].pc = c.pc + Occupied(c.execute) + Occupied(c.decode)
       /\ c.fetch_request = <<>>
  /\ CurrentRequest(c) =>
       c.fetch_request[1].pc = c.pc + Occupied(c.execute) + Occupied(c.decode)
  /\ c.fetch_pc = c.pc + Occupied(c.execute) + Occupied(c.decode) + Occupied(c.fetched)
                    + IF CurrentRequest(c) THEN 1 ELSE 0
  /\ c.fetch_request # <<>> =>
       /\ c.fetch_request[1].id \in Nat \ {0} /\ c.fetch_request[1].id < c.next_fetch
       /\ c.fetch_request[1].pc \in Int
       /\ c.fetch_request[1].generation \in 0..c.generation
  /\ c.halted => ~CurrentRequest(c)

PathInv(c) == FrontInv(c) /\ (c.execute # <<>> => ExecuteFrame(c, c.execute[1]))

Idle(p) == p.requests = <<>> /\ p.pending = <<>> /\ p.responses = <<>>

\* Exactly one message is under way: the request or its response.
Holds(p, request, response) ==
  /\ IsSlot(p.requests) /\ IsSlot(p.pending) /\ IsSlot(p.responses)
  /\ \/ /\ p.requests # <<>> /\ p.pending = <<>> /\ p.responses = <<>>
        /\ p.requests[1].epoch = epoch /\ p.requests[1].value = request
        /\ request.id > p.last_id
     \/ /\ p.requests = <<>> /\ p.pending # <<>> /\ p.responses = <<>>
        /\ p.pending[1].epoch = epoch /\ p.pending[1].request = request
     \/ /\ p.requests = <<>> /\ p.pending = <<>> /\ p.responses # <<>>
        /\ p.responses[1].epoch = epoch /\ p.responses[1].value = response

PortInv(p, next) == IsPort(p) /\ p.last_id \in Nat /\ p.last_id < next

FetchRequest(c) ==
  [id |-> c.fetch_request[1].id, address |-> c.fetch_request[1].pc, kind |-> "Fetch", value |-> 0]
FetchInv(c, p) ==
  /\ PortInv(p, c.next_fetch)
  /\ IF c.fetch_request = <<>> THEN Idle(p)
     ELSE Holds(p, FetchRequest(c), ResponseTo(program, image, FetchRequest(c)))

\* The load or store in execute has been sent to the memory.
Accessing(c) == c.execute # <<>> /\ c.execute[1].memory_request # 0
DataRequest(f) ==
  [id |-> f.memory_request, address |-> f.lhs, kind |-> f.word.op, value |-> f.rhs]

\* The memory is the one of the last retirement, memory, but for a store whose
\* response is on its way.
DataInv(c, p, memory) ==
  /\ PortInv(p, c.next_data)
  /\ IF ~Accessing(c) THEN Idle(p)
     ELSE Holds(p, DataRequest(c.execute[1]), ResponseTo(program, memory, DataRequest(c.execute[1])))
  /\ memory \in [Addresses -> Values]
  /\ image = IF Accessing(c) /\ p.responses # <<>>
               THEN ImageAfter(program, memory, DataRequest(c.execute[1])) ELSE memory

CompletedLanes(c) == IF c.execute = <<>> THEN 0 ELSE c.execute[1].completed_lanes

\* The last operations are those of the bundle in execute.
LanesInv(c, ops) ==
  /\ ops \in Seq(Operations)
  /\ CompletedLanes(c) <= Len(ops)
  /\ \A k \in 1..CompletedLanes(c) :
       ops[Len(ops) - CompletedLanes(c) + k] =
         OperationOf(c.pc, k, c.execute[1].lhs, c.execute[1].rhs)

IsWorld(w) ==
  w = [cpu |-> w.cpu, fetch |-> w.fetch, data |-> w.data, accepted |-> w.accepted,
       retires |-> w.retires, fault |-> w.fault]

\* The memory as of the last retirement, in the middle of an edge.
MemoryOf(w) == IF w.retires THEN image ELSE retired_memory

WorldInv(w) ==
  /\ IsWorld(w)
  /\ CpuType(w.cpu)
  /\ PathInv(w.cpu)
  /\ FetchInv(w.cpu, w.fetch)
  /\ DataInv(w.cpu, w.data, MemoryOf(w))
  /\ LanesInv(w.cpu, w.accepted)

ProgramInv == program \in Programs

\* The invariant between the edges.
StateInv ==
  /\ CpuType(cpu)
  /\ PathInv(cpu)
  /\ FetchInv(cpu, fetch)
  /\ DataInv(cpu, data, retired_memory)
  /\ LanesInv(cpu, accepted)

PipelineInv ==
  /\ ProgramInv
  /\ PortsStayInStep
  /\ FaultsArePrecise
  /\ Running => StateInv

-----------------------------------------------------------------------------
(* Lemmas about slots and mailboxes.                                       *)

\* A mailbox of one slot, empty.
LEMMA EmptyBox ==
  /\ ~IsFull(<<>>, PortSlots)
  /\ \A t : Peek(<<>>, t) = <<>>
  /\ \A clock, latency, t, e, v : \E m :
       Publish(<<>>, clock, latency, t, e, v) = <<m>> /\ m.epoch = e /\ m.value = v
<1>1. \A clock, latency, t, e, v :
        Publish(<<>>, clock, latency, t, e, v) =
          <<[published |-> t, eligible |-> After(clock, t, latency), epoch |-> e, value |-> v]>>
  BY DEF Publish
<1>2. \A clock, latency, t, e, v : \E m :
       Publish(<<>>, clock, latency, t, e, v) = <<m>> /\ m.epoch = e /\ m.value = v
  <2> TAKE clock, latency, t, e, v
  <2> DEFINE m == [published |-> t, eligible |-> After(clock, t, latency), epoch |-> e, value |-> v]
  <2>1. m.epoch = e /\ m.value = v
    OBVIOUS
  <2>2. Publish(<<>>, clock, latency, t, e, v) = <<m>>
    BY <1>1
  <2> QED
    BY <2>1, <2>2
<1> QED
  BY <1>2 DEF IsFull, PortSlots, Peek

\* A mailbox of one slot, with its message.
LEMMA FullBox ==
  ASSUME NEW s, IsSlot(s), s # <<>>
  PROVE  /\ s = <<s[1]>> /\ Tail(s) = <<>>
         /\ IsFull(s, PortSlots)
         /\ \A t : Peek(s, t) = <<>> \/ Peek(s, t) = <<s[1]>>
<1>1. s = <<s[1]>>
  BY DEF IsSlot
<1>2. \A x : Len(<<x>>) = 1 /\ Head(<<x>>) = x /\ Tail(<<x>>) = <<>>
  OBVIOUS
<1>3. Len(s) = 1 /\ Head(s) = s[1] /\ Tail(s) = <<>>
  BY <1>1, <1>2
<1> QED
  BY <1>1, <1>3 DEF IsFull, PortSlots, Peek

\* A one-element sequence is a slot and not empty.
LEMMA SlotOf == ASSUME NEW x PROVE IsSlot(<<x>>) /\ <<x>> # <<>> /\ <<x>>[1] = x /\ IsSlot(<<>>)
BY DEF IsSlot

\* The answer to a fetch does not depend on the data.
LEMMA FetchResponse ==
  ASSUME NEW code, NEW m1, NEW m2, NEW request, request.kind = "Fetch"
  PROVE  ResponseTo(code, m1, request) = ResponseTo(code, m2, request)
BY DEF ResponseTo

\* A world with another core.
LEMMA WithCpu ==
  ASSUME NEW w, IsWorld(w), NEW x
  PROVE  LET v == [w EXCEPT !.cpu = x]
         IN  /\ IsWorld(v) /\ v.cpu = x /\ v.fetch = w.fetch /\ v.data = w.data
             /\ v.accepted = w.accepted /\ v.retires = w.retires /\ v.fault = w.fault
BY DEF IsWorld

\* A world with another fetch port.
LEMMA WithFetch ==
  ASSUME NEW w, IsWorld(w), NEW x
  PROVE  LET v == [w EXCEPT !.fetch = x]
         IN  /\ IsWorld(v) /\ v.cpu = w.cpu /\ v.fetch = x /\ v.data = w.data
             /\ v.accepted = w.accepted /\ v.retires = w.retires /\ v.fault = w.fault
BY DEF IsWorld

\* A world with another data port.
LEMMA WithData ==
  ASSUME NEW w, IsWorld(w), NEW x
  PROVE  LET v == [w EXCEPT !.data = x]
         IN  /\ IsWorld(v) /\ v.cpu = w.cpu /\ v.fetch = w.fetch /\ v.data = x
             /\ v.accepted = w.accepted /\ v.retires = w.retires /\ v.fault = w.fault
BY DEF IsWorld

\* A core with another value of one field.
LEMMA WithField ==
  ASSUME NEW c, IsCpu(c), NEW x
  PROVE  /\ IsCpu([c EXCEPT !.registers = x])
         /\ IsCpu([c EXCEPT !.pc = x])
         /\ IsCpu([c EXCEPT !.fetch_pc = x])
         /\ IsCpu([c EXCEPT !.fetch_request = x])
         /\ IsCpu([c EXCEPT !.fetched = x])
         /\ IsCpu([c EXCEPT !.decode = x])
         /\ IsCpu([c EXCEPT !.execute = x])
         /\ IsCpu([c EXCEPT !.next_fetch = x])
         /\ IsCpu([c EXCEPT !.next_data = x])
         /\ IsCpu([c EXCEPT !.generation = x])
         /\ IsCpu([c EXCEPT !.halted = x])
<1>1. IsCpu([c EXCEPT !.registers = x])
  BY DEF IsCpu
<1>2. IsCpu([c EXCEPT !.pc = x])
  BY DEF IsCpu
<1>3. IsCpu([c EXCEPT !.fetch_pc = x])
  BY DEF IsCpu
<1>4. IsCpu([c EXCEPT !.fetch_request = x])
  BY DEF IsCpu
<1>5. IsCpu([c EXCEPT !.fetched = x])
  BY DEF IsCpu
<1>6. IsCpu([c EXCEPT !.decode = x])
  BY DEF IsCpu
<1>7. IsCpu([c EXCEPT !.execute = x])
  BY DEF IsCpu
<1>8. IsCpu([c EXCEPT !.next_fetch = x])
  BY DEF IsCpu
<1>9. IsCpu([c EXCEPT !.next_data = x])
  BY DEF IsCpu
<1>10. IsCpu([c EXCEPT !.generation = x])
  BY DEF IsCpu
<1>11. IsCpu([c EXCEPT !.halted = x])
  BY DEF IsCpu
<1> QED
  BY <1>1, <1>2, <1>3, <1>4, <1>5, <1>6, <1>7, <1>8, <1>9, <1>10, <1>11

\* A port with other responses.
LEMMA WithResponses ==
  ASSUME NEW p, IsPort(p), NEW x
  PROVE  LET q == [p EXCEPT !.responses = x]
         IN  IsPort(q) /\ q.requests = p.requests /\ q.pending = p.pending
             /\ q.responses = x /\ q.last_id = p.last_id
BY DEF IsPort

\* A port with other requests.
LEMMA WithRequests ==
  ASSUME NEW p, IsPort(p), NEW x
  PROVE  LET q == [p EXCEPT !.requests = x]
         IN  IsPort(q) /\ q.requests = x /\ q.pending = p.pending
             /\ q.responses = p.responses /\ q.last_id = p.last_id
BY DEF IsPort

-----------------------------------------------------------------------------
(* The memory's edge.                                                      *)

\* A port with nothing to do.
LEMMA StepIdlePort ==
  ASSUME NEW p, Idle(p), NEW code, NEW m
  PROVE  StepPort(p, code, m, now, epoch) = p /\ PortFault(p, code, m, now, epoch) = "None"
         /\ ~Completes(p, now)
<1>1. ~Completes(p, now)
  BY DEF Completes, Idle
<1>2. AfterCompletion(p, code, m, now, epoch) = p
  BY <1>1 DEF AfterCompletion
<1>3. ~Accepts(p, p, now)
  BY EmptyBox DEF Accepts, Idle
<1> QED
  BY <1>1, <1>2, <1>3 DEF StepPort, PortFault

\* A port with one message: it stays one message, its identity is new, and the
\* response is computed from the memory at the edge where the access ends.
LEMMA StepBusyPort ==
  ASSUME NEW p, IsPort(p), p.last_id \in Nat, NEW code, NEW m, NEW request, NEW response,
         request.id \in Nat, Holds(p, request, response),
         p.pending # <<>> => response = ResponseTo(code, m, request)
  PROVE  LET q == StepPort(p, code, m, now, epoch)
         IN  /\ Holds(q, request, response)
             /\ IsPort(q)
             /\ q.last_id \in {p.last_id, request.id}
             /\ PortFault(p, code, m, now, epoch) = "None"
             /\ Completes(p, now) => /\ p.pending[1].epoch = epoch /\ p.pending[1].request = request
                                     /\ p.responses = <<>> /\ q.responses # <<>>
             /\ ~Completes(p, now) => (q.responses = <<>> <=> p.responses = <<>>)
<1> DEFINE q == StepPort(p, code, m, now, epoch)
           a == AfterCompletion(p, code, m, now, epoch)
<1>1. CASE p.requests # <<>>
  <2>1. /\ IsSlot(p.requests) /\ p.pending = <<>> /\ p.responses = <<>>
        /\ p.requests[1].epoch = epoch /\ p.requests[1].value = request
        /\ request.id > p.last_id
    BY <1>1 DEF Holds
  <2>2. ~Completes(p, now) /\ a = p
    BY <2>1 DEF Completes, AfterCompletion
  <2>3. PortFault(p, code, m, now, epoch) = "None"
    <3>1. Peek(p.requests, now) # <<>> => Peek(p.requests, now)[1] = p.requests[1]
      BY <1>1, <2>1, FullBox, SlotOf
    <3>2. ~(p.requests[1].value.id <= p.last_id)
      BY <2>1
    <3> QED
      BY <2>2, <3>1, <3>2, <2>1 DEF PortFault, Accepts
  <2>4. CASE Peek(p.requests, now) = <<>>
    <3>1. q = p
      BY <2>2, <2>4 DEF StepPort, Accepts
    <3> QED
      BY <2>1, <2>2, <2>3, <3>1
  <2>5. CASE Peek(p.requests, now) = <<p.requests[1]>>
    <3>1. Accepts(p, p, now)
      BY <2>1, <2>5, EmptyBox, SlotOf DEF Accepts
    <3> DEFINE pending == [request |-> request, epoch |-> epoch,
                           completion |-> now + MemoryLatency * CpuClock.period]
    <3>2. q = [p EXCEPT !.requests = <<>>, !.last_id = request.id, !.pending = <<pending>>]
      <4>1. Tail(p.requests) = <<>> /\ Peek(p.requests, now)[1] = p.requests[1]
        BY <1>1, <2>1, <2>5, FullBox, SlotOf
      <4> QED
        BY <2>1, <2>2, <3>1, <4>1 DEF StepPort
    <3>3. q = [requests |-> <<>>, responses |-> <<>>, pending |-> <<pending>>,
               last_id |-> request.id]
      BY <3>2, <2>1 DEF IsPort
    <3>4. IsPort(q) /\ q.last_id = request.id /\ q.responses = <<>> /\ q.requests = <<>>
          /\ q.pending = <<pending>>
      BY <3>3 DEF IsPort
    <3>5. pending.epoch = epoch /\ pending.request = request
      OBVIOUS
    <3>6. Holds(q, request, response)
      <4> HIDE DEF pending, q
      <4> QED
        BY <3>4, <3>5, SlotOf DEF Holds
    <3> QED
      BY <2>1, <2>2, <2>3, <3>4, <3>6
  <2> QED
    BY <1>1, <2>1, <2>4, <2>5, FullBox
<1>2. CASE p.pending # <<>>
  <2>1. /\ IsSlot(p.pending) /\ p.requests = <<>> /\ p.responses = <<>>
        /\ p.pending[1].epoch = epoch /\ p.pending[1].request = request
    BY <1>2 DEF Holds
  <2>2. q = a /\ PortFault(p, code, m, now, epoch) = "None"
    BY <1>2 DEF StepPort, PortFault, Accepts
  <2>3. CASE ~Completes(p, now)
    BY <2>1, <2>2, <2>3 DEF AfterCompletion
  <2>4. CASE Completes(p, now)
    <3>1. PICK e : /\ Publish(<<>>, CpuClock, LinkEdges, now, epoch, response) = <<e>>
                   /\ e.epoch = epoch /\ e.value = response
      BY EmptyBox
    <3>2. a = [p EXCEPT !.pending = <<>>, !.responses = <<e>>]
      BY <1>2, <2>1, <2>4, <3>1 DEF AfterCompletion
    <3>3. a = [requests |-> <<>>, responses |-> <<e>>, pending |-> <<>>, last_id |-> p.last_id]
      BY <3>2, <2>1 DEF IsPort
    <3>4. IsPort(a) /\ a.last_id = p.last_id /\ a.responses = <<e>> /\ a.requests = <<>>
          /\ a.pending = <<>>
      BY <3>3 DEF IsPort
    <3>5. Holds(a, request, response)
      <4> HIDE DEF a
      <4> QED
        BY <3>1, <3>4, SlotOf DEF Holds
    <3> QED
      BY <2>1, <2>2, <2>4, <3>4, <3>5, SlotOf
  <2> QED
    BY <2>3, <2>4
<1>3. CASE p.responses # <<>>
  <2>1. IsSlot(p.responses) /\ p.pending = <<>> /\ p.requests = <<>>
    BY <1>3 DEF Holds
  <2>2. ~Completes(p, now) /\ a = p
    BY <2>1 DEF Completes, AfterCompletion
  <2>3. ~Accepts(p, p, now)
    BY <2>1, EmptyBox DEF Accepts
  <2> QED
    BY <2>2, <2>3 DEF StepPort, PortFault
<1> QED
  BY <1>1, <1>2, <1>3 DEF Holds

\* What does not depend on the ports and on the memory.
LEMMA SamePath ==
  ASSUME UNCHANGED <<cpu, program, accepted>>
  PROVE  /\ CpuType(cpu) => CpuType(cpu)'
         /\ PathInv(cpu) => PathInv(cpu)'
         /\ LanesInv(cpu, accepted) => LanesInv(cpu, accepted)'
<1>1. CpuType(cpu) => CpuType(cpu)'
  BY DEF CpuType, IsCpu, IsSlot
<1>2. ASSUME PathInv(cpu) PROVE PathInv(cpu)'
  BY <1>2 DEF PathInv, FrontInv, FreshFrame, ExecuteFrame, IsFrame, CurrentRequest, Occupied
<1>3. LanesInv(cpu, accepted) => LanesInv(cpu, accepted)'
  BY DEF LanesInv, CompletedLanes
<1> QED
  BY <1>1, <1>2, <1>3

\* MemoryModel::step on both ports.
LEMMA MemoryEdgeInv == PipelineInv /\ MemoryEdge => PipelineInv'
<1> SUFFICES ASSUME PipelineInv, MemoryEdge PROVE PipelineInv'
  OBVIOUS
<1>1. /\ Running /\ StateInv
      /\ UNCHANGED <<cpu, program, now, epoch, accepted, retired_memory>>
      /\ fetch' = StepPort(fetch, program, image, now, epoch)
      /\ data' = StepPort(data, program, image, now, epoch)
      /\ image' = StepImage(data, program, image, now, epoch)
  BY DEF PipelineInv, MemoryEdge
<1>2. FetchInv(cpu, fetch)' /\ PortFault(fetch, program, image, now, epoch) = "None"
  <2>1. FetchInv(cpu, fetch)
    BY <1>1 DEF StateInv
  <2>2. CASE cpu.fetch_request = <<>>
    <3>1. fetch' = fetch /\ PortFault(fetch, program, image, now, epoch) = "None"
      BY <1>1, <2>1, <2>2, StepIdlePort DEF FetchInv
    <3> QED
      BY <1>1, <2>1, <2>2, <3>1 DEF FetchInv, PortInv, IsPort, Idle
  <2>3. CASE cpu.fetch_request # <<>>
    <3> DEFINE request  == FetchRequest(cpu)
               response == ResponseTo(program, image, request)
    <3>1. request.id \in Nat /\ request.id < cpu.next_fetch /\ request.kind = "Fetch"
          /\ request' = request
      BY <1>1, <2>3 DEF StateInv, PathInv, FrontInv, FetchRequest
    <3>2. Holds(fetch, request, response) /\ PortInv(fetch, cpu.next_fetch)
      BY <2>1, <2>3 DEF FetchInv
    <3>3. /\ Holds(fetch', request, response) /\ IsPort(fetch')
          /\ fetch'.last_id \in {fetch.last_id, request.id}
          /\ PortFault(fetch, program, image, now, epoch) = "None"
      BY <1>1, <3>1, <3>2, StepBusyPort DEF PortInv
    <3>4. response' = response
      BY <1>1, <3>1, FetchResponse
    <3>5. PortInv(fetch, cpu.next_fetch)'
      BY <1>1, <3>1, <3>2, <3>3 DEF PortInv, IsPort
    <3>6. Holds(fetch, request, response)'
      <4> HIDE DEF request, response
      <4> QED
        BY <1>1, <3>1, <3>3, <3>4 DEF Holds, IsSlot
    <3> QED
      BY <1>1, <2>3, <3>3, <3>5, <3>6 DEF FetchInv
  <2> QED
    BY <2>2, <2>3
<1>3. DataInv(cpu, data, retired_memory)' /\ PortFault(data, program, image, now, epoch) = "None"
  <2>1. DataInv(cpu, data, retired_memory)
    BY <1>1 DEF StateInv
  <2>2. Accessing(cpu)' <=> Accessing(cpu)
    BY <1>1 DEF Accessing
  <2>3. CASE ~Accessing(cpu)
    <3>1. data' = data /\ PortFault(data, program, image, now, epoch) = "None"
          /\ ~Completes(data, now)
      BY <1>1, <2>1, <2>3, StepIdlePort DEF DataInv
    <3>2. image' = image
      BY <1>1, <3>1 DEF StepImage
    <3> QED
      BY <1>1, <2>1, <2>2, <2>3, <3>1, <3>2 DEF DataInv, PortInv, IsPort, Idle
  <2>4. CASE Accessing(cpu)
    <3> DEFINE request  == DataRequest(cpu.execute[1])
               response == ResponseTo(program, retired_memory, request)
    <3>1. request.id \in Nat /\ request.id < cpu.next_data /\ request' = request
          /\ response' = response
      BY <1>1, <2>4 DEF StateInv, PathInv, Accessing, ExecuteFrame, DataRequest
    <3>2. Holds(data, request, response) /\ PortInv(data, cpu.next_data)
          /\ retired_memory \in [Addresses -> Values]
          /\ image = IF data.responses # <<>> THEN ImageAfter(program, retired_memory, request)
                     ELSE retired_memory
      BY <2>1, <2>4 DEF DataInv
    <3>3. data.pending # <<>> => image = retired_memory
      BY <3>2 DEF Holds
    <3>4. /\ Holds(data', request, response) /\ IsPort(data')
          /\ data'.last_id \in {data.last_id, request.id}
          /\ PortFault(data, program, image, now, epoch) = "None"
          /\ Completes(data, now) => /\ data.pending[1].epoch = epoch
                                     /\ data.pending[1].request = request
                                     /\ data'.responses # <<>>
          /\ ~Completes(data, now) => (data'.responses = <<>> <=> data.responses = <<>>)
      BY <1>1, <3>1, <3>2, <3>3, StepBusyPort DEF PortInv
    <3>5. PortInv(data, cpu.next_data)'
      BY <1>1, <3>1, <3>2, <3>4 DEF PortInv, IsPort
    <3>6. Holds(data, request, response)'
      <4> HIDE DEF request, response
      <4> QED
        BY <1>1, <3>1, <3>4 DEF Holds, IsSlot
    <3>7. image' = IF data'.responses # <<>> THEN ImageAfter(program, retired_memory, request)
                   ELSE retired_memory
      <4>1. CASE Completes(data, now)
        <5>1. image = retired_memory
          BY <3>3, <4>1 DEF Completes
        <5> QED
          BY <1>1, <3>4, <4>1, <5>1 DEF StepImage
      <4>2. CASE ~Completes(data, now)
        BY <1>1, <3>2, <3>4, <4>2 DEF StepImage
      <4> QED
        BY <4>1, <4>2
    <3>8. ImageAfter(program, retired_memory, request)' = ImageAfter(program, retired_memory, request)
      BY <1>1, <3>1 DEF ImageAfter
    <3> HIDE DEF request, response
    <3> QED
      BY <1>1, <2>2, <2>4, <3>2, <3>4, <3>5, <3>6, <3>7, <3>8 DEF DataInv, request, response
  <2> QED
    BY <2>3, <2>4
<1>4. fault' = "None"
  BY <1>2, <1>3 DEF MemoryEdge
<1>5. StateInv'
  BY <1>1, <1>2, <1>3, SamePath DEF StateInv
<1> QED
  BY <1>1, <1>4, <1>5 DEF PipelineInv, ProgramInv, PortsStayInStep, ProtocolFaults, FaultsArePrecise,
       Running

-----------------------------------------------------------------------------
(* The stages of a CPU edge.                                               *)

\* What the data port and the control operations depend on.
LEMMA SameExecute ==
  ASSUME NEW c, NEW d, d.execute = c.execute, d.next_data = c.next_data, d.pc = c.pc
  PROVE  /\ \A p, m : DataInv(c, p, m) => DataInv(d, p, m)
         /\ \A ops : LanesInv(c, ops) => LanesInv(d, ops)
         /\ CompletedLanes(d) = CompletedLanes(c)
BY DEF DataInv, LanesInv, CompletedLanes, Accessing

\* step, first part: a fetch response is the awaited one, and it is used only if
\* it belongs to the current path.
LEMMA TakeFetchInv ==
  ASSUME NEW w, WorldInv(w)
  PROVE  LET v == TakeFetch(w)
         IN  /\ WorldInv(v)
             /\ v.fault = w.fault /\ v.retires = w.retires
             /\ v.data = w.data /\ v.accepted = w.accepted
             /\ v.cpu.execute = w.cpu.execute /\ v.cpu.pc = w.cpu.pc
             /\ v.cpu.registers = w.cpu.registers /\ v.cpu.halted = w.cpu.halted
<1> DEFINE v == TakeFetch(w)
           c == w.cpu
           p == w.fetch
           request  == FetchRequest(c)
           response == ResponseTo(program, image, request)
           popped   == [w EXCEPT !.fetch.responses = Tail(@)]
<1>1. IsWorld(w) /\ CpuType(c) /\ FrontInv(c) /\ FetchInv(c, p)
  BY DEF WorldInv, PathInv
<1>2. CASE Peek(p.responses, now) = <<>>
  BY <1>2 DEF TakeFetch
<1>3. CASE Peek(p.responses, now) # <<>>
  <2>1. p.responses # <<>> /\ c.fetch_request # <<>>
    BY <1>1, <1>3, EmptyBox DEF FetchInv, Idle
  <2>2. /\ IsSlot(p.responses) /\ p.requests = <<>> /\ p.pending = <<>>
        /\ p.responses[1].epoch = epoch /\ p.responses[1].value = response
    BY <1>1, <2>1 DEF FetchInv, Holds
  <2>3. Peek(p.responses, now) = <<p.responses[1]>> /\ Tail(p.responses) = <<>>
    BY <1>3, <2>1, <2>2, FullBox
  <2>4. response.id = c.fetch_request[1].id
    BY DEF ResponseTo, FetchRequest
  <2>5. IsPort(p) /\ p.last_id \in Nat /\ p.last_id < c.next_fetch
    BY <1>1 DEF FetchInv, PortInv
  <2> DEFINE q == [p EXCEPT !.responses = Tail(p.responses)]
             fetched == IF IsCurrent(c, c.fetch_request[1])
                          THEN <<FrameOf(c.fetch_request[1], response)>> ELSE c.fetched
             d == [c EXCEPT !.fetch_request = <<>>, !.fetched = fetched]
  <2>6. IsWorld(popped) /\ popped.cpu = c /\ popped.fetch = q /\ popped.data = w.data
        /\ popped.accepted = w.accepted /\ popped.retires = w.retires /\ popped.fault = w.fault
    <3>1. popped = [w EXCEPT !.fetch = q]
      OBVIOUS
    <3> HIDE DEF popped, q
    <3> QED
      BY <1>1, <3>1, WithFetch
  <2>7. IsPort(q) /\ Idle(q) /\ q.last_id = p.last_id
    BY <2>2, <2>3, <2>5, WithResponses DEF Idle
  <2>8. v = [popped EXCEPT !.cpu = d]
    <3>1. c.fetched = <<>>
      BY <1>1, <2>1 DEF FrontInv
    <3>2. Peek(p.responses, now)[1] = p.responses[1]
      BY <2>3
    <3>3. v = IF ~IsCurrent(c, c.fetch_request[1])
                THEN [popped EXCEPT !.cpu.fetch_request = <<>>]
              ELSE [popped EXCEPT !.cpu.fetch_request = <<>>,
                                  !.cpu.fetched = <<FrameOf(c.fetch_request[1], response)>>]
      <4> HIDE DEF response, popped
      <4> QED
        BY <1>3, <2>1, <2>2, <2>4, <3>1, <3>2 DEF TakeFetch, popped
    <3>4. d = IF ~IsCurrent(c, c.fetch_request[1])
                THEN [c EXCEPT !.fetch_request = <<>>]
              ELSE [c EXCEPT !.fetch_request = <<>>,
                             !.fetched = <<FrameOf(c.fetch_request[1], response)>>]
      BY <1>1 DEF CpuType, IsCpu
    <3> HIDE DEF response, popped, d, v
    <3> QED
      BY <2>6, <3>3, <3>4
  <2>9. /\ v.cpu = d /\ v.fetch = q /\ v.data = w.data /\ v.accepted = w.accepted
        /\ v.retires = w.retires /\ v.fault = w.fault /\ IsWorld(v)
    <3> HIDE DEF popped, d, v, q
    <3> QED
      BY <2>6, <2>8, WithCpu
  <2>10. /\ IsCpu(d) /\ d.registers = c.registers /\ d.pc = c.pc /\ d.fetch_pc = c.fetch_pc
         /\ d.fetch_request = <<>> /\ d.fetched = fetched /\ d.decode = c.decode
         /\ d.execute = c.execute /\ d.next_fetch = c.next_fetch /\ d.next_data = c.next_data
         /\ d.generation = c.generation /\ d.halted = c.halted
    <3>1. IsCpu(c)
      BY <1>1 DEF CpuType
    <3> HIDE DEF fetched, c
    <3>2. IsCpu(d)
      <4>1. d = [[c EXCEPT !.fetch_request = <<>>] EXCEPT !.fetched = fetched]
        OBVIOUS
      <4> QED
        BY <3>1, <4>1, WithField
    <3>3. /\ d.registers = c.registers /\ d.pc = c.pc /\ d.fetch_pc = c.fetch_pc
          /\ d.fetch_request = <<>> /\ d.fetched = fetched /\ d.decode = c.decode
      BY <3>1 DEF IsCpu
    <3>4. /\ d.execute = c.execute /\ d.next_fetch = c.next_fetch /\ d.next_data = c.next_data
          /\ d.generation = c.generation /\ d.halted = c.halted
      BY <3>1 DEF IsCpu
    <3> QED
      BY <3>2, <3>3, <3>4
  <2> HIDE DEF d, q, fetched, v, popped
  <2>11. CpuType(d)
    <3>1. IsSlot(fetched) /\ IsSlot(<<>>)
      BY <1>1, SlotOf DEF fetched, CpuType
    <3> QED
      BY <1>1, <2>10, <3>1 DEF CpuType
  <2>12. FrontInv(d)
    <3>1. CASE IsCurrent(c, c.fetch_request[1])
      <4> DEFINE f == FrameOf(c.fetch_request[1], response)
      <4>1. fetched = <<f>> /\ fetched[1] = f /\ fetched # <<>>
        BY <3>1, SlotOf DEF fetched
      <4>2. CurrentRequest(c) /\ c.fetched = <<>>
        BY <1>1, <2>1, <3>1 DEF IsCurrent, CurrentRequest, FrontInv
      <4>3. f.pc = c.fetch_request[1].pc /\ FreshFrame(f)
        BY DEF FrameOf, FreshFrame, IsFrame, ResponseTo, AccessFault, FetchRequest
      <4>4. c.fetch_request[1].pc = c.pc + Occupied(c.execute) + Occupied(c.decode)
        BY <1>1, <4>2 DEF FrontInv
      <4>5. c.fetch_pc = c.pc + Occupied(c.execute) + Occupied(c.decode) + 0 + 1
        BY <1>1, <4>2 DEF FrontInv, Occupied
      <4>6. Occupied(fetched) = 1
        BY <4>1 DEF Occupied
      <4>7. ~CurrentRequest(d)
        BY <2>10 DEF CurrentRequest
      <4>8. c.fetch_pc = c.pc + Occupied(c.execute) + Occupied(c.decode) + Occupied(fetched) + 0
        BY <1>1, <4>5, <4>6 DEF CpuType, Occupied
      <4> HIDE DEF f
      <4> QED
        BY <1>1, <2>10, <4>1, <4>3, <4>4, <4>7, <4>8 DEF FrontInv
    <3>2. CASE ~IsCurrent(c, c.fetch_request[1])
      <4>1. ~CurrentRequest(c) /\ ~CurrentRequest(d) /\ fetched = c.fetched
        BY <1>1, <2>1, <2>10, <3>2 DEF IsCurrent, CurrentRequest, FrontInv, fetched
      <4> QED
        BY <1>1, <2>10, <4>1 DEF FrontInv
    <3> QED
      BY <3>1, <3>2
  <2>13. PathInv(d)
    BY <2>10, <2>12 DEF WorldInv, PathInv, ExecuteFrame
  <2>14. FetchInv(d, q)
    BY <2>5, <2>7, <2>10 DEF FetchInv, PortInv
  <2>15. MemoryOf(v) = MemoryOf(w)
    BY <2>9 DEF MemoryOf
  <2>16. DataInv(d, v.data, MemoryOf(v)) /\ LanesInv(d, v.accepted)
    BY <2>9, <2>10, <2>15, SameExecute DEF WorldInv
  <2>17. WorldInv(v)
    BY <2>9, <2>11, <2>13, <2>14, <2>16 DEF WorldInv
  <2> QED
    BY <2>9, <2>10, <2>17 DEF v
<1> QED
  BY <1>2, <1>3

\* decode: the frame becomes the instruction at pc, with the registers of now.
LEMMA EnterExecuteInv ==
  ASSUME NEW c, CpuType(c), PathInv(c), ~c.halted
  PROVE  LET d == EnterExecute(c)
         IN  /\ CpuType(d) /\ PathInv(d)
             /\ d.registers = c.registers /\ d.pc = c.pc /\ d.halted = c.halted
             /\ d.fetch_request = c.fetch_request
             /\ d.next_fetch = c.next_fetch /\ d.next_data = c.next_data
             /\ \/ d.execute = c.execute
                \/ /\ c.execute = <<>> /\ d.execute # <<>>
                   /\ d.execute[1].memory_request = 0 /\ d.execute[1].completed_lanes = 0
<1> DEFINE d == EnterExecute(c)
<1>1. CASE c.execute # <<>> \/ c.decode = <<>>
  BY <1>1 DEF EnterExecute
<1>2. CASE c.execute = <<>> /\ c.decode # <<>>
  <2> DEFINE f == c.decode[1]
             g == Decoded(f, c.registers)
  <2>1. FreshFrame(f) /\ f.pc = c.pc
    BY <1>2 DEF PathInv, FrontInv, Occupied, CpuType
  <2>2. g = IF f.fault # "None" THEN f
            ELSE IF f.word.op = "Illegal" THEN [f EXCEPT !.fault = "IllegalInstruction"]
            ELSE [f EXCEPT !.lhs = c.registers[f.word.rs1], !.rhs = c.registers[f.word.rs2]]
    BY DEF Decoded
  <2>3. d = [c EXCEPT !.execute = <<g>>, !.decode = <<>>]
    BY <1>2 DEF EnterExecute
  <2> HIDE DEF g, d, f
  <2>4. /\ d.registers = c.registers /\ d.pc = c.pc /\ d.fetch_pc = c.fetch_pc
        /\ d.fetch_request = c.fetch_request /\ d.fetched = c.fetched /\ d.decode = <<>>
        /\ d.execute = <<g>> /\ d.next_fetch = c.next_fetch /\ d.next_data = c.next_data
        /\ d.generation = c.generation /\ d.halted = c.halted /\ IsCpu(d)
    <3>1. IsCpu(c)
      BY DEF CpuType
    <3>2. IsCpu(d)
      <4>1. d = [[c EXCEPT !.execute = <<g>>] EXCEPT !.decode = <<>>]
        BY <2>3
      <4> QED
        BY <3>1, <4>1, WithField
    <3>3. /\ d.registers = c.registers /\ d.pc = c.pc /\ d.fetch_pc = c.fetch_pc
          /\ d.fetch_request = c.fetch_request /\ d.fetched = c.fetched /\ d.decode = <<>>
      BY <2>3, <3>1 DEF IsCpu
    <3>4. /\ d.execute = <<g>> /\ d.next_fetch = c.next_fetch /\ d.next_data = c.next_data
          /\ d.generation = c.generation /\ d.halted = c.halted
      BY <2>3, <3>1 DEF IsCpu
    <3> QED
      BY <3>2, <3>3, <3>4
  <2>5. CpuType(d)
    BY <2>4, SlotOf DEF CpuType
  <2>6. d.execute # <<>> /\ d.execute[1] = g
    BY <2>4, SlotOf
  <2>7. ExecuteFrame(d, g) /\ g.memory_request = 0 /\ g.completed_lanes = 0
    <3>1. CASE f.fault # "None"
      <4>1. g = f
        BY <2>2, <3>1
      <4>2. f.fault = InstructionFault(program, c.pc, c.registers)
        BY <2>1, <3>1 DEF FreshFrame, InstructionFault
      <4> QED
        BY <2>1, <2>4, <3>1, <4>1, <4>2 DEF ExecuteFrame, FreshFrame
    <3>2. CASE f.fault = "None" /\ f.word.op = "Illegal"
      <4>1. c.pc \in DOMAIN program /\ f.word = program[c.pc]
        BY <2>1, <3>2 DEF FreshFrame
      <4>2. InstructionFault(program, c.pc, c.registers) = "IllegalInstruction"
        BY <3>2, <4>1 DEF InstructionFault
      <4>3. g = [f EXCEPT !.fault = "IllegalInstruction"]
        BY <2>2, <3>2
      <4>4. IsFrame(g) /\ g.fault = "IllegalInstruction" /\ g.pc = f.pc
            /\ g.memory_request = f.memory_request /\ g.completed_lanes = f.completed_lanes
        BY <2>1, <4>3 DEF FreshFrame, IsFrame
      <4> QED
        BY <2>1, <2>4, <4>2, <4>4 DEF ExecuteFrame, FreshFrame
    <3>3. CASE f.fault = "None" /\ f.word.op # "Illegal"
      <4>1. c.pc \in DOMAIN program /\ f.word = program[c.pc]
        BY <2>1, <3>3 DEF FreshFrame
      <4>2. g = [f EXCEPT !.lhs = c.registers[f.word.rs1], !.rhs = c.registers[f.word.rs2]]
        BY <2>2, <3>3
      <4>3. IsFrame(g) /\ g.fault = f.fault /\ g.pc = f.pc /\ g.word = f.word
            /\ g.lhs = c.registers[f.word.rs1] /\ g.rhs = c.registers[f.word.rs2]
            /\ g.memory_request = f.memory_request /\ g.completed_lanes = f.completed_lanes
        BY <2>1, <4>2 DEF FreshFrame, IsFrame
      <4>4. f.completed_lanes \in 0..Lanes(f.word)
            /\ (f.word.op \in {"Bundle", "Quantum"} => f.completed_lanes # Lanes(f.word))
        BY <2>1 DEF FreshFrame, Lanes
      <4> QED
        BY <2>1, <2>4, <3>3, <4>1, <4>3, <4>4 DEF ExecuteFrame, FreshFrame
    <3> QED
      BY <3>1, <3>2, <3>3
  <2>8. FrontInv(d)
    <3>1. Occupied(d.execute) = 1 /\ Occupied(d.decode) = 0
          /\ Occupied(c.execute) = 0 /\ Occupied(c.decode) = 1
      BY <1>2, <2>4, <2>6 DEF Occupied
    <3>2. c.pc \in Int
      BY DEF CpuType
    <3>3. CurrentRequest(d) <=> CurrentRequest(c)
      BY <2>4 DEF CurrentRequest
    <3>4. c.pc + 1 + 0 = c.pc + 0 + 1
      BY <3>2
    <3> QED
      BY <2>4, <3>1, <3>3, <3>4 DEF PathInv, FrontInv
  <2> QED
    BY <1>2, <2>4, <2>5, <2>6, <2>7, <2>8 DEF PathInv, d
<1> QED
  BY <1>1, <1>2

\* decode takes the fetched frame.
LEMMA EnterDecodeInv ==
  ASSUME NEW c, CpuType(c), PathInv(c)
  PROVE  LET d == EnterDecode(c)
         IN  /\ CpuType(d) /\ PathInv(d)
             /\ d.registers = c.registers /\ d.pc = c.pc /\ d.halted = c.halted
             /\ d.fetch_request = c.fetch_request /\ d.execute = c.execute
             /\ d.next_fetch = c.next_fetch /\ d.next_data = c.next_data
<1> DEFINE d == EnterDecode(c)
<1>1. CASE c.decode # <<>> \/ c.fetched = <<>>
  BY <1>1 DEF EnterDecode
<1>2. CASE c.decode = <<>> /\ c.fetched # <<>>
  <2>1. d = [c EXCEPT !.decode = c.fetched, !.fetched = <<>>]
    BY <1>2 DEF EnterDecode
  <2> HIDE DEF d
  <2>2. /\ d.registers = c.registers /\ d.pc = c.pc /\ d.fetch_pc = c.fetch_pc
        /\ d.fetch_request = c.fetch_request /\ d.fetched = <<>> /\ d.decode = c.fetched
        /\ d.execute = c.execute /\ d.next_fetch = c.next_fetch /\ d.next_data = c.next_data
        /\ d.generation = c.generation /\ d.halted = c.halted /\ IsCpu(d)
    <3>1. IsCpu(c)
      BY DEF CpuType
    <3>2. IsCpu(d)
      <4>1. d = [[c EXCEPT !.decode = c.fetched] EXCEPT !.fetched = <<>>]
        BY <2>1
      <4> QED
        BY <3>1, <4>1, WithField
    <3>3. /\ d.registers = c.registers /\ d.pc = c.pc /\ d.fetch_pc = c.fetch_pc
          /\ d.fetch_request = c.fetch_request /\ d.fetched = <<>> /\ d.decode = c.fetched
      BY <2>1, <3>1 DEF IsCpu
    <3>4. /\ d.execute = c.execute /\ d.next_fetch = c.next_fetch /\ d.next_data = c.next_data
          /\ d.generation = c.generation /\ d.halted = c.halted
      BY <2>1, <3>1 DEF IsCpu
    <3> QED
      BY <3>2, <3>3, <3>4
  <2>3. CpuType(d)
    BY <2>2, SlotOf DEF CpuType
  <2>4. FrontInv(d)
    <3>1. Occupied(d.decode) = 1 /\ Occupied(d.fetched) = 0
          /\ Occupied(c.decode) = 0 /\ Occupied(c.fetched) = 1
      BY <1>2, <2>2 DEF Occupied
    <3>2. c.pc \in Int /\ Occupied(c.execute) \in Int /\ d.execute = c.execute
      BY <2>2 DEF CpuType, Occupied
    <3>3. ~CurrentRequest(d) /\ ~CurrentRequest(c)
      BY <1>2, <2>2 DEF CurrentRequest, PathInv, FrontInv
    <3>4. /\ c.pc + Occupied(c.execute) + 0 = c.pc + Occupied(c.execute)
          /\ c.pc + Occupied(c.execute) + 0 + 1 + 0 = c.pc + Occupied(c.execute) + 1 + 0 + 0
      BY <3>2
    <3> QED
      BY <1>2, <2>2, <3>1, <3>2, <3>3, <3>4 DEF PathInv, FrontInv
  <2>5. c.execute # <<>> => ExecuteFrame(d, c.execute[1])
    BY <2>2 DEF PathInv, ExecuteFrame
  <2> QED
    BY <2>2, <2>3, <2>4, <2>5 DEF PathInv, d
<1> QED
  BY <1>1, <1>2

\* The next fetch: a new identity, the next instruction of the path, an idle port.
LEMMA IssueFetchInv ==
  ASSUME NEW w, WorldInv(w), ~w.cpu.halted
  PROVE  LET v == IssueFetch(w)
         IN  /\ WorldInv(v)
             /\ v.fault = w.fault /\ v.retires = w.retires
             /\ v.data = w.data /\ v.accepted = w.accepted
             /\ v.cpu.execute = w.cpu.execute /\ v.cpu.pc = w.cpu.pc
             /\ v.cpu.registers = w.cpu.registers /\ v.cpu.halted = w.cpu.halted
<1> DEFINE v == IssueFetch(w)
           c == w.cpu
           p == w.fetch
<1>1. IsWorld(w) /\ CpuType(c) /\ PathInv(c) /\ FetchInv(c, p)
  BY DEF WorldInv
<1>2. CASE c.fetch_request # <<>> \/ c.fetched # <<>> \/ IsFull(p.requests, PortSlots)
  BY <1>2 DEF IssueFetch
<1>3. CASE ~(c.fetch_request # <<>> \/ c.fetched # <<>> \/ IsFull(p.requests, PortSlots))
  <2>1. c.fetch_request = <<>> /\ c.fetched = <<>> /\ Idle(p) /\ PortInv(p, c.next_fetch)
    BY <1>1, <1>3 DEF FetchInv
  <2> DEFINE request == [id |-> c.next_fetch, address |-> c.fetch_pc, kind |-> "Fetch", value |-> 0]
             waiting == [id |-> c.next_fetch, pc |-> c.fetch_pc, generation |-> c.generation]
  <2>2. PICK m : /\ Publish(<<>>, CpuClock, LinkEdges, now, epoch, request) = <<m>>
                 /\ m.epoch = epoch /\ m.value = request
    BY EmptyBox
  <2> DEFINE q == [p EXCEPT !.requests = <<m>>]
             d == [c EXCEPT !.next_fetch = c.next_fetch + 1, !.fetch_pc = c.fetch_pc + 1,
                            !.fetch_request = <<waiting>>]
  <2>3. v = [[w EXCEPT !.fetch = q] EXCEPT !.cpu = d]
    <3>1. v = [w EXCEPT !.fetch.requests = <<m>>,
                        !.cpu.next_fetch = c.next_fetch + 1,
                        !.cpu.fetch_pc = c.fetch_pc + 1,
                        !.cpu.fetch_request = <<waiting>>]
      <4>1. p.requests = <<>> /\ request.id = c.next_fetch
        BY <2>1 DEF Idle
      <4> QED
        BY <1>3, <2>2, <4>1 DEF IssueFetch
    <3> HIDE DEF waiting, v
    <3> QED
      BY <1>1, <3>1 DEF IsWorld
  <2>4. IsWorld(v) /\ v.cpu = d /\ v.fetch = q /\ v.data = w.data
        /\ v.accepted = w.accepted /\ v.retires = w.retires /\ v.fault = w.fault
    <3> HIDE DEF v, d, q
    <3> DEFINE u == [w EXCEPT !.fetch = q]
    <3>1. IsWorld(u) /\ u.fetch = q /\ u.data = w.data
          /\ u.accepted = w.accepted /\ u.retires = w.retires /\ u.fault = w.fault
      BY <1>1, WithFetch
    <3>2. v = [u EXCEPT !.cpu = d]
      BY <2>3
    <3> HIDE DEF u
    <3> QED
      BY <3>1, <3>2, WithCpu
  <2>5. IsPort(q) /\ q.requests = <<m>> /\ q.pending = <<>> /\ q.responses = <<>>
        /\ q.last_id = p.last_id
    BY <2>1, WithRequests DEF PortInv, Idle
  <2>6. /\ d.registers = c.registers /\ d.pc = c.pc /\ d.fetch_pc = c.fetch_pc + 1
        /\ d.fetch_request = <<waiting>> /\ d.fetched = c.fetched /\ d.decode = c.decode
        /\ d.execute = c.execute /\ d.next_fetch = c.next_fetch + 1 /\ d.next_data = c.next_data
        /\ d.generation = c.generation /\ d.halted = c.halted /\ IsCpu(d)
    <3>1. IsCpu(c)
      BY <1>1 DEF CpuType
    <3> HIDE DEF waiting, c
    <3>2. IsCpu(d)
      <4>1. d = [[[c EXCEPT !.next_fetch = c.next_fetch + 1] EXCEPT !.fetch_pc = c.fetch_pc + 1]
                   EXCEPT !.fetch_request = <<waiting>>]
        OBVIOUS
      <4> QED
        BY <3>1, <4>1, WithField
    <3>3. /\ d.registers = c.registers /\ d.pc = c.pc /\ d.fetch_pc = c.fetch_pc + 1
          /\ d.fetch_request = <<waiting>> /\ d.fetched = c.fetched /\ d.decode = c.decode
      BY <3>1 DEF IsCpu
    <3>4. /\ d.execute = c.execute /\ d.next_fetch = c.next_fetch + 1 /\ d.next_data = c.next_data
          /\ d.generation = c.generation /\ d.halted = c.halted
      BY <3>1 DEF IsCpu
    <3> QED
      BY <3>2, <3>3, <3>4
  <2>7. /\ d.fetch_request # <<>> /\ d.fetch_request[1].id = c.next_fetch
        /\ d.fetch_request[1].pc = c.fetch_pc /\ d.fetch_request[1].generation = c.generation
        /\ FetchRequest(d) = request
    BY <2>6, SlotOf DEF FetchRequest
  <2> HIDE DEF d, q, v, waiting, request
  <2>8. CpuType(d)
    BY <1>1, <2>6, SlotOf DEF CpuType
  <2>9. FrontInv(d)
    <3>1. CurrentRequest(d) /\ ~CurrentRequest(c)
      BY <2>1, <2>6, <2>7 DEF CurrentRequest
    <3>2. /\ c.pc \in Int /\ Occupied(c.execute) \in Int /\ Occupied(c.decode) \in Int
          /\ Occupied(c.fetched) = 0 /\ c.next_fetch \in Nat \ {0} /\ c.generation \in Nat
          /\ c.fetch_pc \in Int
      BY <1>1, <2>1 DEF CpuType, Occupied
    <3>3. c.fetch_pc = c.pc + Occupied(c.execute) + Occupied(c.decode) + 0 + 0
      BY <1>1, <3>1, <3>2 DEF PathInv, FrontInv
    <3>4. c.fetch_pc = c.pc + Occupied(c.execute) + Occupied(c.decode)
          /\ c.fetch_pc + 1 = c.pc + Occupied(c.execute) + Occupied(c.decode) + 0 + 1
      BY <3>2, <3>3
    <3>5. c.generation \in 0..c.generation /\ c.next_fetch < c.next_fetch + 1
      BY <3>2
    <3> QED
      BY <1>1, <2>1, <2>6, <2>7, <3>1, <3>2, <3>4, <3>5 DEF PathInv, FrontInv
  <2>10. PathInv(d)
    BY <1>1, <2>6, <2>9 DEF PathInv, ExecuteFrame
  <2>11. FetchInv(d, q)
    <3>1. PortInv(q, d.next_fetch)
      BY <1>1, <2>1, <2>5, <2>6 DEF PortInv, CpuType
    <3>2. request.id > q.last_id
      BY <1>1, <2>1, <2>5 DEF PortInv, CpuType, request
    <3>3. \A r : Holds(q, request, r)
      BY <2>2, <2>5, <3>2, SlotOf DEF Holds
    <3> QED
      BY <2>7, <3>1, <3>3 DEF FetchInv
  <2>12. MemoryOf(v) = MemoryOf(w)
    BY <2>4 DEF MemoryOf
  <2>13. DataInv(d, v.data, MemoryOf(v)) /\ LanesInv(d, v.accepted)
    BY <2>4, <2>6, <2>12, SameExecute DEF WorldInv
  <2>14. WorldInv(v)
    BY <2>4, <2>8, <2>10, <2>11, <2>13 DEF WorldInv
  <2> QED
    BY <2>4, <2>6, <2>14 DEF v
<1> QED
  BY <1>2, <1>3

\* The operations of the retired instructions, in the middle of an edge.
RetiredOf(w) == SubSeq(w.accepted, 1, Len(w.accepted) - CompletedLanes(w.cpu))

\* The same architectural state.
SameArchitecture(w, v) ==
  /\ v.cpu.registers = w.cpu.registers /\ v.cpu.pc = w.cpu.pc /\ v.cpu.halted = w.cpu.halted
  /\ v.retires = w.retires
  /\ RetiredOf(v) = RetiredOf(w)

\* The end of the edge: the stages move up, and the architecture does not see it.
LEMMA FillStages ==
  ASSUME NEW w, WorldInv(w), ~w.cpu.halted
  PROVE  LET v == IssueFetch([w EXCEPT !.cpu = EnterDecode(EnterExecute(@))])
         IN  WorldInv(v) /\ v.fault = w.fault /\ SameArchitecture(w, v)
<1> DEFINE c == w.cpu
           d == EnterExecute(c)
           e == EnterDecode(d)
           u == [w EXCEPT !.cpu = e]
           v == IssueFetch(u)
<1>1. IsWorld(w) /\ CpuType(c) /\ PathInv(c) /\ FetchInv(c, w.fetch)
      /\ DataInv(c, w.data, MemoryOf(w)) /\ LanesInv(c, w.accepted)
  BY DEF WorldInv
<1>2. /\ CpuType(d) /\ PathInv(d)
      /\ d.registers = c.registers /\ d.pc = c.pc /\ d.halted = c.halted
      /\ d.fetch_request = c.fetch_request
      /\ d.next_fetch = c.next_fetch /\ d.next_data = c.next_data
      /\ \/ d.execute = c.execute
         \/ /\ c.execute = <<>> /\ d.execute # <<>>
            /\ d.execute[1].memory_request = 0 /\ d.execute[1].completed_lanes = 0
  BY <1>1, EnterExecuteInv
<1> HIDE DEF d
<1>3. /\ CpuType(e) /\ PathInv(e)
      /\ e.registers = c.registers /\ e.pc = c.pc /\ e.halted = c.halted
      /\ e.fetch_request = c.fetch_request /\ e.execute = d.execute
      /\ e.next_fetch = c.next_fetch /\ e.next_data = c.next_data
  BY <1>2, EnterDecodeInv
<1> HIDE DEF e
<1>4. IsWorld(u) /\ u.cpu = e /\ u.fetch = w.fetch /\ u.data = w.data
      /\ u.accepted = w.accepted /\ u.retires = w.retires /\ u.fault = w.fault
  BY <1>1, WithCpu
<1> HIDE DEF u
<1>5. CompletedLanes(e) = CompletedLanes(c)
  BY <1>2, <1>3 DEF CompletedLanes
<1>6. Accessing(e) <=> Accessing(c)
  BY <1>2, <1>3 DEF Accessing
<1>7. FetchInv(e, u.fetch)
  BY <1>1, <1>3, <1>4 DEF FetchInv, FetchRequest
<1>8. MemoryOf(u) = MemoryOf(w)
  BY <1>4 DEF MemoryOf
<1>9. DataInv(e, u.data, MemoryOf(u)) /\ LanesInv(e, u.accepted)
  <2>1. CASE d.execute = c.execute
    BY <1>1, <1>3, <1>4, <1>8, <2>1, SameExecute
  <2>2. CASE c.execute = <<>>
    <3>1. ~Accessing(c)
      BY <2>2 DEF Accessing
    <3>2. CompletedLanes(e) = 0
      BY <1>5, <2>2 DEF CompletedLanes
    <3> QED
      BY <1>1, <1>3, <1>4, <1>6, <1>8, <3>1, <3>2 DEF DataInv, LanesInv
  <2> QED
    BY <1>2, <2>1, <2>2
<1>10. WorldInv(u) /\ ~u.cpu.halted
  BY <1>3, <1>4, <1>7, <1>9 DEF WorldInv
<1>11. /\ WorldInv(v) /\ v.fault = u.fault /\ v.retires = u.retires /\ v.accepted = u.accepted
       /\ v.cpu.execute = u.cpu.execute /\ v.cpu.pc = u.cpu.pc
       /\ v.cpu.registers = u.cpu.registers /\ v.cpu.halted = u.cpu.halted
  BY <1>10, IssueFetchInv
<1>12. CompletedLanes(v.cpu) = CompletedLanes(c)
  BY <1>4, <1>5, <1>11 DEF CompletedLanes
<1> HIDE DEF v
<1>13. SameArchitecture(w, v)
  BY <1>3, <1>4, <1>11, <1>12 DEF SameArchitecture, RetiredOf
<1>14. WorldInv(v) /\ v.fault = w.fault /\ SameArchitecture(w, v)
  BY <1>4, <1>11, <1>13
<1> QED
  BY <1>14 DEF v, u, e, d

-----------------------------------------------------------------------------
(* The execute stage.                                                      *)

\* The beginning of a sequence does not change when it grows.
LEMMA GrowingPrefix ==
  ASSUME NEW S, NEW s \in Seq(S), NEW t \in Seq(S), NEW n \in 0..Len(s)
  PROVE  SubSeq(s \o t, 1, n) = SubSeq(s, 1, n)
<1>1. s \o t \in Seq(S) /\ Len(s \o t) = Len(s) + Len(t)
  OBVIOUS
<1>2. \A k \in 1..n : (s \o t)[k] = s[k]
  OBVIOUS
<1>3. SubSeq(s \o t, 1, n) = [k \in 1..n |-> (s \o t)[k]]
  BY <1>1
<1>4. SubSeq(s, 1, n) = [k \in 1..n |-> s[k]]
  OBVIOUS
<1> QED
  BY <1>2, <1>3, <1>4

\* A sequence is its beginning followed by its last n elements.
LEMMA SplitSequence ==
  ASSUME NEW S, NEW s \in Seq(S), NEW n \in 0..Len(s)
  PROVE  s = SubSeq(s, 1, Len(s) - n) \o [k \in 1..n |-> s[Len(s) - n + k]]
<1> DEFINE m == Len(s) - n
           a == SubSeq(s, 1, m)
           b == [k \in 1..n |-> s[m + k]]
<1>1. m \in Nat /\ n \in Nat /\ m + n = Len(s) /\ Len(s) \in Nat
  OBVIOUS
<1>2. a \in Seq(S) /\ Len(a) = m /\ \A k \in 1..m : a[k] = s[k]
  <2>1. \A k \in 1..m : s[k] \in S
    BY <1>1
  <2> HIDE DEF m
  <2>2. a \in Seq(S) /\ Len(a) = (IF 1 <= m THEN m - 1 + 1 ELSE 0)
        /\ \A k \in 1..(m - 1 + 1) : a[k] = s[1 + k - 1]
    BY <1>1, <2>1, SubSeqProperties
  <2> HIDE DEF a
  <2>3. m - 1 + 1 = m /\ \A k \in 1..m : 1 + k - 1 = k
    BY <1>1
  <2> QED
    BY <1>1, <2>2, <2>3
<1>3. b \in Seq(S) /\ Len(b) = n /\ \A k \in 1..n : b[k] = s[m + k]
  <2>1. \A k \in 1..n : s[m + k] \in S
    BY <1>1
  <2> QED
    BY <1>1, <2>1
<1> HIDE DEF a, b, m
<1>4. a \o b \in Seq(S) /\ Len(a \o b) = Len(s)
  BY <1>1, <1>2, <1>3
<1>5. \A k \in 1..Len(s) : (a \o b)[k] = s[k]
  <2> TAKE k \in 1..Len(s)
  <2>1. (a \o b)[k] = IF k <= m THEN a[k] ELSE b[k - m]
    <3>1. \A i \in 1..(Len(a) + Len(b)) :
            (a \o b)[i] = IF i <= Len(a) THEN a[i] ELSE b[i - Len(a)]
      BY <1>2, <1>3, ConcatProperties
    <3> QED
      BY <1>1, <1>2, <1>3, <3>1
  <2>2. CASE k <= m
    BY <1>1, <1>2, <2>1, <2>2
  <2>3. CASE ~(k <= m)
    <3>1. k - m \in 1..n /\ m + (k - m) = k
      BY <1>1, <2>3
    <3> QED
      BY <1>3, <2>1, <2>3, <3>1
  <2> QED
    BY <2>2, <2>3
<1>6. s = a \o b
  BY <1>4, <1>5, SeqEqual
<1> QED
  BY <1>6 DEF a, b, m

\* What the execute stage has established when it retires an instruction.
MayRetire(w, value, next_pc, flush) ==
  /\ IsWorld(w) /\ CpuType(w.cpu) /\ FrontInv(w.cpu) /\ w.cpu.execute # <<>>
  /\ FetchInv(w.cpu, w.fetch) /\ PortInv(w.data, w.cpu.next_data) /\ Idle(w.data)
  /\ w.accepted \in Seq(Operations) /\ image \in [Addresses -> Values]
  /\ next_pc \in Int /\ flush \in BOOLEAN
  /\ ~flush => next_pc = w.cpu.pc + 1
  /\ WritesRd(w.cpu.execute[1].word) =>
       w.cpu.execute[1].word.rd \in Registers /\ value \in Values

\* The world v behind the retirement.
IsRetired(w, v, value, next_pc, flush) ==
  LET i == w.cpu.execute[1].word
  IN  /\ WorldInv(v)
      /\ v.retires = TRUE /\ v.fault = w.fault
      /\ v.cpu.pc = next_pc /\ v.cpu.halted = w.cpu.halted
      /\ v.cpu.registers = IF WritesRd(i) THEN WriteRegister(w.cpu.registers, i.rd, value)
                           ELSE w.cpu.registers
      /\ v.cpu.execute = <<>>
      /\ RetiredOf(v) = w.accepted
      /\ flush => ~CurrentRequest(v.cpu)

\* The instruction in execute completes: the path goes on behind it, or a flush
\* drops it and the outstanding request no longer belongs to it.
LEMMA RetireInv ==
  ASSUME NEW w, NEW value, NEW next_pc, NEW flush, MayRetire(w, value, next_pc, flush)
  PROVE  IsRetired(w, Retire(w, value, next_pc, flush), value, next_pc, flush)
<1> DEFINE b == w.cpu
           i == b.execute[1].word
           file == IF WritesRd(i) THEN WriteRegister(b.registers, i.rd, value) ELSE b.registers
           c == [b EXCEPT !.registers = file, !.pc = next_pc, !.execute = <<>>]
           d == IF flush THEN Flush(c) ELSE c
           v == Retire(w, value, next_pc, flush)
<1>0. /\ IsWorld(w) /\ CpuType(w.cpu) /\ FrontInv(w.cpu) /\ w.cpu.execute # <<>>
      /\ FetchInv(w.cpu, w.fetch) /\ PortInv(w.data, w.cpu.next_data) /\ Idle(w.data)
      /\ w.accepted \in Seq(Operations) /\ image \in [Addresses -> Values]
      /\ next_pc \in Int /\ flush \in BOOLEAN
      /\ ~flush => next_pc = w.cpu.pc + 1
      /\ WritesRd(w.cpu.execute[1].word) =>
           w.cpu.execute[1].word.rd \in Registers /\ value \in Values
  BY DEF MayRetire
<1> USE <1>0
<1>1. file \in [Registers -> Values]
  BY DEF CpuType, WriteRegister
<1>2. /\ c.registers = file /\ c.pc = next_pc /\ c.fetch_pc = b.fetch_pc
      /\ c.fetch_request = b.fetch_request /\ c.fetched = b.fetched /\ c.decode = b.decode
      /\ c.execute = <<>> /\ c.next_fetch = b.next_fetch /\ c.next_data = b.next_data
      /\ c.generation = b.generation /\ c.halted = b.halted /\ IsCpu(c)
  <2>1. IsCpu(b)
    BY DEF CpuType
  <2> HIDE DEF b, file
  <2>2. IsCpu(c)
    <3>1. c = [[[b EXCEPT !.registers = file] EXCEPT !.pc = next_pc] EXCEPT !.execute = <<>>]
      OBVIOUS
    <3> QED
      BY <2>1, <3>1, WithField
  <2>3. /\ c.registers = file /\ c.pc = next_pc /\ c.fetch_pc = b.fetch_pc
        /\ c.fetch_request = b.fetch_request /\ c.fetched = b.fetched /\ c.decode = b.decode
    BY <2>1 DEF IsCpu
  <2>4. /\ c.execute = <<>> /\ c.next_fetch = b.next_fetch /\ c.next_data = b.next_data
        /\ c.generation = b.generation /\ c.halted = b.halted
    BY <2>1 DEF IsCpu
  <2> QED
    BY <2>2, <2>3, <2>4
<1> HIDE DEF c
<1>3. /\ d.registers = file /\ d.pc = next_pc
      /\ d.fetch_pc = (IF flush THEN next_pc ELSE b.fetch_pc)
      /\ d.fetch_request = b.fetch_request
      /\ d.fetched = (IF flush THEN <<>> ELSE b.fetched)
      /\ d.decode = (IF flush THEN <<>> ELSE b.decode)
      /\ d.execute = <<>> /\ d.next_fetch = b.next_fetch /\ d.next_data = b.next_data
      /\ d.generation = (IF flush THEN b.generation + 1 ELSE b.generation)
      /\ d.halted = b.halted /\ IsCpu(d)
  <2>1. CASE flush
    <3>1. d = [c EXCEPT !.decode = <<>>, !.fetched = <<>>, !.generation = c.generation + 1,
                        !.fetch_pc = c.pc]
      BY <2>1 DEF Flush
    <3>2. IsCpu(d)
      <4> DEFINE c1 == [c EXCEPT !.decode = <<>>]
                 c2 == [c1 EXCEPT !.fetched = <<>>]
                 c3 == [c2 EXCEPT !.generation = c.generation + 1]
      <4>1. d = [c3 EXCEPT !.fetch_pc = c.pc]
        BY <3>1
      <4>2. IsCpu(c2)
        BY <1>2, WithField
      <4> HIDE DEF c2, d
      <4>3. IsCpu(c3)
        BY <4>2, WithField
      <4> HIDE DEF c3
      <4> QED
        BY <4>1, <4>3, WithField
    <3> HIDE DEF d, b, file
    <3>3. /\ d.registers = c.registers /\ d.pc = c.pc /\ d.fetch_pc = c.pc
          /\ d.fetch_request = c.fetch_request /\ d.fetched = <<>> /\ d.decode = <<>>
      BY <1>2, <3>1 DEF IsCpu
    <3>4. /\ d.execute = c.execute /\ d.next_fetch = c.next_fetch /\ d.next_data = c.next_data
          /\ d.generation = c.generation + 1 /\ d.halted = c.halted
      BY <1>2, <3>1 DEF IsCpu
    <3> QED
      BY <1>2, <2>1, <3>2, <3>3, <3>4
  <2>2. CASE ~flush
    BY <1>2, <2>2
  <2> QED
    BY <2>1, <2>2
<1> HIDE DEF d
<1>4. /\ IsWorld(v) /\ v.cpu = d /\ v.fetch = w.fetch /\ v.data = w.data
      /\ v.accepted = w.accepted /\ v.retires = TRUE /\ v.fault = w.fault
  <2>1. v = [w EXCEPT !.cpu = d, !.retires = TRUE]
    BY DEF Retire, c, d
  <2> HIDE DEF v
  <2> QED
    BY <2>1 DEF IsWorld
<1> HIDE DEF v
<1>5. CpuType(d)
  <2>1. d.fetch_pc \in Int /\ d.generation \in Nat
    BY <1>3 DEF CpuType
  <2>2. IsSlot(d.fetched) /\ IsSlot(d.decode) /\ IsSlot(d.execute) /\ IsSlot(d.fetch_request)
    BY <1>3, SlotOf DEF CpuType
  <2> HIDE DEF file
  <2> QED
    BY <1>1, <1>3, <2>1, <2>2 DEF CpuType
<1>6. FrontInv(d) /\ (flush => ~CurrentRequest(d))
  <2>1. /\ b.pc \in Int /\ b.generation \in Nat /\ Occupied(b.execute) = 1 /\ Occupied(<<>>) = 0
        /\ Occupied(b.decode) \in Int /\ Occupied(b.fetched) \in Int
    BY DEF CpuType, Occupied
  <2>2. CASE flush
    <3>1. ~CurrentRequest(d)
      BY <1>3, <2>1, <2>2 DEF CurrentRequest, FrontInv
    <3>2. next_pc = next_pc + 0 + 0 + 0 + 0
      OBVIOUS
    <3>3. b.fetch_request # <<>> => b.fetch_request[1].generation \in 0..(b.generation + 1)
      <4>1. b.fetch_request # <<>> => b.fetch_request[1].generation \in 0..b.generation
        BY DEF FrontInv
      <4> QED
        BY <2>1, <4>1
    <3> QED
      BY <1>3, <2>1, <2>2, <3>1, <3>2, <3>3 DEF FrontInv
  <2>3. CASE ~flush
    <3>1. CurrentRequest(d) <=> CurrentRequest(b)
      BY <1>3, <2>3 DEF CurrentRequest
    <3>2. next_pc + 0 = b.pc + 1
      BY <2>1, <2>3
    <3> QED
      BY <1>3, <2>1, <2>3, <3>1, <3>2 DEF FrontInv
  <2> QED
    BY <2>2, <2>3
<1>7. PathInv(d)
  BY <1>3, <1>6 DEF PathInv
<1>8. FetchInv(d, v.fetch)
  BY <1>3, <1>4 DEF FetchInv, FetchRequest
<1>9. DataInv(d, v.data, MemoryOf(v))
  BY <1>3, <1>4 DEF DataInv, MemoryOf, Accessing
<1>10. CompletedLanes(d) = 0
  BY <1>3 DEF CompletedLanes
<1>11. LanesInv(d, v.accepted) /\ RetiredOf(v) = w.accepted
  <2>1. Len(w.accepted) \in Nat
    OBVIOUS
  <2>2. SubSeq(w.accepted, 1, Len(w.accepted) - 0) = w.accepted
    BY <2>1, SubSeqFull
  <2> QED
    BY <1>4, <1>10, <2>1, <2>2 DEF LanesInv, RetiredOf
<1>12. WorldInv(v)
  BY <1>4, <1>5, <1>7, <1>8, <1>9, <1>11 DEF WorldInv
<1> QED
  BY <1>3, <1>4, <1>6, <1>11, <1>12 DEF v, IsRetired

\* The instructions of a program.
LEMMA ProgramType ==
  ASSUME program \in Programs, NEW at \in DOMAIN program
  PROVE  /\ program[at].op \in Kinds /\ program[at].rd \in Registers
         /\ program[at].rs1 \in Registers /\ program[at].rs2 \in Registers
         /\ program[at].imm \in Int
<1>1. program[at] \in InstructionSet
  BY ProgramsAssumption
<1> QED
  BY <1>1 DEF InstructionSet

\* The frame in execute, as the lemmas below use it.
LEMMA ExecuteType ==
  ASSUME NEW c, CpuType(c), PathInv(c), program \in Programs, c.execute # <<>>,
         c.execute[1].fault = "None"
  PROVE  LET f == c.execute[1]
         IN  /\ c.execute = <<f>> /\ IsFrame(f) /\ f.pc = c.pc /\ c.pc \in Int /\ ~c.halted
             /\ c.pc \in DOMAIN program
             /\ f.word = program[c.pc] /\ f.word.op \in Kinds \ {"Illegal"}
             /\ f.word.rd \in Registers /\ f.word.imm \in Int
             /\ f.lhs = c.registers[f.word.rs1] /\ f.rhs = c.registers[f.word.rs2]
             /\ f.lhs \in Values /\ f.rhs \in Values
             /\ f.completed_lanes \in 0..Lanes(f.word)
             /\ f.memory_request \in Nat
             /\ f.memory_request # 0 => f.word.op \in {"Load", "Store"}
<1> DEFINE f == c.execute[1]
<1>1. ExecuteFrame(c, f) /\ c.execute = <<f>> /\ c.pc \in Int
  BY DEF PathInv, CpuType, IsSlot
<1>2. /\ IsFrame(f) /\ f.pc = c.pc /\ ~c.halted /\ c.pc \in DOMAIN program
      /\ f.word = program[c.pc] /\ f.word.op # "Illegal"
      /\ f.lhs = c.registers[f.word.rs1] /\ f.rhs = c.registers[f.word.rs2]
      /\ f.completed_lanes \in 0..Lanes(f.word)
      /\ f.memory_request \in Nat
      /\ f.memory_request # 0 => f.word.op \in {"Load", "Store"}
  BY <1>1 DEF ExecuteFrame
<1>3. /\ f.word.op \in Kinds /\ f.word.rd \in Registers
      /\ f.word.rs1 \in Registers /\ f.word.rs2 \in Registers /\ f.word.imm \in Int
  BY <1>2, ProgramType
<1>4. f.lhs \in Values /\ f.rhs \in Values
  BY <1>2, <1>3 DEF CpuType
<1> QED
  BY <1>1, <1>2, <1>3, <1>4

\* A core with another frame in execute, for the same instruction.
LEMMA OtherFrame ==
  ASSUME NEW c, CpuType(c), FrontInv(c), c.execute # <<>>,
         NEW d, IsCpu(d), NEW g, d.execute = <<g>>,
         d.registers = c.registers, d.pc = c.pc, d.fetch_pc = c.fetch_pc,
         d.fetch_request = c.fetch_request, d.fetched = c.fetched, d.decode = c.decode,
         d.next_fetch = c.next_fetch, d.next_data \in Nat \ {0},
         d.generation = c.generation, d.halted = c.halted
  PROVE  CpuType(d) /\ FrontInv(d) /\ d.execute # <<>> /\ d.execute[1] = g
<1>1. CpuType(d)
  BY SlotOf DEF CpuType
<1>2. d.execute # <<>> /\ d.execute[1] = g
  BY SlotOf
<1>3. Occupied(d.execute) = Occupied(c.execute) /\ (CurrentRequest(d) <=> CurrentRequest(c))
  BY <1>2 DEF Occupied, CurrentRequest
<1>4. FrontInv(d)
  BY <1>3 DEF FrontInv
<1> QED
  BY <1>1, <1>2, <1>4

\* What the execute stage may change of its frame: the lanes accepted and the request.
ExecutedFrame(c, f, d, g) ==
  /\ IsFrame(g) /\ g.pc = f.pc /\ g.word = f.word /\ g.fault = f.fault
  /\ g.lhs = f.lhs /\ g.rhs = f.rhs
  /\ d.registers = c.registers /\ d.pc = c.pc /\ d.halted = c.halted
  /\ g.completed_lanes \in 0..Lanes(g.word)
  /\ g.word.op \in {"Bundle", "Quantum"} => g.completed_lanes # Lanes(g.word)
  /\ g.memory_request \in Nat
  /\ g.memory_request # 0 => g.word.op \in {"Load", "Store"} /\ g.memory_request < d.next_data

\* The frame then still executes the instruction at pc.
LEMMA FrameKept ==
  ASSUME NEW c, NEW f, NEW d, NEW g, ExecuteFrame(c, f), f.fault = "None", ExecutedFrame(c, f, d, g)
  PROVE  ExecuteFrame(d, g)
<1>1. /\ f.pc = c.pc /\ ~c.halted /\ c.pc \in DOMAIN program
      /\ f.word = program[c.pc] /\ f.word.op # "Illegal"
      /\ f.lhs = c.registers[f.word.rs1] /\ f.rhs = c.registers[f.word.rs2]
  BY Zenon DEF ExecuteFrame
<1>2. /\ g.pc = d.pc /\ ~d.halted /\ d.pc \in DOMAIN program
      /\ g.word = program[d.pc] /\ g.word.op # "Illegal"
      /\ g.lhs = d.registers[g.word.rs1] /\ g.rhs = d.registers[g.word.rs2]
      /\ g.fault = "None"
  BY <1>1, Zenon DEF ExecutedFrame
<1> QED BY <1>2, Zenon DEF ExecutedFrame, ExecuteFrame

\* Timing control accepts lanes: the operations are those of the instruction, in
\* order, each once.
LEMMA AcceptLanesInv ==
  ASSUME NEW w, WorldInv(w), program \in Programs, w.cpu.execute # <<>>,
         w.cpu.execute[1].fault = "None",
         w.cpu.execute[1].word.op \in {"Bundle", "Quantum"},
         NEW count \in 0..(Lanes(w.cpu.execute[1].word) - w.cpu.execute[1].completed_lanes)
  PROVE  LET v == AcceptLanes(w, count)
             f == w.cpu.execute[1]
             g == v.cpu.execute[1]
         IN  /\ IsWorld(v) /\ CpuType(v.cpu) /\ FrontInv(v.cpu) /\ FetchInv(v.cpu, v.fetch)
             /\ v.cpu.execute # <<>> /\ g.word = f.word
             /\ g.completed_lanes = f.completed_lanes + count
             /\ g.completed_lanes # Lanes(f.word) => ExecuteFrame(v.cpu, g)
             /\ DataInv(v.cpu, v.data, MemoryOf(v)) /\ Idle(v.data)
             /\ v.cpu.next_data = w.cpu.next_data /\ image = MemoryOf(w)
             /\ LanesInv(v.cpu, v.accepted)
             /\ SameArchitecture(w, v) /\ v.fault = w.fault
             /\ g.lhs = f.lhs /\ g.rhs = f.rhs
<1> DEFINE v == AcceptLanes(w, count)
           c == w.cpu
           f == c.execute[1]
           n == f.completed_lanes
           g == [f EXCEPT !.completed_lanes = n + count]
           d == [c EXCEPT !.execute = <<g>>]
           new == [k \in 1..count |-> OperationOf(f.pc, n + k, f.lhs, f.rhs)]
           ops == w.accepted
<1>1. IsWorld(w) /\ CpuType(c) /\ PathInv(c) /\ FetchInv(c, w.fetch)
      /\ DataInv(c, w.data, MemoryOf(w)) /\ LanesInv(c, ops)
  BY DEF WorldInv
<1>2. /\ c.execute = <<f>> /\ IsFrame(f) /\ f.pc = c.pc /\ c.pc \in Int
      /\ f.lhs \in Values /\ f.rhs \in Values
      /\ n \in 0..Lanes(f.word) /\ f.memory_request \in Nat
      /\ f.memory_request # 0 => f.word.op \in {"Load", "Store"}
  BY <1>1, ExecuteType
<1>3. f.memory_request = 0 /\ ExecuteFrame(c, f)
  BY <1>1, <1>2 DEF PathInv
<1>4. Lanes(f.word) \in Nat /\ n \in Nat /\ count \in Nat /\ n + count <= Lanes(f.word)
      /\ n + count \in Nat
  <2>1. Lanes(f.word) \in Nat
    BY DEF Lanes
  <2> QED
    BY <1>2, <2>1
<1>5. /\ IsFrame(g) /\ g.pc = f.pc /\ g.word = f.word /\ g.fault = f.fault /\ g.lhs = f.lhs
      /\ g.rhs = f.rhs /\ g.memory_request = f.memory_request /\ g.completed_lanes = n + count
  BY <1>2 DEF IsFrame
<1> HIDE DEF n
<1>6. v = [[w EXCEPT !.accepted = ops \o new] EXCEPT !.cpu = d]
  <2>1. [c.execute EXCEPT ![1].completed_lanes = n + count] = <<g>>
    BY <1>2 DEF n
  <2>2. v = [w EXCEPT !.accepted = ops \o new,
                      !.cpu.execute = [c.execute EXCEPT ![1].completed_lanes = n + count]]
    BY <1>1 DEF AcceptLanes, n, IsWorld, CpuType, IsCpu
  <2> HIDE DEF g, new, v
  <2>3. v = [w EXCEPT !.accepted = ops \o new, !.cpu.execute = <<g>>]
    BY <2>1, <2>2
  <2> QED
    BY <1>1, <2>3 DEF IsWorld
<1>7. /\ IsWorld(v) /\ v.cpu = d /\ v.fetch = w.fetch /\ v.data = w.data
      /\ v.accepted = ops \o new /\ v.retires = w.retires /\ v.fault = w.fault
  <2> HIDE DEF v, d, new
  <2> QED
    BY <1>1, <1>6 DEF IsWorld
<1>8. /\ CpuType(d) /\ FrontInv(d)
      /\ d.registers = c.registers /\ d.pc = c.pc /\ d.halted = c.halted
      /\ d.fetch_request = c.fetch_request
      /\ d.next_fetch = c.next_fetch /\ d.next_data = c.next_data
      /\ d.execute # <<>> /\ d.execute[1] = g
  <2>1. CpuType(c) /\ FrontInv(c) /\ c.execute # <<>> /\ IsCpu(c) /\ c.next_data \in Nat \ {0}
    BY <1>1 DEF PathInv, CpuType
  <2> HIDE DEF g, c
  <2>2. IsCpu(d)
    BY <2>1, WithField
  <2>3. /\ d.registers = c.registers /\ d.pc = c.pc /\ d.fetch_pc = c.fetch_pc
        /\ d.fetch_request = c.fetch_request /\ d.fetched = c.fetched /\ d.decode = c.decode
    BY <2>1 DEF IsCpu
  <2>4. /\ d.execute = <<g>> /\ d.next_fetch = c.next_fetch /\ d.next_data = c.next_data
        /\ d.generation = c.generation /\ d.halted = c.halted
    BY <2>1 DEF IsCpu
  <2> HIDE DEF d
  <2> QED
    BY <2>1, <2>2, <2>3, <2>4, OtherFrame
<1> HIDE DEF v, d, g
<1>9. FetchInv(v.cpu, v.fetch)
  BY <1>1, <1>7, <1>8 DEF FetchInv, FetchRequest
<1>10. n + count # Lanes(f.word) => ExecuteFrame(d, g)
  <2> SUFFICES ASSUME n + count # Lanes(f.word) PROVE ExecuteFrame(d, g)
    OBVIOUS
  <2>1. g.completed_lanes \in 0..Lanes(g.word) /\ g.completed_lanes # Lanes(g.word)
    BY <1>4, <1>5
  <2>2. g.memory_request = 0
    BY <1>3, <1>5
  <2>3. ExecutedFrame(c, f, d, g)
    BY <1>5, <1>8, <2>1, <2>2 DEF ExecutedFrame
  <2> QED BY <1>3, <2>3, FrameKept
<1>11. DataInv(d, v.data, MemoryOf(v)) /\ Idle(v.data) /\ image = MemoryOf(w)
  <2>1. ~Accessing(c) /\ ~Accessing(d)
    BY <1>3, <1>5, <1>8 DEF Accessing
  <2>2. MemoryOf(v) = MemoryOf(w)
    BY <1>7 DEF MemoryOf
  <2> QED
    BY <1>1, <1>7, <1>8, <2>1, <2>2 DEF DataInv
<1>12. CompletedLanes(c) = n /\ CompletedLanes(d) = n + count
  BY <1>5, <1>8 DEF CompletedLanes, n
<1>13. /\ ops \in Seq(Operations) /\ Len(ops) \in Nat /\ n <= Len(ops)
       /\ \A k \in 1..n : ops[Len(ops) - n + k] = OperationOf(c.pc, k, f.lhs, f.rhs)
  BY <1>1, <1>12 DEF LanesInv
<1>14. new \in Seq(Operations) /\ Len(new) = count
       /\ \A k \in 1..count : new[k] = OperationOf(c.pc, n + k, f.lhs, f.rhs)
  <2>1. \A k \in 1..count : OperationOf(f.pc, n + k, f.lhs, f.rhs) \in Operations
    BY <1>2, <1>4 DEF OperationOf, Operations
  <2> QED
    BY <1>2, <1>4, <2>1
<1> HIDE DEF new
<1>15. ops \o new \in Seq(Operations) /\ Len(ops \o new) = Len(ops) + count
  BY <1>13, <1>14
<1>16. LanesInv(d, v.accepted)
  <2>1. n + count <= Len(ops \o new) /\ Len(ops \o new) - (n + count) = Len(ops) - n
    BY <1>4, <1>13, <1>15
  <2>2. \A i \in 1..(Len(ops) + count) :
          (ops \o new)[i] = IF i <= Len(ops) THEN ops[i] ELSE new[i - Len(ops)]
    BY <1>13, <1>14, ConcatProperties
  <2>3. ASSUME NEW k \in 1..(n + count)
        PROVE  (ops \o new)[Len(ops) - n + k] = OperationOf(c.pc, k, f.lhs, f.rhs)
    <3>1. Len(ops) - n + k \in 1..(Len(ops) + count)
      BY <1>4, <1>13
    <3>2. CASE k <= n
      <4>1. Len(ops) - n + k <= Len(ops) /\ k \in 1..n
        BY <1>4, <1>13, <3>2
      <4> QED
        BY <1>13, <2>2, <3>1, <4>1
    <3>3. CASE k > n
      <4>1. ~(Len(ops) - n + k <= Len(ops)) /\ (Len(ops) - n + k) - Len(ops) = k - n
            /\ k - n \in 1..count /\ n + (k - n) = k
        BY <1>4, <1>13, <3>3
      <4>2. (ops \o new)[Len(ops) - n + k] = new[k - n]
        BY <2>2, <3>1, <4>1
      <4> QED
        BY <1>14, <4>1, <4>2
    <3>4. k <= n \/ k > n
      BY <1>4
    <3> QED
      BY <3>2, <3>3, <3>4
  <2>4. g.lhs = f.lhs /\ g.rhs = f.rhs
    BY <1>5
  <2> QED
    BY <1>7, <1>8, <1>12, <1>15, <2>1, <2>3, <2>4 DEF LanesInv
<1>17. RetiredOf(v) = RetiredOf(w)
  <2>1. Len(ops) - n \in 0..Len(ops)
    BY <1>4, <1>13
  <2>2. SubSeq(ops \o new, 1, Len(ops) - n) = SubSeq(ops, 1, Len(ops) - n)
    BY <1>13, <1>14, <2>1, GrowingPrefix
  <2>3. Len(ops \o new) - (n + count) = Len(ops) - n
    BY <1>4, <1>13, <1>15
  <2> QED
    BY <1>7, <1>12, <2>2, <2>3 DEF RetiredOf
<1>18. SameArchitecture(w, v)
  BY <1>7, <1>8, <1>17 DEF SameArchitecture
<1> QED
  BY <1>5, <1>7, <1>8, <1>9, <1>10, <1>11, <1>16, <1>18 DEF v, n

\* The operations of the first n lanes of the instruction in execute.
LaneOperations(c, n) ==
  [lane \in 1..n |-> OperationOf(c.pc, lane, c.execute[1].lhs, c.execute[1].rhs)]

\* The instruction in execute has issued the operations of its completed lanes.
LEMMA AllLanes ==
  ASSUME NEW w, LanesInv(w.cpu, w.accepted), CompletedLanes(w.cpu) \in Nat
  PROVE  w.accepted = RetiredOf(w) \o LaneOperations(w.cpu, CompletedLanes(w.cpu))
<1> DEFINE ops == w.accepted
           n == CompletedLanes(w.cpu)
<1>1. /\ ops \in Seq(Operations) /\ n \in 0..Len(ops)
      /\ \A k \in 1..n : ops[Len(ops) - n + k] =
                          OperationOf(w.cpu.pc, k, w.cpu.execute[1].lhs, w.cpu.execute[1].rhs)
  BY DEF LanesInv
<1>2. ops = SubSeq(ops, 1, Len(ops) - n) \o [k \in 1..n |-> ops[Len(ops) - n + k]]
  BY <1>1, SplitSequence
<1>3. [k \in 1..n |-> ops[Len(ops) - n + k]] = LaneOperations(w.cpu, n)
  BY <1>1 DEF LaneOperations
<1> QED
  BY <1>2, <1>3 DEF RetiredOf

\* What the execute stage may do: nothing the architecture sees, one instruction
\* of the sequential machine, the fault of the instruction at pc, or a refusal by
\* timing control of one of its commands.
Continues(w, v) == v.fault = "None" /\ WorldInv(v) /\ SameArchitecture(w, v)

IsaResults(i, at, lhs, rhs, memory) ==
  CASE i.op = "Load" -> {memory[lhs]}
    [] i.op = "Quantum" -> Replies
    [] OTHER -> {ResultOf(i, at, lhs, rhs)}

IsaStep(w, v) ==
  LET c   == w.cpu
      i   == program[c.pc]
      lhs == c.registers[i.rs1]
      rhs == c.registers[i.rs2]
  IN  /\ ~c.halted
      /\ InstructionFault(program, c.pc, c.registers) = "None"
      /\ v.cpu.pc = NextPc(i, c.pc, lhs, rhs)
      /\ \E value \in IsaResults(i, c.pc, lhs, rhs, MemoryOf(w)) :
           v.cpu.registers = IF WritesRd(i) THEN WriteRegister(c.registers, i.rd, value)
                             ELSE c.registers
      /\ image = IF i.op = "Store" THEN [MemoryOf(w) EXCEPT ![lhs] = rhs] ELSE MemoryOf(w)
      /\ RetiredOf(v) = RetiredOf(w)
                          \o [lane \in 1..Lanes(i) |-> OperationOf(c.pc, lane, lhs, rhs)]
      /\ v.cpu.halted = (i.op = "Ecall")
      /\ v.retires = TRUE

Executes(w, v) == v.fault = "None" /\ WorldInv(v) /\ IsaStep(w, v)

FaultsAt(w, v) ==
  /\ v.fault # "None"
  /\ v.fault = InstructionFault(program, w.cpu.pc, w.cpu.registers)
  /\ SameArchitecture(w, v)
  /\ image = MemoryOf(w)
  /\ RetiredOf(v) = v.accepted

\* The operations of the first n lanes of the instruction at pc.
LanesAtPc(c, n) ==
  [lane \in 1..n |-> OperationOf(c.pc, lane, c.registers[program[c.pc].rs1],
                                 c.registers[program[c.pc].rs2])]

RefusedAt(w, v) ==
  /\ v.fault = "Control"
  /\ InstructionFault(program, w.cpu.pc, w.cpu.registers) = "None"
  /\ SameArchitecture(w, v)
  /\ image = MemoryOf(w)
  /\ \E n \in 0..(Commands(program[w.cpu.pc]) - 1) :
       v.accepted = RetiredOf(w) \o LanesAtPc(w.cpu, n)

\* Nothing but an accepted bundle has lanes.
LEMMA NoLanes ==
  ASSUME NEW w, LanesInv(w.cpu, w.accepted), CompletedLanes(w.cpu) = 0
  PROVE  RetiredOf(w) = w.accepted
<1>1. w.accepted \in Seq(Operations)
  BY DEF LanesInv
<1>2. Len(w.accepted) - 0 = Len(w.accepted)
  BY <1>1
<1> QED
  BY <1>1, <1>2, SubSeqFull DEF RetiredOf

\* The request of a load or store is sent.
LEMMA SendDataInv ==
  ASSUME NEW w, WorldInv(w), w.fault = "None", program \in Programs, w.cpu.execute # <<>>,
         w.cpu.execute[1].fault = "None", w.cpu.execute[1].word.op \in {"Load", "Store"},
         w.cpu.execute[1].memory_request = 0
  PROVE  Continues(w, AccessData(w))
<1> DEFINE v == AccessData(w)
           c == w.cpu
           f == c.execute[1]
           g == [f EXCEPT !.memory_request = c.next_data]
           d == [c EXCEPT !.next_data = c.next_data + 1, !.execute = <<g>>]
           p == w.data
           request == [id |-> c.next_data, address |-> f.lhs, kind |-> f.word.op, value |-> f.rhs]
<1>1. IsWorld(w) /\ CpuType(c) /\ PathInv(c) /\ FetchInv(c, w.fetch)
      /\ DataInv(c, p, MemoryOf(w)) /\ LanesInv(c, w.accepted)
  BY DEF WorldInv
<1>2. c.execute = <<f>> /\ IsFrame(f) /\ ExecuteFrame(c, f)
  BY <1>1, ExecuteType DEF PathInv
<1>3. ~Accessing(c) /\ Idle(p) /\ PortInv(p, c.next_data) /\ image = MemoryOf(w)
      /\ image \in [Addresses -> Values]
  BY <1>1 DEF DataInv, Accessing
<1>4. PICK m : /\ Publish(<<>>, CpuClock, LinkEdges, now, epoch, request) = <<m>>
               /\ m.epoch = epoch /\ m.value = request
  BY EmptyBox
<1> DEFINE q == [p EXCEPT !.requests = <<m>>]
<1>5. v = [[w EXCEPT !.data = q] EXCEPT !.cpu = d]
  <2>1. [c.execute EXCEPT ![1].memory_request = c.next_data] = <<g>>
    BY <1>2
  <2>2. ~IsFull(p.requests, PortSlots) /\ p.requests = <<>> /\ request.id = c.next_data
    BY <1>3, EmptyBox DEF Idle
  <2>3. v = [w EXCEPT !.data.requests = <<m>>, !.cpu.next_data = c.next_data + 1,
                      !.cpu.execute = [c.execute EXCEPT ![1].memory_request = c.next_data]]
    <3> HIDE DEF q
    <3>1. v = [w EXCEPT !.data.requests = <<m>>, !.cpu.next_data = @ + 1,
                        !.cpu.execute[1].memory_request = c.next_data]
      BY <1>4, <2>2 DEF AccessData
    <3> HIDE DEF v, g, d
    <3> QED
      BY <1>1, <3>1 DEF IsWorld, CpuType, IsCpu
  <2> HIDE DEF g, v
  <2>4. v = [w EXCEPT !.data.requests = <<m>>, !.cpu.next_data = c.next_data + 1,
                      !.cpu.execute = <<g>>]
    BY <2>1, <2>3
  <2> QED
    BY <1>1, <2>4 DEF IsWorld
<1>6. /\ IsWorld(v) /\ v.cpu = d /\ v.fetch = w.fetch /\ v.data = q
      /\ v.accepted = w.accepted /\ v.retires = w.retires /\ v.fault = w.fault
  <2> HIDE DEF v, d, q
  <2> DEFINE u == [w EXCEPT !.data = q]
  <2>1. IsWorld(u) /\ u.fetch = w.fetch /\ u.data = q
        /\ u.accepted = w.accepted /\ u.retires = w.retires /\ u.fault = w.fault
    BY <1>1, WithData
  <2>2. v = [u EXCEPT !.cpu = d]
    BY <1>5
  <2> HIDE DEF u
  <2> QED
    BY <2>1, <2>2, WithCpu
<1>7. IsPort(q) /\ q.requests = <<m>> /\ q.pending = <<>> /\ q.responses = <<>>
      /\ q.last_id = p.last_id
  BY <1>3, WithRequests DEF PortInv, Idle
<1>8. /\ IsFrame(g) /\ g.pc = f.pc /\ g.word = f.word /\ g.fault = f.fault /\ g.lhs = f.lhs
      /\ g.rhs = f.rhs /\ g.memory_request = c.next_data /\ g.completed_lanes = f.completed_lanes
  BY <1>2 DEF IsFrame
<1>9. /\ CpuType(d) /\ FrontInv(d)
      /\ d.registers = c.registers /\ d.pc = c.pc /\ d.halted = c.halted
      /\ d.fetch_request = c.fetch_request
      /\ d.next_fetch = c.next_fetch /\ d.next_data = c.next_data + 1
      /\ d.execute # <<>> /\ d.execute[1] = g /\ c.next_data \in Nat \ {0}
  <2>1. CpuType(c) /\ FrontInv(c) /\ c.execute # <<>> /\ IsCpu(c) /\ c.next_data \in Nat \ {0}
    BY <1>1 DEF PathInv, CpuType
  <2> HIDE DEF g, c
  <2>2. IsCpu(d)
    <3>1. d = [[c EXCEPT !.next_data = c.next_data + 1] EXCEPT !.execute = <<g>>]
      OBVIOUS
    <3> QED
      BY <2>1, <3>1, WithField
  <2>3. /\ d.registers = c.registers /\ d.pc = c.pc /\ d.fetch_pc = c.fetch_pc
        /\ d.fetch_request = c.fetch_request /\ d.fetched = c.fetched /\ d.decode = c.decode
    BY <2>1 DEF IsCpu
  <2>4. /\ d.execute = <<g>> /\ d.next_fetch = c.next_fetch /\ d.next_data = c.next_data + 1
        /\ d.generation = c.generation /\ d.halted = c.halted
    BY <2>1 DEF IsCpu
  <2>5. c.next_data + 1 \in Nat \ {0}
    BY <2>1
  <2> HIDE DEF d
  <2> QED
    BY <2>1, <2>2, <2>3, <2>4, <2>5, OtherFrame
<1> HIDE DEF v, d, g, q
<1>10. ExecuteFrame(d, g)
  <2>1. /\ g.completed_lanes \in 0..Lanes(g.word) /\ g.word.op \in {"Load", "Store"}
        /\ g.word.op \notin {"Bundle", "Quantum"}
    BY <1>2, <1>8 DEF ExecuteFrame
  <2>2. g.memory_request \in Nat /\ g.memory_request < d.next_data
    BY <1>8, <1>9
  <2>3. ExecutedFrame(c, f, d, g)
    BY <1>8, <1>9, <2>1, <2>2, Zenon DEF ExecutedFrame
  <2> QED BY <1>2, <2>3, FrameKept
<1>11. FetchInv(d, v.fetch)
  BY <1>1, <1>6, <1>9 DEF FetchInv, FetchRequest
<1>12. DataInv(d, q, MemoryOf(v))
  <2>1. MemoryOf(v) = MemoryOf(w)
    BY <1>6 DEF MemoryOf
  <2>2. PortInv(q, d.next_data)
    BY <1>3, <1>7, <1>9 DEF PortInv
  <2>3. Accessing(d) /\ DataRequest(d.execute[1]) = request
    BY <1>8, <1>9 DEF Accessing, DataRequest
  <2>4. request.id > q.last_id
    BY <1>3, <1>7, <1>9 DEF PortInv
  <2> HIDE DEF request
  <2>5. \A r : Holds(q, request, r)
    BY <1>4, <1>7, <2>4, SlotOf DEF Holds
  <2> QED
    BY <1>3, <1>7, <2>1, <2>2, <2>3, <2>5 DEF DataInv
<1>13. CompletedLanes(d) = CompletedLanes(c)
  BY <1>8, <1>9 DEF CompletedLanes
<1>14. LanesInv(d, v.accepted) /\ RetiredOf(v) = RetiredOf(w)
  BY <1>1, <1>6, <1>8, <1>9, <1>13 DEF LanesInv, RetiredOf
<1>15. WorldInv(v)
  BY <1>6, <1>9, <1>10, <1>11, <1>12, <1>14 DEF WorldInv, PathInv
<1>16. SameArchitecture(w, v)
  BY <1>6, <1>9, <1>14 DEF SameArchitecture
<1> QED
  BY <1>6, <1>15, <1>16 DEF Continues, v

\* The response of a load or store: it is the awaited one, and it carries the
\* value in memory, the effect of the store or the fault of the access.
LEMMA TakeDataInv ==
  ASSUME NEW w, WorldInv(w), w.fault = "None", program \in Programs, w.cpu.execute # <<>>,
         w.cpu.execute[1].fault = "None", w.cpu.execute[1].word.op \in {"Load", "Store"},
         w.cpu.execute[1].memory_request # 0
  PROVE  LET v == AccessData(w) IN Continues(w, v) \/ Executes(w, v) \/ FaultsAt(w, v)
<1> DEFINE v == AccessData(w)
           c == w.cpu
           f == c.execute[1]
           p == w.data
           memory   == MemoryOf(w)
           request  == DataRequest(f)
           response == ResponseTo(program, memory, request)
           popped   == [w EXCEPT !.data.responses = Tail(@)]
           q == [p EXCEPT !.responses = Tail(p.responses)]
<1>1. IsWorld(w) /\ CpuType(c) /\ PathInv(c) /\ FetchInv(c, w.fetch)
      /\ DataInv(c, p, memory) /\ LanesInv(c, w.accepted)
  BY DEF WorldInv
<1>2. /\ c.execute = <<f>> /\ f.pc = c.pc /\ c.pc \in Int /\ ~c.halted
      /\ c.pc \in DOMAIN program /\ f.word = program[c.pc]
      /\ f.word.rd \in Registers
      /\ f.lhs = c.registers[f.word.rs1] /\ f.rhs = c.registers[f.word.rs2]
      /\ f.lhs \in Values /\ f.rhs \in Values
      /\ f.completed_lanes \in 0..Lanes(f.word)
  BY <1>1, ExecuteType
<1>3. Lanes(f.word) = 0 /\ CompletedLanes(c) = 0
  BY <1>2 DEF Lanes, CompletedLanes
<1>4. Accessing(c) /\ Holds(p, request, response) /\ PortInv(p, c.next_data)
      /\ memory \in [Addresses -> Values]
      /\ image = IF p.responses # <<>> THEN ImageAfter(program, memory, request) ELSE memory
  BY <1>1 DEF DataInv, Accessing
<1>5. CASE Peek(p.responses, now) = <<>>
  <2>1. v = w
    BY <1>5 DEF AccessData
  <2> QED
    BY <2>1 DEF Continues, SameArchitecture
<1>6. CASE Peek(p.responses, now) # <<>>
  <2>1. p.responses # <<>>
    BY <1>6, EmptyBox
  <2>2. /\ IsSlot(p.responses) /\ p.requests = <<>> /\ p.pending = <<>>
        /\ p.responses[1].epoch = epoch /\ p.responses[1].value = response
    BY <1>4, <2>1 DEF Holds
  <2>3. Peek(p.responses, now) = <<p.responses[1]>> /\ Tail(p.responses) = <<>>
        /\ Peek(p.responses, now)[1] = p.responses[1]
    BY <1>6, <2>1, <2>2, FullBox, SlotOf
  <2>4. response.id = f.memory_request /\ response.fault = AccessFault(program, request)
    BY DEF ResponseTo, DataRequest
  <2>5. image = ImageAfter(program, memory, request) /\ image \in [Addresses -> Values]
    <3>1. image = ImageAfter(program, memory, request)
      BY <1>4, <2>1
    <3>2. ImageAfter(program, memory, request) \in [Addresses -> Values]
      BY <1>2, <1>4 DEF ImageAfter, DataRequest
    <3> QED
      BY <3>1, <3>2
  <2>6. IsWorld(popped) /\ popped.cpu = c /\ popped.fetch = w.fetch /\ popped.data = q
        /\ popped.accepted = w.accepted /\ popped.retires = w.retires /\ popped.fault = w.fault
    <3>1. popped = [w EXCEPT !.data = q]
      OBVIOUS
    <3> HIDE DEF popped, q
    <3> QED
      BY <1>1, <3>1, WithData
  <2>7. PortInv(q, c.next_data) /\ Idle(q)
    <3>1. IsPort(p) /\ p.last_id \in Nat /\ p.last_id < c.next_data
      BY <1>4 DEF PortInv
    <3> HIDE DEF p
    <3>2. IsPort(q) /\ q.requests = p.requests /\ q.pending = p.pending
          /\ q.responses = Tail(p.responses) /\ q.last_id = p.last_id
      BY <3>1, WithResponses
    <3> HIDE DEF q
    <3> QED
      BY <2>2, <2>3, <3>1, <3>2 DEF Idle, PortInv
  <2>8. v = IF response.fault # "None" THEN Raise(popped, response.fault)
            ELSE Retire(popped, response.value, f.pc + 1, FALSE)
    <3> HIDE DEF response, popped
    <3> QED
      BY <1>6, <2>2, <2>3, <2>4 DEF AccessData, popped
  <2> DEFINE denied == InstructionFault(program, c.pc, c.registers)
  <2>9. denied = AccessFault(program, request)
    BY <1>2 DEF InstructionFault, AccessFault, DataRequest
  <2> HIDE DEF denied, popped, q, v, response, request
  <2>10. CASE response.fault # "None"
    <3>1. v = [popped EXCEPT !.fault = response.fault]
      BY <2>8, <2>10 DEF Raise
    <3>2. /\ v.cpu = c /\ v.accepted = w.accepted /\ v.retires = w.retires
          /\ v.fault = response.fault
      BY <2>6, <3>1 DEF IsWorld
    <3>3. image = memory
      BY <2>4, <2>5, <2>10 DEF ImageAfter
    <3>4. RetiredOf(v) = RetiredOf(w)
      BY <3>2 DEF RetiredOf
    <3>5. RetiredOf(w) = w.accepted
      BY <1>1, <1>3, NoLanes
    <3> QED
      BY <2>4, <2>9, <2>10, <3>2, <3>3, <3>4, <3>5 DEF FaultsAt, SameArchitecture, denied, v
  <2>11. CASE response.fault = "None"
    <3>1. v = Retire(popped, response.value, c.pc + 1, FALSE)
      BY <1>2, <2>8, <2>11
    <3>2. f.lhs \in Addresses
      BY <2>4, <2>11 DEF AccessFault, request, DataRequest
    <3>3. response.value = IF f.word.op = "Store" THEN 0 ELSE memory[f.lhs]
      BY <2>4, <2>11 DEF response, ResponseTo, request, DataRequest
    <3>4. WritesRd(f.word) => f.word.op = "Load" /\ response.value \in Values
      BY <1>4, <3>2, <3>3 DEF WritesRd
    <3>5. /\ CpuType(popped.cpu) /\ FrontInv(popped.cpu) /\ popped.cpu.execute # <<>>
          /\ FetchInv(popped.cpu, popped.fetch)
          /\ PortInv(popped.data, popped.cpu.next_data) /\ Idle(popped.data)
          /\ popped.accepted \in Seq(Operations) /\ c.pc + 1 \in Int
      BY SMTT(30), <1>1, <1>2, <2>6, <2>7 DEF PathInv, LanesInv
    <3>6. /\ WorldInv(v)
          /\ v.retires = TRUE /\ v.fault = "None"
          /\ v.cpu.pc = c.pc + 1 /\ v.cpu.halted = c.halted
          /\ v.cpu.registers = IF WritesRd(f.word)
                                 THEN WriteRegister(c.registers, f.word.rd, response.value)
                               ELSE c.registers
          /\ RetiredOf(v) = w.accepted
      <4>1. ~FALSE => c.pc + 1 = popped.cpu.pc + 1
        BY <2>6
      <4>2. WritesRd(popped.cpu.execute[1].word) =>
              popped.cpu.execute[1].word.rd \in Registers /\ response.value \in Values
        BY <1>2, <2>6, <3>4
      <4>3. MayRetire(popped, response.value, c.pc + 1, FALSE)
        BY <2>5, <2>6, <3>5, <4>1, <4>2 DEF MayRetire
      <4>4. IsRetired(popped, v, response.value, c.pc + 1, FALSE)
        BY <3>1, <4>3, RetireInv
      <4> QED
        BY <2>6, <4>4 DEF IsRetired
    <3>7. denied = "None"
      BY <2>4, <2>9, <2>11
    <3>8. NextPc(f.word, c.pc, f.lhs, f.rhs) = c.pc + 1
      BY DEF NextPc, IsTaken
    <3>9. \E value \in IsaResults(f.word, c.pc, f.lhs, f.rhs, memory) :
            v.cpu.registers = IF WritesRd(f.word) THEN WriteRegister(c.registers, f.word.rd, value)
                              ELSE c.registers
      <4>1. CASE f.word.op = "Load"
        <5>1. IsaResults(f.word, c.pc, f.lhs, f.rhs, memory) = {response.value}
          BY <3>3, <4>1 DEF IsaResults
        <5> QED
          BY <3>6, <5>1
      <4>2. CASE f.word.op = "Store"
        <5>1. IsaResults(f.word, c.pc, f.lhs, f.rhs, memory) = {ResultOf(f.word, c.pc, f.lhs, f.rhs)}
          BY <4>2 DEF IsaResults
        <5>2. ~WritesRd(f.word)
          BY <4>2 DEF WritesRd
        <5> QED
          BY <3>6, <5>1, <5>2
      <4> QED
        BY <4>1, <4>2
    <3>10. image = IF f.word.op = "Store" THEN [memory EXCEPT ![f.lhs] = f.rhs] ELSE memory
      BY <2>4, <2>5, <2>11 DEF ImageAfter, request, DataRequest
    <3>11. RetiredOf(v) = RetiredOf(w)
             \o [lane \in 1..Lanes(f.word) |-> OperationOf(c.pc, lane, f.lhs, f.rhs)]
      <4>1. w.accepted = RetiredOf(w) \o LaneOperations(c, 0)
        <5>1. LanesInv(c, w.accepted) /\ CompletedLanes(c) \in Nat
          BY <1>1, <1>3
        <5>2. w.accepted = RetiredOf(w) \o LaneOperations(c, CompletedLanes(c))
          BY <5>1, AllLanes, Zenon
        <5> QED
          BY <1>3, <5>2
      <4> QED
        BY <1>3, <3>6, <4>1 DEF LaneOperations
    <3>12. v.cpu.halted = (f.word.op = "Ecall")
      <4>1. c.halted = FALSE
        BY <1>1, <1>2 DEF CpuType
      <4> QED
        BY <3>6, <4>1
    <3>13. IsaStep(w, v)
      BY <1>2, <3>6, <3>7, <3>8, <3>9, <3>10, <3>11, <3>12 DEF IsaStep, denied
    <3> QED
      BY <3>6, <3>13 DEF Executes, v
  <2> QED
    BY <2>10, <2>11
<1> QED
  BY <1>5, <1>6

\* What makes the retirement from u one step of the sequential machine from w.
RetiresAs(w, u, value, next_pc) ==
  LET c == w.cpu
      f == c.execute[1]
  IN  /\ u.fault = "None" /\ u.cpu.registers = c.registers /\ u.cpu.halted = c.halted
      /\ u.cpu.execute[1].word = f.word
      /\ u.accepted = RetiredOf(w) \o LaneOperations(c, Lanes(f.word))
      /\ f.word.op \notin {"Ecall", "Store"} /\ image = MemoryOf(w)
      /\ InstructionFault(program, c.pc, c.registers) = "None"
      /\ next_pc = NextPc(f.word, c.pc, f.lhs, f.rhs)
      /\ value \in IsaResults(f.word, c.pc, f.lhs, f.rhs, MemoryOf(w)) \/ f.word.op = "Bundle"

\* A retirement is one step of the sequential machine.
LEMMA RetireExecutes ==
  ASSUME NEW w, WorldInv(w), program \in Programs, w.cpu.execute # <<>>,
         w.cpu.execute[1].fault = "None",
         NEW u, NEW v, NEW value, NEW next_pc, NEW flush,
         IsRetired(u, v, value, next_pc, flush), RetiresAs(w, u, value, next_pc)
  PROVE  Executes(w, v)
<1> DEFINE c == w.cpu
           f == c.execute[1]
           i == f.word
           results == IsaResults(i, c.pc, f.lhs, f.rhs, MemoryOf(w))
<1>1. CpuType(c) /\ PathInv(c)
  BY DEF WorldInv
<1>2. /\ ~c.halted /\ i = program[c.pc]
      /\ f.lhs = c.registers[i.rs1] /\ f.rhs = c.registers[i.rs2]
  BY <1>1, ExecuteType
<1>3. /\ WorldInv(v) /\ v.retires = TRUE /\ v.fault = "None"
      /\ v.cpu.pc = next_pc /\ v.cpu.halted = c.halted
      /\ v.cpu.registers = (IF WritesRd(i) THEN WriteRegister(c.registers, i.rd, value)
                            ELSE c.registers)
      /\ RetiredOf(v) = RetiredOf(w) \o LaneOperations(c, Lanes(i))
  BY DEF IsRetired, RetiresAs
<1>0. /\ i.op \notin {"Ecall", "Store"} /\ image = MemoryOf(w)
      /\ InstructionFault(program, c.pc, c.registers) = "None"
      /\ next_pc = NextPc(i, c.pc, f.lhs, f.rhs)
      /\ value \in results \/ i.op = "Bundle"
  BY DEF RetiresAs
<1>4. v.cpu.halted = (i.op = "Ecall")
  <2>1. c.halted = FALSE
    BY <1>1, <1>2 DEF CpuType
  <2> QED
    BY <1>0, <1>3, <2>1
<1>5. \E x \in results :
        v.cpu.registers = IF WritesRd(i) THEN WriteRegister(c.registers, i.rd, x)
                          ELSE c.registers
  <2>1. CASE value \in results
    BY <1>3, <2>1
  <2>2. CASE i.op = "Bundle"
    <3>1. results = {ResultOf(i, c.pc, f.lhs, f.rhs)} /\ ~WritesRd(i)
      BY <2>2 DEF IsaResults, WritesRd
    <3> QED
      BY <1>3, <3>1
  <2> QED
    BY <1>0, <2>1, <2>2
<1>6. RetiredOf(v) = RetiredOf(w)
        \o [lane \in 1..Lanes(i) |-> OperationOf(c.pc, lane, f.lhs, f.rhs)]
  BY <1>3 DEF LaneOperations
<1>7. IsaStep(w, v)
  <2> DEFINE j == program[c.pc]
             lhs == c.registers[j.rs1]
             rhs == c.registers[j.rs2]
  <2>1. j = i /\ lhs = f.lhs /\ rhs = f.rhs
    BY <1>2
  <2> HIDE DEF j, lhs, rhs
  <2>2. \E x \in IsaResults(j, c.pc, lhs, rhs, MemoryOf(w)) :
          v.cpu.registers = IF WritesRd(j) THEN WriteRegister(c.registers, j.rd, x)
                            ELSE c.registers
    BY <1>5, <2>1
  <2>3. RetiredOf(v) = RetiredOf(w)
          \o [lane \in 1..Lanes(j) |-> OperationOf(c.pc, lane, lhs, rhs)]
    BY <1>6, <2>1
  <2>4. /\ v.cpu.pc = NextPc(j, c.pc, lhs, rhs)
        /\ image = IF j.op = "Store" THEN [MemoryOf(w) EXCEPT ![lhs] = rhs] ELSE MemoryOf(w)
        /\ v.cpu.halted = (j.op = "Ecall")
    BY <1>0, <1>3, <1>4, <2>1
  <2> QED
    BY <1>0, <1>2, <1>3, <2>2, <2>3, <2>4, Zenon DEF IsaStep, j, lhs, rhs
<1> QED
  BY <1>3, <1>7 DEF Executes

\* The fault found by fetch or decode is raised at the instruction itself.
LEMMA RaiseInv ==
  ASSUME NEW w, WorldInv(w), w.cpu.execute # <<>>,
         NEW reason, reason # "None",
         reason = InstructionFault(program, w.cpu.pc, w.cpu.registers),
         w.cpu.execute[1].memory_request = 0, w.cpu.execute[1].completed_lanes = 0
  PROVE  FaultsAt(w, Raise(w, reason))
<1> DEFINE v == Raise(w, reason)
<1>1. IsWorld(w) /\ DataInv(w.cpu, w.data, MemoryOf(w)) /\ LanesInv(w.cpu, w.accepted)
  BY DEF WorldInv
<1>2. v.cpu = w.cpu /\ v.accepted = w.accepted /\ v.retires = w.retires /\ v.fault = reason
  BY <1>1 DEF Raise, IsWorld
<1>3. image = MemoryOf(w)
  BY <1>1 DEF DataInv, Accessing
<1>4. CompletedLanes(w.cpu) = 0
  BY DEF CompletedLanes
<1>5. RetiredOf(w) = w.accepted
  BY <1>1, <1>4, NoLanes
<1> HIDE DEF v
<1>6. RetiredOf(v) = RetiredOf(w)
  BY <1>2 DEF RetiredOf
<1>7. FaultsAt(w, v)
  BY <1>2, <1>3, <1>5, <1>6 DEF FaultsAt, SameArchitecture
<1> QED
  BY <1>7 DEF v

\* Timing control refuses the exit.
LEMMA RefusedExit ==
  ASSUME NEW w, WorldInv(w), program \in Programs, w.cpu.execute # <<>>,
         w.cpu.execute[1].fault = "None", w.cpu.execute[1].word.op = "Ecall",
         IsExit(w.cpu.registers)
  PROVE  RefusedAt(w, Raise(w, "Control"))
<1> DEFINE v == Raise(w, "Control")
           c == w.cpu
           f == c.execute[1]
<1>1. /\ IsWorld(w) /\ CpuType(c) /\ PathInv(c) /\ DataInv(c, w.data, MemoryOf(w))
      /\ LanesInv(c, w.accepted)
  BY DEF WorldInv
<1>2. /\ c.pc \in DOMAIN program /\ f.word = program[c.pc] /\ f.pc = c.pc
      /\ f.lhs = c.registers[f.word.rs1] /\ f.rhs = c.registers[f.word.rs2]
      /\ f.completed_lanes \in 0..Lanes(f.word)
      /\ f.memory_request \in Nat
      /\ f.memory_request # 0 => f.word.op \in {"Load", "Store"}
  BY <1>1, ExecuteType
<1>3. f.memory_request = 0 /\ CompletedLanes(c) = 0
  <2>1. Lanes(f.word) = 0 /\ f.word.op \notin {"Load", "Store"}
    BY DEF Lanes
  <2>2. f.memory_request = 0 /\ f.completed_lanes = 0
    BY <1>2, <2>1
  <2> QED
    BY <2>2 DEF CompletedLanes
<1>4. image = MemoryOf(w)
  BY <1>1, <1>3 DEF DataInv, Accessing
<1>5. v.cpu = c /\ v.accepted = w.accepted /\ v.retires = w.retires /\ v.fault = "Control"
  BY <1>1 DEF Raise, IsWorld
<1> HIDE DEF v
<1>6. SameArchitecture(w, v)
  <2>1. RetiredOf(v) = RetiredOf(w)
    BY <1>5 DEF RetiredOf
  <2> QED
    BY <1>5, <2>1 DEF SameArchitecture
<1>7. InstructionFault(program, c.pc, c.registers) = "None" /\ Commands(program[c.pc]) = 1
  BY <1>2 DEF InstructionFault, Commands
<1>8. v.accepted = RetiredOf(w) \o LanesAtPc(c, 0)
  <2>1. w.accepted = RetiredOf(w) \o LaneOperations(c, CompletedLanes(c))
    BY <1>1, <1>3, AllLanes
  <2>2. LaneOperations(c, 0) = LanesAtPc(c, 0)
    BY <1>2 DEF LaneOperations, LanesAtPc
  <2> QED
    BY <1>3, <1>5, <2>1, <2>2
<1>9. 0 \in 0..(Commands(program[c.pc]) - 1)
  BY <1>7
<1>10. RefusedAt(w, v)
  BY <1>4, <1>5, <1>6, <1>7, <1>8, <1>9 DEF RefusedAt
<1> QED
  BY <1>10 DEF v

\* Timing control refuses a lane, and the lanes before it have been issued.
LEMMA RefusedLane ==
  ASSUME NEW w, WorldInv(w), w.fault = "None", program \in Programs, w.cpu.execute # <<>>,
         w.cpu.execute[1].fault = "None",
         w.cpu.execute[1].word.op \in {"Bundle", "Quantum"},
         NEW count \in 0..(Lanes(w.cpu.execute[1].word) - w.cpu.execute[1].completed_lanes),
         count < Lanes(w.cpu.execute[1].word) - w.cpu.execute[1].completed_lanes
  PROVE  RefusedAt(w, Raise(AcceptLanes(w, count), "Control"))
<1> DEFINE c == w.cpu
           f == c.execute[1]
           i == f.word
           u == AcceptLanes(w, count)
           g == u.cpu.execute[1]
           v == Raise(u, "Control")
           n == g.completed_lanes
<1>1. CpuType(c) /\ PathInv(c)
  BY DEF WorldInv
<1>2. /\ f.pc = c.pc /\ c.pc \in DOMAIN program /\ i = program[c.pc]
      /\ f.lhs = c.registers[i.rs1] /\ f.rhs = c.registers[i.rs2]
      /\ f.completed_lanes \in 0..Lanes(i) /\ c.execute = <<f>>
  BY <1>1, ExecuteType
<1>3. /\ IsWorld(u) /\ u.cpu.execute # <<>>
      /\ image = MemoryOf(w)
      /\ LanesInv(u.cpu, u.accepted)
      /\ SameArchitecture(w, u)
      /\ g.lhs = f.lhs /\ g.rhs = f.rhs
  BY AcceptLanesInv
<1>4. n = f.completed_lanes + count /\ n \in 0..(Lanes(i) - 1)
  <2>1. n = f.completed_lanes + count
    BY AcceptLanesInv
  <2>2. Lanes(i) \in Nat
    BY DEF Lanes
  <2> HIDE DEF n
  <2> QED
    BY <1>2, <2>1, <2>2
<1> HIDE DEF u
<1>5. v.cpu = u.cpu /\ v.accepted = u.accepted /\ v.retires = u.retires /\ v.fault = "Control"
  BY <1>3 DEF Raise, IsWorld
<1>6. /\ u.cpu.registers = c.registers /\ u.cpu.pc = c.pc /\ u.cpu.halted = c.halted
      /\ RetiredOf(u) = RetiredOf(w) /\ u.retires = w.retires
  BY <1>3 DEF SameArchitecture
<1> HIDE DEF v
<1>7. SameArchitecture(w, v)
  <2>1. RetiredOf(v) = RetiredOf(u)
    BY <1>5 DEF RetiredOf
  <2> QED
    BY <1>5, <1>6, <2>1 DEF SameArchitecture
<1>8. InstructionFault(program, c.pc, c.registers) = "None" /\ Commands(program[c.pc]) = Lanes(i)
  BY <1>2 DEF InstructionFault, Commands
<1>9. v.accepted = RetiredOf(w) \o LanesAtPc(c, n)
  <2>1. CompletedLanes(u.cpu) = n /\ n \in Nat
    BY <1>3, <1>4 DEF CompletedLanes
  <2>2. u.accepted = RetiredOf(u) \o LaneOperations(u.cpu, n)
    BY <1>3, <2>1, AllLanes
  <2>3. LaneOperations(u.cpu, n) = LanesAtPc(c, n)
    BY <1>2, <1>3, <1>6 DEF LaneOperations, LanesAtPc
  <2> HIDE DEF n
  <2> QED
    BY <1>5, <1>6, <2>2, <2>3
<1> HIDE DEF n
<1>10. n \in 0..(Commands(program[c.pc]) - 1)
  BY <1>4, <1>8
<1>11. RefusedAt(w, v)
  BY <1>3, <1>5, <1>7, <1>8, <1>9, <1>10 DEF RefusedAt
<1> QED
  BY <1>11 DEF v, u

\* What the frame in execute may retire with while it has not used the data port.
LEMMA ReadyToRetire ==
  ASSUME NEW w, WorldInv(w), program \in Programs, w.cpu.execute # <<>>,
         w.cpu.execute[1].fault = "None", w.cpu.execute[1].memory_request = 0
  PROVE  /\ IsWorld(w) /\ CpuType(w.cpu) /\ FrontInv(w.cpu)
         /\ FetchInv(w.cpu, w.fetch) /\ PortInv(w.data, w.cpu.next_data) /\ Idle(w.data)
         /\ w.accepted \in Seq(Operations) /\ image \in [Addresses -> Values]
         /\ w.cpu.execute[1].word.rd \in Registers
         /\ image = MemoryOf(w)
<1>1. /\ IsWorld(w) /\ CpuType(w.cpu) /\ PathInv(w.cpu) /\ FetchInv(w.cpu, w.fetch)
      /\ DataInv(w.cpu, w.data, MemoryOf(w)) /\ LanesInv(w.cpu, w.accepted)
  BY DEF WorldInv
<1>2. FrontInv(w.cpu) /\ w.accepted \in Seq(Operations)
  BY <1>1 DEF PathInv, LanesInv
<1>3. ~Accessing(w.cpu)
  BY DEF Accessing
<1>4. /\ PortInv(w.data, w.cpu.next_data) /\ Idle(w.data) /\ image = MemoryOf(w)
      /\ image \in [Addresses -> Values]
  BY <1>1, <1>3 DEF DataInv
<1>5. w.cpu.execute[1].word.rd \in Registers
  BY <1>1, ExecuteType
<1> QED
  BY <1>1, <1>2, <1>4, <1>5

\* An instruction that only computes.
LEMMA ComputeInv ==
  ASSUME NEW w, WorldInv(w), w.fault = "None", program \in Programs, w.cpu.execute # <<>>,
         w.cpu.execute[1].fault = "None",
         w.cpu.execute[1].word.op \in {"Alu", "Jump", "Branch"}
  PROVE  LET f == w.cpu.execute[1]
             i == f.word
         IN  Executes(w, Retire(w, ResultOf(i, f.pc, f.lhs, f.rhs),
                                NextPc(i, f.pc, f.lhs, f.rhs), IsTaken(i, f.lhs, f.rhs)))
<1> DEFINE c == w.cpu
           f == c.execute[1]
           i == f.word
           value == ResultOf(i, f.pc, f.lhs, f.rhs)
           next_pc == NextPc(i, f.pc, f.lhs, f.rhs)
           flush == IsTaken(i, f.lhs, f.rhs)
           v == Retire(w, value, next_pc, flush)
<1>1. CpuType(c) /\ PathInv(c) /\ LanesInv(c, w.accepted)
  BY DEF WorldInv
<1>2. /\ f.pc = c.pc /\ c.pc \in Int /\ c.pc \in DOMAIN program /\ i = program[c.pc]
      /\ i.imm \in Int /\ f.lhs \in Values /\ f.rhs \in Values
      /\ f.completed_lanes \in 0..Lanes(i) /\ f.memory_request \in Nat
      /\ f.memory_request # 0 => i.op \in {"Load", "Store"}
  BY <1>1, ExecuteType
<1>3. f.memory_request = 0 /\ Lanes(i) = 0 /\ CompletedLanes(c) = 0
  <2>1. Lanes(i) = 0
    BY DEF Lanes
  <2> QED
    BY <1>2, <2>1 DEF CompletedLanes
<1>4. value \in Values
  <2>1. f.lhs \in Int /\ f.rhs \in Int /\ Modulus \in Nat \ {0}
    BY <1>2, IsaAssumption DEF Values
  <2>2. (IF i.op = "Jump" THEN f.pc + 1 ELSE f.lhs + f.rhs + i.imm) \in Int
    <3>1. f.pc + 1 \in Int
      BY <1>2
    <3>2. \A a, b, d \in Int : a + b + d \in Int
      OBVIOUS
    <3>3. f.lhs + f.rhs + i.imm \in Int
      <4>1. i.imm \in Int
        BY <1>2
      <4> HIDE DEF f, i
      <4> QED
        BY <2>1, <3>2, <4>1
    <3> QED
      BY <3>1, <3>3
  <2>3. \A x \in Int : x % Modulus \in 0..(Modulus - 1)
    BY <2>1
  <2> QED
    BY <2>2, <2>3 DEF ResultOf, Values
<1>5. next_pc \in Int /\ flush \in BOOLEAN /\ (~flush => next_pc = c.pc + 1)
  BY <1>2 DEF NextPc, IsTaken
<1>6. InstructionFault(program, c.pc, c.registers) = "None"
  BY <1>2 DEF InstructionFault
<1>7. value \in IsaResults(i, c.pc, f.lhs, f.rhs, MemoryOf(w))
  BY <1>2 DEF IsaResults
<1>8. next_pc = NextPc(i, c.pc, f.lhs, f.rhs)
  BY <1>2
<1> HIDE DEF value, next_pc, flush
<1>9. MayRetire(w, value, next_pc, flush) /\ image = MemoryOf(w)
  BY <1>3, <1>4, <1>5, ReadyToRetire DEF MayRetire
<1>10. IsRetired(w, v, value, next_pc, flush)
  BY <1>9, RetireInv
<1>11. w.accepted = RetiredOf(w) \o LaneOperations(c, Lanes(i))
  <2>1. LanesInv(c, w.accepted) /\ CompletedLanes(c) \in Nat
    BY <1>1, <1>3
  <2>2. w.accepted = RetiredOf(w) \o LaneOperations(c, CompletedLanes(c))
    BY <2>1, AllLanes, Zenon
  <2> QED
    BY <1>3, <2>2
<1> HIDE DEF v
<1>12. RetiresAs(w, w, value, next_pc)
  BY <1>6, <1>7, <1>8, <1>9, <1>11 DEF RetiresAs
<1>13. Executes(w, v)
  BY <1>10, <1>12, RetireExecutes
<1> QED
  BY <1>13 DEF v, value, next_pc, flush

\* A bundle or quantum operation: it waits for its remaining lanes or retires.
LEMMA BundleInv ==
  ASSUME NEW w, WorldInv(w), w.fault = "None", program \in Programs, w.cpu.execute # <<>>,
         w.cpu.execute[1].fault = "None",
         w.cpu.execute[1].word.op \in {"Bundle", "Quantum"},
         NEW count \in 0..(Lanes(w.cpu.execute[1].word) - w.cpu.execute[1].completed_lanes),
         NEW reply \in Replies
  PROVE  LET f == w.cpu.execute[1]
             u == AcceptLanes(w, count)
             v == IF u.cpu.execute[1].completed_lanes = Lanes(f.word)
                    THEN Retire(u, reply, f.pc + 1, FALSE) ELSE u
         IN  Continues(w, v) \/ Executes(w, v)
<1> DEFINE c == w.cpu
           f == c.execute[1]
           i == f.word
           u == AcceptLanes(w, count)
           g == u.cpu.execute[1]
           v == IF g.completed_lanes = Lanes(i) THEN Retire(u, reply, f.pc + 1, FALSE) ELSE u
<1>1. CpuType(c) /\ PathInv(c)
  BY DEF WorldInv
<1>2. /\ f.pc = c.pc /\ c.pc \in Int /\ c.pc \in DOMAIN program /\ i = program[c.pc]
      /\ i.rd \in Registers
  BY <1>1, ExecuteType
<1>3. /\ IsWorld(u) /\ CpuType(u.cpu) /\ FrontInv(u.cpu) /\ FetchInv(u.cpu, u.fetch)
      /\ u.cpu.execute # <<>> /\ g.word = i
      /\ g.completed_lanes # Lanes(i) => ExecuteFrame(u.cpu, g)
      /\ DataInv(u.cpu, u.data, MemoryOf(u)) /\ Idle(u.data)
      /\ image = MemoryOf(w)
      /\ LanesInv(u.cpu, u.accepted)
      /\ SameArchitecture(w, u) /\ u.fault = w.fault
      /\ g.lhs = f.lhs /\ g.rhs = f.rhs
  BY AcceptLanesInv
<1> HIDE DEF u
<1>4. CASE g.completed_lanes # Lanes(i)
  <2>1. v = u
    BY <1>4
  <2>2. WorldInv(u)
    BY <1>3, <1>4 DEF WorldInv, PathInv
  <2>3. Continues(w, v)
    BY <1>3, <2>1, <2>2 DEF Continues
  <2> QED
    BY <2>3 DEF u
<1>5. CASE g.completed_lanes = Lanes(i)
  <2>1. v = Retire(u, reply, c.pc + 1, FALSE)
    BY <1>2, <1>5
  <2>2. /\ u.cpu.registers = c.registers /\ u.cpu.pc = c.pc /\ u.cpu.halted = c.halted
        /\ RetiredOf(u) = RetiredOf(w) /\ u.retires = w.retires
    BY <1>3 DEF SameArchitecture
  <2>3. PortInv(u.data, u.cpu.next_data) /\ image \in [Addresses -> Values]
    <3>1. MemoryOf(u) = MemoryOf(w)
      BY <2>2 DEF MemoryOf
    <3> QED
      BY <1>3, <3>1 DEF DataInv
  <2>4. u.accepted \in Seq(Operations) /\ reply \in Values
    BY <1>3, IsaAssumption DEF LanesInv
  <2>5. MayRetire(u, reply, c.pc + 1, FALSE)
    <3>1. c.pc + 1 \in Int /\ c.pc + 1 = u.cpu.pc + 1
      BY <1>2, <2>2
    <3>2. u.cpu.execute[1].word.rd \in Registers
      BY <1>2, <1>3
    <3> HIDE DEF g
    <3> QED
      BY <1>3, <2>3, <2>4, <3>1, <3>2 DEF MayRetire
  <2>6. IsRetired(u, v, reply, c.pc + 1, FALSE)
    BY <2>1, <2>5, RetireInv
  <2>7. u.accepted = RetiredOf(w) \o LaneOperations(c, Lanes(i))
    <3>1. CompletedLanes(u.cpu) = Lanes(i) /\ Lanes(i) \in Nat
      BY <1>3, <1>5 DEF CompletedLanes, Lanes
    <3>2. LanesInv(u.cpu, u.accepted) /\ CompletedLanes(u.cpu) \in Nat
      BY <1>3, <3>1
    <3>3. u.accepted = RetiredOf(u) \o LaneOperations(u.cpu, CompletedLanes(u.cpu))
      BY <3>2, AllLanes, Zenon
    <3>4. LaneOperations(u.cpu, Lanes(i)) = LaneOperations(c, Lanes(i))
      BY <1>3, <2>2 DEF LaneOperations
    <3> QED
      BY <2>2, <3>1, <3>3, <3>4
  <2>8. InstructionFault(program, c.pc, c.registers) = "None"
    BY <1>2 DEF InstructionFault
  <2>9. c.pc + 1 = NextPc(i, c.pc, f.lhs, f.rhs)
    BY DEF NextPc, IsTaken
  <2>10. reply \in IsaResults(i, c.pc, f.lhs, f.rhs, MemoryOf(w)) \/ i.op = "Bundle"
    BY DEF IsaResults
  <2>11. RetiresAs(w, u, reply, c.pc + 1)
    BY <1>3, <2>2, <2>7, <2>8, <2>9, <2>10 DEF RetiresAs
  <2> HIDE DEF v
  <2>12. Executes(w, v)
    BY <2>6, <2>11, RetireExecutes
  <2> QED
    BY <2>12 DEF v, u
<1> QED
  BY <1>4, <1>5

\* A core that has retired the exit is halted.
LEMMA HaltInv ==
  ASSUME NEW w, WorldInv(w), w.cpu.execute = <<>>, ~CurrentRequest(w.cpu)
  PROVE  LET v == [w EXCEPT !.cpu.halted = TRUE]
         IN  /\ WorldInv(v) /\ v.cpu.halted = TRUE
             /\ v.cpu.pc = w.cpu.pc /\ v.cpu.registers = w.cpu.registers
             /\ v.retires = w.retires /\ v.fault = w.fault /\ RetiredOf(v) = RetiredOf(w)
<1> DEFINE v == [w EXCEPT !.cpu.halted = TRUE]
           c == w.cpu
           d == [c EXCEPT !.halted = TRUE]
<1>1. IsWorld(w) /\ CpuType(c) /\ PathInv(c) /\ FetchInv(c, w.fetch)
      /\ DataInv(c, w.data, MemoryOf(w)) /\ LanesInv(c, w.accepted)
  BY DEF WorldInv
<1>2. v = [w EXCEPT !.cpu = d]
  OBVIOUS
<1>3. /\ d.registers = c.registers /\ d.pc = c.pc /\ d.fetch_pc = c.fetch_pc
      /\ d.fetch_request = c.fetch_request /\ d.fetched = c.fetched /\ d.decode = c.decode
      /\ d.execute = c.execute /\ d.next_fetch = c.next_fetch /\ d.next_data = c.next_data
      /\ d.generation = c.generation /\ d.halted = TRUE /\ IsCpu(d)
  <2>1. IsCpu(c)
    BY <1>1 DEF CpuType
  <2> HIDE DEF c
  <2>2. IsCpu(d)
    BY <2>1, WithField
  <2>3. /\ d.registers = c.registers /\ d.pc = c.pc /\ d.fetch_pc = c.fetch_pc
        /\ d.fetch_request = c.fetch_request /\ d.fetched = c.fetched /\ d.decode = c.decode
    BY <2>1 DEF IsCpu
  <2>4. /\ d.execute = c.execute /\ d.next_fetch = c.next_fetch /\ d.next_data = c.next_data
        /\ d.generation = c.generation /\ d.halted = TRUE
    BY <2>1 DEF IsCpu
  <2> QED
    BY <2>2, <2>3, <2>4
<1> HIDE DEF d, v
<1>4. /\ IsWorld(v) /\ v.cpu = d /\ v.fetch = w.fetch /\ v.data = w.data
      /\ v.accepted = w.accepted /\ v.retires = w.retires /\ v.fault = w.fault
  BY SMTT(30), <1>1, <1>2, WithCpu
<1>5. CpuType(d)
  BY <1>1, <1>3 DEF CpuType
<1>6. FrontInv(d)
  <2>1. ~CurrentRequest(d)
    BY <1>3 DEF CurrentRequest
  <2> QED
    BY <1>1, <1>3, <2>1 DEF PathInv, FrontInv
<1>7. PathInv(d)
  BY <1>3, <1>6 DEF PathInv
<1>8. FetchInv(d, v.fetch)
  BY <1>1, <1>3, <1>4 DEF FetchInv, FetchRequest
<1>9. MemoryOf(v) = MemoryOf(w) /\ ~Accessing(c) /\ ~Accessing(d) /\ CompletedLanes(c) = 0
      /\ CompletedLanes(d) = 0
  BY <1>3, <1>4 DEF MemoryOf, Accessing, CompletedLanes
<1>10. DataInv(d, v.data, MemoryOf(v)) /\ LanesInv(d, v.accepted)
  BY <1>1, <1>3, <1>4, <1>9 DEF DataInv, LanesInv
<1>11. RetiredOf(v) = RetiredOf(w)
  BY <1>4, <1>9 DEF RetiredOf
<1>12. WorldInv(v)
  BY <1>4, <1>5, <1>7, <1>8, <1>10 DEF WorldInv
<1> QED
  BY <1>3, <1>4, <1>11, <1>12 DEF v

\* The exit, once timing control has accepted it.
LEMMA ExitInv ==
  ASSUME NEW w, WorldInv(w), w.fault = "None", program \in Programs, w.cpu.execute # <<>>,
         w.cpu.execute[1].fault = "None", w.cpu.execute[1].word.op = "Ecall",
         IsExit(w.cpu.registers)
  PROVE  LET f == w.cpu.execute[1]
         IN  Executes(w, [Retire(w, 0, f.pc + 1, TRUE) EXCEPT !.cpu.halted = TRUE])
<1> DEFINE c == w.cpu
           f == c.execute[1]
           i == f.word
           u == Retire(w, 0, f.pc + 1, TRUE)
           v == [u EXCEPT !.cpu.halted = TRUE]
<1>1. CpuType(c) /\ PathInv(c) /\ LanesInv(c, w.accepted)
  BY DEF WorldInv
<1>2. /\ f.pc = c.pc /\ c.pc \in Int /\ c.pc \in DOMAIN program /\ i = program[c.pc]
      /\ ~c.halted
      /\ f.lhs = c.registers[i.rs1] /\ f.rhs = c.registers[i.rs2]
      /\ f.completed_lanes \in 0..Lanes(i) /\ f.memory_request \in Nat
      /\ f.memory_request # 0 => i.op \in {"Load", "Store"}
  BY <1>1, ExecuteType
<1>3. f.memory_request = 0 /\ Lanes(i) = 0 /\ CompletedLanes(c) = 0
  <2>1. Lanes(i) = 0
    BY DEF Lanes
  <2> QED
    BY <1>2, <2>1 DEF CompletedLanes
<1>4. InstructionFault(program, c.pc, c.registers) = "None"
  BY <1>2 DEF InstructionFault
<1>5. MayRetire(w, 0, c.pc + 1, TRUE) /\ image = MemoryOf(w)
  <2>1. c.pc + 1 \in Int /\ ~WritesRd(i)
    BY <1>2 DEF WritesRd
  <2> QED
    BY <1>3, <2>1, ReadyToRetire DEF MayRetire
<1>6. IsRetired(w, u, 0, c.pc + 1, TRUE)
  BY <1>2, <1>5, RetireInv
<1> HIDE DEF u
<1>7. /\ WorldInv(u) /\ u.retires = TRUE /\ u.fault = "None" /\ u.cpu.pc = c.pc + 1
      /\ u.cpu.registers = c.registers /\ u.cpu.execute = <<>>
      /\ RetiredOf(u) = w.accepted /\ ~CurrentRequest(u.cpu)
  <2>1. ~WritesRd(i)
    BY DEF WritesRd
  <2> QED
    BY <1>6, <2>1 DEF IsRetired
<1>8. /\ WorldInv(v) /\ v.cpu.halted = TRUE /\ v.cpu.pc = u.cpu.pc
      /\ v.cpu.registers = u.cpu.registers
      /\ v.retires = u.retires /\ v.fault = u.fault /\ RetiredOf(v) = RetiredOf(u)
  BY <1>7, HaltInv
<1> HIDE DEF v
<1>9. w.accepted = RetiredOf(w) \o LaneOperations(c, Lanes(i))
  <2>1. LanesInv(c, w.accepted) /\ CompletedLanes(c) \in Nat
    BY <1>1, <1>3
  <2>2. w.accepted = RetiredOf(w) \o LaneOperations(c, CompletedLanes(c))
    BY <2>1, AllLanes, Zenon
  <2> QED
    BY <1>3, <2>2
<1>10. IsaStep(w, v)
  <2> DEFINE j == program[c.pc]
             lhs == c.registers[j.rs1]
             rhs == c.registers[j.rs2]
  <2>1. j = i /\ lhs = f.lhs /\ rhs = f.rhs
    BY <1>2
  <2> HIDE DEF j, lhs, rhs
  <2>2. \E x \in IsaResults(j, c.pc, lhs, rhs, MemoryOf(w)) :
          v.cpu.registers = IF WritesRd(j) THEN WriteRegister(c.registers, j.rd, x)
                            ELSE c.registers
    <3>1. ~WritesRd(j) /\ IsaResults(j, c.pc, lhs, rhs, MemoryOf(w)) # {}
      BY <2>1 DEF WritesRd, IsaResults
    <3> QED
      BY <1>7, <1>8, <3>1
  <2>3. RetiredOf(v) = RetiredOf(w)
          \o [lane \in 1..Lanes(j) |-> OperationOf(c.pc, lane, lhs, rhs)]
    BY <1>7, <1>8, <1>9, <2>1 DEF LaneOperations
  <2>4. /\ v.cpu.pc = NextPc(j, c.pc, lhs, rhs)
        /\ image = IF j.op = "Store" THEN [MemoryOf(w) EXCEPT ![lhs] = rhs] ELSE MemoryOf(w)
        /\ v.cpu.halted = (j.op = "Ecall")
    BY <1>5, <1>7, <1>8, <2>1 DEF NextPc, IsTaken
  <2> QED
    BY <1>2, <1>4, <1>7, <1>8, <2>2, <2>3, <2>4, Zenon DEF IsaStep, j, lhs, rhs
<1>11. Executes(w, v)
  BY <1>7, <1>8, <1>10 DEF Executes
<1> QED
  BY <1>11 DEF v, u

\* The control operations that wait in execute.
Offers(c) ==
  IF c.execute = <<>> \/ c.halted \/ c.execute[1].fault # "None" THEN 0
  ELSE IF c.execute[1].word.op = "Ecall" THEN IF IsExit(c.registers) THEN 1 ELSE 0
  ELSE Lanes(c.execute[1].word) - c.execute[1].completed_lanes

\* An answer of timing control to these commands.
IsAnswer(answer, offers) ==
  /\ answer.lanes \in 0..offers
  /\ offers # 0 => answer.reply \in Replies
  /\ answer.throws \in BOOLEAN
  /\ answer.throws => answer.lanes < offers

\* The outcome of an edge, seen from the architecture.
Outcome(w, v) == Continues(w, v) \/ Executes(w, v) \/ FaultsAt(w, v) \/ RefusedAt(w, v)

\* The execute stage: nothing the architecture sees, one step of the sequential
\* machine, the fault of the instruction at pc or a refused command of it.
LEMMA ExecuteStageInv ==
  ASSUME NEW w, WorldInv(w), w.fault = "None", program \in Programs, ~w.cpu.halted,
         NEW answer, IsAnswer(answer, Offers(w.cpu))
  PROVE  Outcome(w, ExecuteStage(w, answer))
<1> DEFINE v == ExecuteStage(w, answer)
           c == w.cpu
           f == c.execute[1]
           i == f.word
<1>1. CpuType(c) /\ PathInv(c)
  BY DEF WorldInv
<1>2. Continues(w, w)
  BY DEF Continues, SameArchitecture
<1>3. CASE c.execute = <<>>
  BY <1>2, <1>3 DEF ExecuteStage, Outcome
<1>4. CASE c.execute # <<>> /\ f.fault # "None"
  <2>1. v = Raise(w, f.fault)
    BY <1>4 DEF ExecuteStage
  <2>2. ExecuteFrame(c, f)
    BY <1>1, <1>4 DEF PathInv
  <2>3. /\ f.fault = InstructionFault(program, c.pc, c.registers)
        /\ f.memory_request = 0 /\ f.completed_lanes = 0
    BY <1>4, <2>2 DEF ExecuteFrame
  <2>4. FaultsAt(w, v)
    BY <1>4, <2>1, <2>3, RaiseInv
  <2> QED
    BY <2>4 DEF Outcome
<1>5. CASE c.execute # <<>> /\ f.fault = "None"
  <2>1. /\ f.pc = c.pc /\ c.pc \in DOMAIN program /\ i = program[c.pc]
        /\ i.op \in Kinds \ {"Illegal"}
        /\ f.completed_lanes \in 0..Lanes(i) /\ f.memory_request \in Nat
        /\ f.memory_request # 0 => i.op \in {"Load", "Store"}
    BY <1>1, <1>5, ExecuteType
  <2>2. CASE i.op \in {"Bundle", "Quantum"}
    <3> DEFINE u == AcceptLanes(w, answer.lanes)
    <3>1. v = IF answer.throws THEN Raise(u, "Control")
              ELSE IF u.cpu.execute[1].completed_lanes = Lanes(i)
                THEN Retire(u, answer.reply, f.pc + 1, FALSE)
              ELSE u
      BY <1>5, <2>2 DEF ExecuteStage
    <3>2. Offers(c) = Lanes(i) - f.completed_lanes
      BY <1>5, <2>2 DEF Offers
    <3>3. f.completed_lanes # Lanes(i)
      BY <1>1, <1>5, <2>2 DEF PathInv, ExecuteFrame
    <3>4. Lanes(i) \in Nat
      BY DEF Lanes
    <3>5. Lanes(i) - f.completed_lanes # 0
      BY <2>1, <3>3, <3>4
    <3>6. /\ answer.reply \in Replies /\ answer.lanes \in 0..(Lanes(i) - f.completed_lanes)
          /\ answer.throws => answer.lanes < Lanes(i) - f.completed_lanes
      BY <3>2, <3>5 DEF IsAnswer
    <3> HIDE DEF u, v
    <3>7. CASE answer.throws
      <4>1. RefusedAt(w, v)
        BY <1>5, <2>2, <3>1, <3>6, <3>7, RefusedLane DEF u
      <4> QED
        BY <4>1 DEF Outcome, v
    <3>8. CASE ~answer.throws
      <4>1. Continues(w, v) \/ Executes(w, v)
        BY <1>5, <2>2, <3>1, <3>6, <3>8, BundleInv DEF u
      <4> QED
        BY <4>1 DEF Outcome, v
    <3> QED
      BY <3>7, <3>8
  <2>3. CASE i.op = "Ecall" /\ IsExit(c.registers)
    <3>1. v = IF answer.throws THEN Raise(w, "Control")
              ELSE IF answer.lanes = 0 THEN w
              ELSE [Retire(w, 0, f.pc + 1, TRUE) EXCEPT !.cpu.halted = TRUE]
      BY <1>5, <2>3 DEF ExecuteStage
    <3>2. Executes(w, [Retire(w, 0, f.pc + 1, TRUE) EXCEPT !.cpu.halted = TRUE])
      BY <1>5, <2>3, ExitInv
    <3>3. RefusedAt(w, Raise(w, "Control"))
      BY <1>5, <2>3, RefusedExit
    <3> HIDE DEF v
    <3>4. Continues(w, v) \/ Executes(w, v) \/ RefusedAt(w, v)
      BY <1>2, <3>1, <3>2, <3>3
    <3> QED
      BY <3>4 DEF Outcome, v
  <2>4. CASE i.op = "Ecall" /\ ~IsExit(c.registers)
    <3>1. v = Raise(w, "EnvironmentCall")
      BY <1>5, <2>4 DEF ExecuteStage
    <3>2. InstructionFault(program, c.pc, c.registers) = "EnvironmentCall"
      BY <2>1, <2>4 DEF InstructionFault
    <3>3. f.memory_request = 0 /\ f.completed_lanes = 0
      <4>1. Lanes(i) = 0
        BY <2>4 DEF Lanes
      <4> QED
        BY <2>1, <2>4, <4>1
    <3>4. FaultsAt(w, v)
      BY <1>5, <3>1, <3>2, <3>3, RaiseInv
    <3> QED
      BY <3>4 DEF Outcome
  <2>5. CASE i.op \in {"Load", "Store"}
    <3>1. v = AccessData(w)
      BY <1>5, <2>5 DEF ExecuteStage
    <3> HIDE DEF v
    <3>2. Continues(w, v) \/ Executes(w, v) \/ FaultsAt(w, v)
      BY <1>5, <2>5, <3>1, SendDataInv, TakeDataInv
    <3> QED
      BY <3>2 DEF Outcome, v
  <2>6. CASE i.op \in {"Alu", "Jump", "Branch"}
    <3>1. v = Retire(w, ResultOf(i, f.pc, f.lhs, f.rhs), NextPc(i, f.pc, f.lhs, f.rhs),
                     IsTaken(i, f.lhs, f.rhs))
      BY <1>5, <2>6 DEF ExecuteStage
    <3> HIDE DEF v
    <3>2. Executes(w, v)
      BY <1>5, <2>6, <3>1, ComputeInv
    <3> QED
      BY <3>2 DEF Outcome, v
  <2> QED
    BY <2>1, <2>2, <2>3, <2>4, <2>5, <2>6 DEF Kinds
<1> QED
  BY <1>3, <1>4, <1>5

-----------------------------------------------------------------------------
(* The whole CPU edge.                                                     *)

\* A step of the sequential machine is the same step from and to worlds that the
\* architecture does not tell apart.
LEMMA SameStep ==
  ASSUME NEW w, NEW a, NEW e, NEW v,
         SameArchitecture(w, a), IsaStep(a, e), SameArchitecture(e, v)
  PROVE  IsaStep(w, v)
<1>1. /\ a.cpu.registers = w.cpu.registers /\ a.cpu.pc = w.cpu.pc /\ a.cpu.halted = w.cpu.halted
      /\ RetiredOf(a) = RetiredOf(w) /\ MemoryOf(a) = MemoryOf(w)
  BY DEF SameArchitecture, MemoryOf
<1>2. /\ v.cpu.registers = e.cpu.registers /\ v.cpu.pc = e.cpu.pc /\ v.cpu.halted = e.cpu.halted
      /\ RetiredOf(v) = RetiredOf(e) /\ v.retires = e.retires
  BY DEF SameArchitecture
<1> DEFINE i == program[a.cpu.pc]
           lhs == a.cpu.registers[i.rs1]
           rhs == a.cpu.registers[i.rs2]
           lanes == [lane \in 1..Lanes(i) |-> OperationOf(a.cpu.pc, lane, lhs, rhs)]
           results == IsaResults(i, a.cpu.pc, lhs, rhs, MemoryOf(a))
<1>3. /\ i = program[w.cpu.pc] /\ lhs = w.cpu.registers[program[w.cpu.pc].rs1]
      /\ rhs = w.cpu.registers[program[w.cpu.pc].rs2]
  BY <1>1
<1>4. /\ lanes = [lane \in 1..Lanes(i) |-> OperationOf(w.cpu.pc, lane, lhs, rhs)]
      /\ results = IsaResults(i, w.cpu.pc, lhs, rhs, MemoryOf(w))
  BY <1>1
<1>5. /\ ~w.cpu.halted /\ InstructionFault(program, w.cpu.pc, w.cpu.registers) = "None"
      /\ v.cpu.pc = NextPc(i, w.cpu.pc, lhs, rhs)
      /\ image = (IF i.op = "Store" THEN [MemoryOf(w) EXCEPT ![lhs] = rhs] ELSE MemoryOf(w))
      /\ v.cpu.halted = (i.op = "Ecall") /\ v.retires = TRUE
  BY <1>1, <1>2 DEF IsaStep
<1>6. \E value \in results :
        v.cpu.registers = IF WritesRd(i) THEN WriteRegister(w.cpu.registers, i.rd, value)
                          ELSE w.cpu.registers
  <2>1. \E value \in results :
          e.cpu.registers = IF WritesRd(i) THEN WriteRegister(a.cpu.registers, i.rd, value)
                            ELSE a.cpu.registers
    BY Zenon DEF IsaStep
  <2> HIDE DEF i, results
  <2> QED
    BY <1>1, <1>2, <2>1
<1>7. RetiredOf(v) = RetiredOf(w) \o lanes
  <2>1. RetiredOf(e) = RetiredOf(a) \o lanes
    BY Zenon DEF IsaStep
  <2> HIDE DEF lanes
  <2> QED
    BY <1>1, <1>2, <2>1
<1> HIDE DEF i, lhs, rhs, lanes, results
<1>8. RetiredOf(v) = RetiredOf(w)
        \o [lane \in 1..Lanes(i) |-> OperationOf(w.cpu.pc, lane, lhs, rhs)]
  BY <1>4, <1>7
<1>9. \E value \in IsaResults(i, w.cpu.pc, lhs, rhs, MemoryOf(w)) :
        v.cpu.registers = IF WritesRd(i) THEN WriteRegister(w.cpu.registers, i.rd, value)
                          ELSE w.cpu.registers
  BY <1>4, <1>6
<1> QED
  BY <1>3, <1>5, <1>8, <1>9, Zenon DEF IsaStep

\* The stages of step together.
LEMMA StepCpuInv ==
  ASSUME NEW w, WorldInv(w), w.fault = "None", program \in Programs,
         NEW answer, IsAnswer(answer, Offers(w.cpu))
  PROVE  Outcome(w, StepCpu(w, answer))
<1> DEFINE a == TakeFetch(w)
           e == ExecuteStage(a, answer)
           x == IF a.cpu.halted THEN a ELSE e
           z == IssueFetch([x EXCEPT !.cpu = EnterDecode(EnterExecute(@))])
           v == StepCpu(w, answer)
<1>1. /\ WorldInv(a) /\ a.fault = w.fault /\ a.retires = w.retires
      /\ a.accepted = w.accepted
      /\ a.cpu.execute = w.cpu.execute /\ a.cpu.pc = w.cpu.pc
      /\ a.cpu.registers = w.cpu.registers /\ a.cpu.halted = w.cpu.halted
  BY TakeFetchInv
<1>2. SameArchitecture(w, a)
  BY <1>1 DEF SameArchitecture, RetiredOf, CompletedLanes
<1>3. Offers(a.cpu) = Offers(w.cpu)
  BY <1>1 DEF Offers
<1>4. v = IF ~Ok(x) \/ x.cpu.halted THEN x ELSE z
  BY <1>1 DEF StepCpu, Ok
<1> HIDE DEF a, v
<1>5. Outcome(a, x)
  <2>1. CASE a.cpu.halted
    BY <1>1, <2>1 DEF Outcome, Continues, SameArchitecture
  <2>2. CASE ~a.cpu.halted
    <3> HIDE DEF e
    <3>1. x = e
      BY <2>2
    <3>2. Outcome(a, e)
      BY <1>1, <1>3, <2>2, ExecuteStageInv DEF e
    <3> QED
      BY <3>1, <3>2
  <2> QED
    BY <2>1, <2>2
<1> HIDE DEF x
<1>6. MemoryOf(a) = MemoryOf(w)
  BY <1>1 DEF MemoryOf
<1>7. CASE FaultsAt(a, x)
  <2>1. v = x
    BY <1>4, <1>7 DEF FaultsAt, Ok
  <2>2. FaultsAt(w, x)
    BY <1>1, <1>2, <1>6, <1>7 DEF FaultsAt, SameArchitecture
  <2> QED
    BY <2>1, <2>2 DEF Outcome, v
<1>8. CASE RefusedAt(a, x)
  <2>1. v = x
    BY <1>4, <1>8 DEF RefusedAt, Ok
  <2>2. \A n : LanesAtPc(a.cpu, n) = LanesAtPc(w.cpu, n)
    BY <1>1 DEF LanesAtPc
  <2>3. RetiredOf(a) = RetiredOf(w)
    BY <1>2 DEF SameArchitecture
  <2>4. SameArchitecture(w, x)
    BY <1>2, <1>8 DEF RefusedAt, SameArchitecture
  <2>5. \E n \in 0..(Commands(program[w.cpu.pc]) - 1) :
          x.accepted = RetiredOf(w) \o LanesAtPc(w.cpu, n)
    BY <1>1, <1>8, <2>2, <2>3 DEF RefusedAt
  <2>6. RefusedAt(w, x)
    BY <1>1, <1>6, <1>8, <2>4, <2>5 DEF RefusedAt
  <2> QED
    BY <2>1, <2>6 DEF Outcome, v
<1>9. CASE Continues(a, x) \/ Executes(a, x)
  <2>1. WorldInv(x) /\ x.fault = "None"
    BY <1>9 DEF Continues, Executes
  <2>2. WorldInv(v) /\ v.fault = "None" /\ SameArchitecture(x, v)
    <3>1. CASE x.cpu.halted
      BY <1>4, <2>1, <3>1 DEF SameArchitecture
    <3>2. CASE ~x.cpu.halted
      <4>1. WorldInv(z) /\ z.fault = x.fault /\ SameArchitecture(x, z)
        BY <2>1, <3>2, FillStages
      <4> HIDE DEF z
      <4> QED
        BY <1>4, <2>1, <3>2, <4>1 DEF Ok
    <3> QED
      BY <3>1, <3>2
  <2>3. CASE Continues(a, x)
    <3>1. SameArchitecture(a, x)
      BY <2>3 DEF Continues
    <3>2. SameArchitecture(w, v)
      BY <1>2, <2>2, <3>1 DEF SameArchitecture
    <3> QED
      BY <2>2, <3>2 DEF Outcome, Continues, v
  <2>4. CASE Executes(a, x)
    <3>1. IsaStep(a, x)
      BY <2>4 DEF Executes
    <3>2. IsaStep(w, v)
      BY <1>2, <2>2, <3>1, SameStep
    <3> QED
      BY <2>2, <3>2 DEF Outcome, Executes, v
  <2> QED
    BY <1>9, <2>3, <2>4
<1> QED
  BY <1>5, <1>7, <1>8, <1>9 DEF Outcome

-----------------------------------------------------------------------------
(* The actions.                                                            *)

\* The world of an edge.
LEMMA InitialWorld ==
  ASSUME StateInv
  PROVE  /\ WorldInv(World) /\ MemoryOf(World) = retired_memory
         /\ World.cpu = cpu /\ World.fetch = fetch /\ World.data = data
         /\ World.accepted = accepted /\ World.retires = FALSE /\ World.fault = "None"
         /\ RetiredOf(World) = RetiredOperations
<1>1. /\ IsWorld(World) /\ World.cpu = cpu /\ World.fetch = fetch /\ World.data = data
      /\ World.accepted = accepted /\ World.retires = FALSE /\ World.fault = "None"
  BY DEF World, IsWorld
<1>2. MemoryOf(World) = retired_memory
  BY <1>1 DEF MemoryOf
<1>3. WorldInv(World)
  BY <1>1, <1>2 DEF WorldInv, StateInv
<1>4. RetiredOf(World) = RetiredOperations
  BY <1>1 DEF RetiredOf, RetiredOperations, CompletedLanes
<1> QED
  BY <1>1, <1>2, <1>3, <1>4

\* The state behind an edge.
LEMMA FinalWorld ==
  ASSUME NEW v, cpu' = v.cpu, fetch' = v.fetch, data' = v.data, accepted' = v.accepted,
         retired_memory' = MemoryOf(v), UNCHANGED <<image, program, epoch>>
  PROVE  /\ WorldInv(v) => StateInv'
         /\ RetiredOperations' = RetiredOf(v)
<1>1. RetiredOperations' = RetiredOf(v)
  BY DEF RetiredOf, RetiredOperations, CompletedLanes
<1>2. CpuType(v.cpu) => CpuType(cpu)'
  BY DEF CpuType, IsCpu, IsSlot
<1>3. ASSUME PathInv(v.cpu) PROVE PathInv(cpu)'
  BY <1>3 DEF PathInv, FrontInv, FreshFrame, ExecuteFrame, IsFrame, CurrentRequest, Occupied
<1>4. ASSUME FetchInv(v.cpu, v.fetch) PROVE FetchInv(cpu, fetch)'
  <2>1. /\ FetchRequest(cpu)' = FetchRequest(v.cpu)
        /\ ResponseTo(program, image, FetchRequest(cpu))' =
             ResponseTo(program, image, FetchRequest(v.cpu))
    BY DEF FetchRequest
  <2> QED
    BY <1>4, <2>1 DEF FetchInv, PortInv, IsPort, Idle, Holds, IsSlot
<1>5. ASSUME DataInv(v.cpu, v.data, MemoryOf(v)) PROVE DataInv(cpu, data, retired_memory)'
  <2> DEFINE m == MemoryOf(v)
  <2>1. (Accessing(cpu)' <=> Accessing(v.cpu)) /\ cpu' = v.cpu /\ data' = v.data
        /\ retired_memory' = m
    BY DEF Accessing
  <2>2. /\ DataRequest(cpu.execute[1])' = DataRequest(v.cpu.execute[1])
        /\ ResponseTo(program, retired_memory, DataRequest(cpu.execute[1]))' =
             ResponseTo(program, m, DataRequest(v.cpu.execute[1]))
        /\ ImageAfter(program, retired_memory, DataRequest(cpu.execute[1]))' =
             ImageAfter(program, m, DataRequest(v.cpu.execute[1]))
    BY DEF DataRequest
  <2>3. DataInv(v.cpu, v.data, m)
    BY <1>5
  <2> HIDE DEF m
  <2>4. PortInv(data, cpu.next_data)' /\ (Idle(v.data) => Idle(data)')
    BY <2>1, <2>3 DEF DataInv, PortInv, IsPort, Idle
  <2>5. ASSUME Accessing(v.cpu)
        PROVE  Holds(data, DataRequest(cpu.execute[1]),
                     ResponseTo(program, retired_memory, DataRequest(cpu.execute[1])))'
    <3>1. Holds(v.data, DataRequest(v.cpu.execute[1]),
                ResponseTo(program, m, DataRequest(v.cpu.execute[1])))
      BY <2>3, <2>5 DEF DataInv
    <3> QED
      BY <2>1, <2>2, <3>1 DEF Holds, IsSlot
  <2> QED
    BY <2>1, <2>2, <2>3, <2>4, <2>5 DEF DataInv
<1>6. LanesInv(v.cpu, v.accepted) => LanesInv(cpu, accepted)'
  BY DEF LanesInv, CompletedLanes
<1> QED
  BY <1>1, <1>2, <1>3, <1>4, <1>5, <1>6 DEF WorldInv, StateInv

\* The faults of instructions are neither protocol faults nor the watchdog's.
LEMMA FaultRange ==
  ASSUME NEW at, NEW file
  PROVE  /\ InstructionFault(program, at, file) \notin ProtocolFaults
         /\ InstructionFault(program, at, file) \notin {"Watchdog", "Control"}
BY DEF InstructionFault, ProtocolFaults

\* The effect of a CPU edge.
LEMMA CpuEdgeOutcome ==
  ASSUME PipelineInv, CpuEdge
  PROVE  \E v : /\ cpu' = v.cpu /\ fetch' = v.fetch /\ data' = v.data
                /\ accepted' = v.accepted /\ fault' = v.fault
                /\ retired_memory' = MemoryOf(v)
                /\ Outcome(World, v)
<1>1. Running /\ StateInv /\ program \in Programs
  BY DEF PipelineInv, CpuEdge, ProgramInv
<1>2. /\ WorldInv(World) /\ World.cpu = cpu /\ World.fault = "None"
  BY <1>1, InitialWorld
<1>3. PICK answer \in Answers :
        LET w == StepCpu(World, answer)
        IN  /\ cpu' = w.cpu /\ fetch' = w.fetch /\ data' = w.data
            /\ accepted' = w.accepted /\ fault' = w.fault
            /\ retired_memory' = IF w.retires THEN image ELSE retired_memory
  BY DEF CpuEdge
<1>4. Offers(World.cpu) = Offered
  BY <1>2 DEF Offers, Offered
<1>5. IsAnswer(answer, Offers(World.cpu))
  BY <1>4 DEF Answers, IsAnswer
<1>6. Outcome(World, StepCpu(World, answer))
  BY <1>1, <1>2, <1>5, StepCpuInv
<1> QED
  BY <1>3, <1>6 DEF MemoryOf

\* InOrderPipeline::step.
LEMMA CpuEdgeInv == PipelineInv /\ CpuEdge => PipelineInv'
<1> SUFFICES ASSUME PipelineInv, CpuEdge PROVE PipelineInv'
  OBVIOUS
<1>1. Running /\ StateInv /\ UNCHANGED <<image, program, now, epoch>> /\ ProgramInv
  BY DEF PipelineInv, CpuEdge
<1>2. PICK v : /\ cpu' = v.cpu /\ fetch' = v.fetch /\ data' = v.data
               /\ accepted' = v.accepted /\ fault' = v.fault
               /\ retired_memory' = MemoryOf(v)
               /\ Outcome(World, v)
  BY CpuEdgeOutcome
<1>3. (WorldInv(v) => StateInv') /\ RetiredOperations' = RetiredOf(v)
  BY <1>1, <1>2, FinalWorld
<1>4. ProgramInv'
  BY <1>1 DEF ProgramInv
<1>5. CASE v.fault = "None"
  <2>1. WorldInv(v)
    BY <1>2, <1>5 DEF Outcome, Continues, Executes, FaultsAt, RefusedAt
  <2>2. fault' = "None" /\ StateInv'
    BY <1>2, <1>3, <1>5, <2>1
  <2> QED
    BY <1>4, <2>2 DEF PipelineInv, PortsStayInStep, ProtocolFaults, FaultsArePrecise, Running
<1>6. CASE v.fault # "None" /\ FaultsAt(World, v)
  <2>1. FaultsAt(World, v)
    BY <1>6
  <2>2. /\ v.fault = InstructionFault(program, World.cpu.pc, World.cpu.registers)
        /\ v.cpu.pc = World.cpu.pc /\ v.cpu.registers = World.cpu.registers
        /\ v.retires = World.retires
        /\ image = MemoryOf(World) /\ RetiredOf(v) = v.accepted
    BY <2>1 DEF FaultsAt, SameArchitecture
  <2>3. fault' = InstructionFault(program, cpu.pc, cpu.registers)'
    BY <1>1, <1>2, <2>2
  <2>4. image' = retired_memory'
    BY <1>1, <1>2, <2>2 DEF MemoryOf
  <2>5. RetiredOperations' = accepted'
    BY <1>2, <1>3, <2>2
  <2>6. fault' \notin ProtocolFaults /\ fault' # "Control"
    BY <1>2, <2>2, FaultRange
  <2>7. fault' # "None"
    BY <1>2, <1>6
  <2> QED
    BY <1>4, <2>3, <2>4, <2>5, <2>6, <2>7 DEF PipelineInv, PortsStayInStep, FaultsArePrecise,
         Running, ProtocolFaults
<1>7. CASE RefusedAt(World, v)
  <2>1. /\ v.cpu.pc = cpu.pc /\ v.cpu.registers = cpu.registers
        /\ v.retires = World.retires /\ RetiredOf(v) = RetiredOf(World)
        /\ image = MemoryOf(World) /\ v.fault = "Control"
        /\ InstructionFault(program, cpu.pc, cpu.registers) = "None"
    BY <1>1, <1>7, InitialWorld DEF RefusedAt, SameArchitecture
  <2>2. PICK n \in 0..(Commands(program[cpu.pc]) - 1) :
          v.accepted = RetiredOf(World) \o LanesAtPc(cpu, n)
    BY <1>1, <1>7, InitialWorld DEF RefusedAt
  <2>3. image' = retired_memory'
    BY <1>1, <1>2, <2>1 DEF MemoryOf
  <2>4. cpu'.pc = cpu.pc /\ cpu'.registers = cpu.registers /\ program' = program
        /\ fault' = "Control"
    BY <1>1, <1>2, <2>1
  <2>5. accepted' = RetiredOperations' \o LanesAtPc(cpu, n)
    BY <1>2, <1>3, <2>1, <2>2
  <2>6. IsRefused'
    <3> DEFINE i == program[cpu.pc]
    <3>1. \E count \in 0..(Commands(i) - 1) :
            accepted' = RetiredOperations' \o
                          [lane \in 1..count |-> OperationOf(cpu.pc, lane, cpu.registers[i.rs1],
                                                             cpu.registers[i.rs2])]
      BY <2>2, <2>5 DEF LanesAtPc
    <3> QED
      BY <2>1, <2>4, <3>1 DEF IsRefused
  <2> QED
    BY <1>4, <2>3, <2>4, <2>6 DEF PipelineInv, PortsStayInStep, FaultsArePrecise, Running,
         ProtocolFaults
<1> QED
  BY <1>2, <1>5, <1>6, <1>7 DEF Outcome, Continues, Executes

\* The core and the ports of a new session, over the memory as it is.
IsFresh ==
  /\ cpu = ResetCpu /\ fetch = IdlePort /\ data = IdlePort /\ accepted = <<>>
  /\ retired_memory = image /\ image \in [Addresses -> Values]

\* A new session satisfies the invariant.
LEMMA FreshSession == IsFresh => StateInv
<1> SUFFICES ASSUME cpu = ResetCpu, fetch = IdlePort, data = IdlePort, accepted = <<>>,
                    retired_memory = image, image \in [Addresses -> Values]
             PROVE  StateInv
  BY DEF IsFresh
<1>1. /\ cpu.registers = ZeroRegisters /\ cpu.pc = Entry /\ cpu.fetch_pc = Entry
      /\ cpu.fetch_request = <<>> /\ cpu.fetched = <<>> /\ cpu.decode = <<>>
      /\ cpu.execute = <<>> /\ cpu.next_fetch = 1 /\ cpu.next_data = 1
      /\ cpu.generation = 0 /\ cpu.halted = FALSE /\ IsCpu(cpu)
  BY DEF ResetCpu, IsCpu
<1>2. /\ \A p \in {fetch, data} : Idle(p) /\ PortInv(p, 1)
  BY DEF IdlePort, Idle, PortInv, IsPort
<1>3. CpuType(cpu)
  <2>1. ZeroRegisters \in [Registers -> Values] /\ Entry \in Int
    BY IsaAssumption DEF ZeroRegisters, Values
  <2>2. IsSlot(<<>>)
    BY DEF IsSlot
  <2> QED
    <3>1. /\ 1 \in Nat \ {0} /\ 0 \in Nat /\ FALSE \in BOOLEAN
      OBVIOUS
    <3>2. cpu.registers \in [Registers -> Values] /\ cpu.pc \in Int /\ cpu.fetch_pc \in Int
      BY <1>1, <2>1
    <3>3. /\ cpu.next_fetch \in Nat \ {0} /\ cpu.next_data \in Nat \ {0}
          /\ cpu.generation \in Nat /\ cpu.halted \in BOOLEAN
      BY <1>1, <3>1
    <3>4. /\ IsSlot(cpu.fetch_request) /\ IsSlot(cpu.fetched) /\ IsSlot(cpu.decode)
          /\ IsSlot(cpu.execute) /\ IsCpu(cpu)
      BY <1>1, <2>2
    <3> QED
      BY <3>2, <3>3, <3>4 DEF CpuType
<1>4. PathInv(cpu)
  BY <1>1, IsaAssumption DEF PathInv, FrontInv, CurrentRequest, Occupied
<1>5. FetchInv(cpu, fetch)
  BY <1>1, <1>2 DEF FetchInv
<1>6. DataInv(cpu, data, retired_memory)
  BY <1>1, <1>2 DEF DataInv, Accessing
<1>7. LanesInv(cpu, accepted)
  BY <1>1 DEF LanesInv, CompletedLanes
<1> QED
  BY <1>3, <1>4, <1>5, <1>6, <1>7 DEF StateInv

\* The invariant holds at power up.
LEMMA PipelineInit == Init => PipelineInv
<1> SUFFICES ASSUME Init PROVE PipelineInv
  OBVIOUS
<1>1. image \in [Addresses -> Values]
  BY IsaAssumption DEF Init, Values
<1>2. StateInv
  BY <1>1, FreshSession DEF Init, IsFresh
<1>3. fault = "None" /\ ProgramInv
  BY DEF Init, ProgramInv
<1> QED
  BY <1>2, <1>3 DEF PipelineInv, PortsStayInStep, ProtocolFaults, FaultsArePrecise, Running

\* What a step that leaves the core, its ports and the memory alone keeps.
LEMMA SameState ==
  ASSUME StateInv, UNCHANGED <<cpu, fetch, data, image, program, epoch, accepted, retired_memory>>
  PROVE  StateInv'
<1>1. /\ WorldInv(World) /\ MemoryOf(World) = retired_memory
      /\ World.cpu = cpu /\ World.fetch = fetch /\ World.data = data /\ World.accepted = accepted
  BY InitialWorld
<1> QED
  BY <1>1, FinalWorld

\* The barrier.
LEMMA AdvanceTickInv == PipelineInv /\ AdvanceTick => PipelineInv'
<1> SUFFICES ASSUME PipelineInv, AdvanceTick PROVE PipelineInv'
  OBVIOUS
<1>1. /\ StateInv /\ fault = "None" /\ fault' \in {"None", "Watchdog"}
      /\ UNCHANGED <<cpu, fetch, data, image, program, epoch, accepted, retired_memory>>
  BY DEF PipelineInv, AdvanceTick, Running
<1>2. StateInv'
  BY <1>1, SameState
<1> QED
  BY <1>1, <1>2 DEF PipelineInv, ProgramInv, PortsStayInStep, ProtocolFaults, FaultsArePrecise,
       Running

\* What a reset may find in memory: the memory of the last retirement, or that
\* memory with the store at pc.
LEMMA ImageOf ==
  ASSUME ProgramInv, StateInv
  PROVE  /\ image \in [Addresses -> Values]
         /\ \/ image = retired_memory
            \/ /\ ~cpu.halted /\ InstructionFault(program, cpu.pc, cpu.registers) = "None"
               /\ program[cpu.pc].op = "Store"
               /\ image = [retired_memory EXCEPT ![cpu.registers[program[cpu.pc].rs1]] =
                                                   cpu.registers[program[cpu.pc].rs2]]
<1> DEFINE f == cpu.execute[1]
           request == DataRequest(f)
<1>1. CpuType(cpu) /\ PathInv(cpu) /\ DataInv(cpu, data, retired_memory) /\ program \in Programs
  BY DEF StateInv, ProgramInv
<1>2. retired_memory \in [Addresses -> Values]
  BY <1>1 DEF DataInv
<1>3. CASE image = retired_memory
  BY <1>2, <1>3
<1>4. CASE image # retired_memory
  <2>1. Accessing(cpu) /\ image = ImageAfter(program, retired_memory, request)
    BY <1>1, <1>4 DEF DataInv
  <2>2. request.kind = "Store" /\ AccessFault(program, request) = "None"
        /\ image = [retired_memory EXCEPT ![request.address] = request.value]
    BY <1>4, <2>1 DEF ImageAfter
  <2>3. request.kind = f.word.op /\ request.address = f.lhs /\ request.value = f.rhs
    BY DEF DataRequest
  <2>4. cpu.execute # <<>> /\ f.fault = "None"
    BY <1>1, <2>1 DEF Accessing, PathInv, ExecuteFrame
  <2>5. /\ ~cpu.halted /\ cpu.pc \in DOMAIN program
        /\ f.word = program[cpu.pc]
        /\ f.lhs = cpu.registers[f.word.rs1] /\ f.rhs = cpu.registers[f.word.rs2]
        /\ f.lhs \in Values /\ f.rhs \in Values
    BY <1>1, <2>4, ExecuteType
  <2>6. f.lhs \in Addresses
    BY <2>2, <2>3 DEF AccessFault
  <2>7. InstructionFault(program, cpu.pc, cpu.registers) = "None"
    BY <2>2, <2>3, <2>5, <2>6 DEF InstructionFault
  <2>8. image \in [Addresses -> Values]
    BY <1>2, <2>2, <2>3, <2>5
  <2> QED
    BY <2>2, <2>3, <2>5, <2>7, <2>8
<1> QED
  BY <1>3, <1>4

\* Core::reset.
LEMMA ResetSessionInv == PipelineInv /\ ResetSession => PipelineInv'
<1> SUFFICES ASSUME PipelineInv, ResetSession PROVE PipelineInv'
  OBVIOUS
<1>1. ProgramInv /\ StateInv /\ fault' = "None" /\ UNCHANGED <<image, program>>
  BY DEF PipelineInv, ResetSession, Running
<1>2. image' \in [Addresses -> Values]
  BY <1>1, ImageOf
<1>3. StateInv'
  <2>1. IsFresh'
    BY <1>1, <1>2 DEF ResetSession, IsFresh, ResetCpu, IdlePort, ZeroRegisters
  <2> QED
    BY <2>1, FreshSession, PTL
<1> QED
  BY <1>1, <1>3 DEF PipelineInv, ProgramInv, PortsStayInStep, ProtocolFaults, FaultsArePrecise,
       Running

-----------------------------------------------------------------------------
(* The theorems about every behaviour.                                     *)

\* A step that changes nothing.
LEMMA StutterInv == PipelineInv /\ UNCHANGED vars => PipelineInv'
<1> SUFFICES ASSUME PipelineInv, UNCHANGED vars PROVE PipelineInv'
  OBVIOUS
<1>1. UNCHANGED <<cpu, fetch, data, image, program, epoch, accepted, retired_memory, fault>>
  BY DEF vars
<1>2. StateInv => StateInv'
  BY <1>1, SameState
<1>3. RetiredOperations' = RetiredOperations
  BY <1>1 DEF RetiredOperations
<1>4. IsRefused' = IsRefused
  BY <1>1, <1>3 DEF IsRefused
<1> QED
  BY <1>1, <1>2, <1>3, <1>4 DEF PipelineInv, ProgramInv, PortsStayInStep, ProtocolFaults,
       FaultsArePrecise, Running

\* The inductive invariant of the pipeline and its memory: at most one message
\* is under way on each port, and it is the one the core waits for; the stages
\* hold consecutive instructions from pc on, the one in execute with current
\* operands; the memory is the one of the last retirement but for the store in
\* execute; the last operations are the accepted lanes of the bundle in execute.
THEOREM PipelineInvariant == Spec => []PipelineInv
<1>1. PipelineInv /\ [Next]_vars => PipelineInv'
  <2> SUFFICES ASSUME PipelineInv, [Next]_vars PROVE PipelineInv'
    OBVIOUS
  <2>1. CASE CpuEdge
    BY <2>1, CpuEdgeInv
  <2>2. CASE MemoryEdge
    BY <2>2, MemoryEdgeInv
  <2>3. CASE AdvanceTick
    BY <2>3, AdvanceTickInv
  <2>4. CASE ResetSession
    BY <2>4, ResetSessionInv
  <2>5. CASE Stopped
    BY <2>5, StutterInv DEF Stopped
  <2>6. CASE UNCHANGED vars
    BY <2>6, StutterInv
  <2> QED
    BY <2>1, <2>2, <2>3, <2>4, <2>5, <2>6 DEF Next
<1> QED
  BY PipelineInit, <1>1, PTL DEF Spec

\* The checks of pipeline.cpp and memory.cpp on the identities of requests and
\* responses never fail, for every program, clock and latency.
THEOREM IdentityChecksNeverFail == Spec => []PortsStayInStep
<1>1. PipelineInv => PortsStayInStep
  BY DEF PipelineInv
<1> QED
  BY PipelineInvariant, <1>1, PTL

\* A fault is the one of the instruction at pc, or timing control has refused one
\* of its commands; the registers, the memory and the control operations are those
\* of the instructions before it, and of the lanes before the refused one, for
\* every program.
THEOREM FaultsStopAtTheirInstruction == Spec => []FaultsArePrecise
<1>1. PipelineInv => FaultsArePrecise
  BY DEF PipelineInv
<1> QED
  BY PipelineInvariant, <1>1, PTL

-----------------------------------------------------------------------------
(* The refinement of the sequential machine.                               *)

ArchitectureStep == Architecture!Execute \/ Architecture!Restart \/ UNCHANGED Architecture!isaVars

\* The architectural state of the pipeline is unchanged.
LEMMA SameArchitecturalState ==
  ASSUME cpu.registers' = cpu.registers, cpu.pc' = cpu.pc, cpu.halted' = cpu.halted,
         retired_memory' = retired_memory, RetiredOperations' = RetiredOperations,
         program' = program
  PROVE  UNCHANGED Architecture!isaVars
BY DEF Architecture!isaVars

\* The instance has the instructions of the pipeline.
LEMMA SameInstructions ==
  /\ Architecture!ZeroRegisters = ZeroRegisters
  /\ \A code, at, file :
       Architecture!InstructionFault(code, at, file) = InstructionFault(code, at, file)
  /\ \A i, at, lhs, rhs : /\ Architecture!ResultOf(i, at, lhs, rhs) = ResultOf(i, at, lhs, rhs)
                          /\ Architecture!NextPc(i, at, lhs, rhs) = NextPc(i, at, lhs, rhs)
  /\ \A i : Architecture!WritesRd(i) = WritesRd(i) /\ Architecture!Lanes(i) = Lanes(i)
  /\ \A file, r, x : Architecture!WriteRegister(file, r, x) = WriteRegister(file, r, x)
  /\ \A at, lane, lhs, rhs :
       Architecture!OperationOf(at, lane, lhs, rhs) = OperationOf(at, lane, lhs, rhs)
<1>1. \A file : Architecture!IsExit(file) = IsExit(file)
  BY DEF Architecture!IsExit, IsExit
<1>2. \A code, at, file :
        Architecture!InstructionFault(code, at, file) = InstructionFault(code, at, file)
  BY <1>1 DEF Architecture!InstructionFault, InstructionFault
<1>3. \A i, lhs, rhs : Architecture!IsTaken(i, lhs, rhs) = IsTaken(i, lhs, rhs)
  BY DEF Architecture!IsTaken, IsTaken
<1>4. \A i, at, lhs, rhs : /\ Architecture!ResultOf(i, at, lhs, rhs) = ResultOf(i, at, lhs, rhs)
                           /\ Architecture!NextPc(i, at, lhs, rhs) = NextPc(i, at, lhs, rhs)
  BY <1>3 DEF Architecture!ResultOf, ResultOf, Architecture!NextPc, NextPc
<1>5. \A i : Architecture!WritesRd(i) = WritesRd(i) /\ Architecture!Lanes(i) = Lanes(i)
  BY DEF Architecture!WritesRd, WritesRd, Architecture!Lanes, Lanes
<1>6. \A file, r, x : Architecture!WriteRegister(file, r, x) = WriteRegister(file, r, x)
  BY DEF Architecture!WriteRegister, WriteRegister
<1>7. \A at, lane, lhs, rhs :
        Architecture!OperationOf(at, lane, lhs, rhs) = OperationOf(at, lane, lhs, rhs)
  BY DEF Architecture!OperationOf, OperationOf
<1>8. Architecture!ZeroRegisters = ZeroRegisters
  BY DEF Architecture!ZeroRegisters, ZeroRegisters
<1> QED
  BY <1>2, <1>4, <1>5, <1>6, <1>7, <1>8

\* A CPU edge is one step of the sequential machine or none.
LEMMA CpuEdgeStep == PipelineInv /\ CpuEdge => ArchitectureStep
<1> SUFFICES ASSUME PipelineInv, CpuEdge PROVE ArchitectureStep
  OBVIOUS
<1>1. StateInv /\ UNCHANGED <<image, program, epoch>>
  BY DEF PipelineInv, CpuEdge
<1>2. PICK v : /\ cpu' = v.cpu /\ fetch' = v.fetch /\ data' = v.data
               /\ accepted' = v.accepted /\ fault' = v.fault
               /\ retired_memory' = MemoryOf(v)
               /\ Outcome(World, v)
  BY CpuEdgeOutcome
<1>3. RetiredOperations' = RetiredOf(v)
  BY <1>1, <1>2, FinalWorld
<1>4. /\ MemoryOf(World) = retired_memory /\ World.cpu = cpu /\ World.retires = FALSE
      /\ RetiredOf(World) = RetiredOperations
  BY <1>1, InitialWorld
<1>5. CASE SameArchitecture(World, v)
  <2>1. /\ cpu.registers' = cpu.registers /\ cpu.pc' = cpu.pc /\ cpu.halted' = cpu.halted
        /\ v.retires = FALSE /\ RetiredOf(v) = RetiredOf(World)
    BY <1>2, <1>4, <1>5 DEF SameArchitecture
  <2>2. retired_memory' = retired_memory
    BY <1>2, <2>1 DEF MemoryOf
  <2>3. UNCHANGED Architecture!isaVars
    BY <1>1, <1>3, <1>4, <2>1, <2>2, SameArchitecturalState
  <2> QED
    BY <2>3 DEF ArchitectureStep
<1>6. CASE IsaStep(World, v)
  <2> DEFINE i == program[cpu.pc]
             lhs == cpu.registers[i.rs1]
             rhs == cpu.registers[i.rs2]
  <2>1. /\ ~cpu.halted
        /\ InstructionFault(program, cpu.pc, cpu.registers) = "None"
        /\ v.cpu.pc = NextPc(i, cpu.pc, lhs, rhs)
        /\ \E value \in IsaResults(i, cpu.pc, lhs, rhs, retired_memory) :
             v.cpu.registers = IF WritesRd(i) THEN WriteRegister(cpu.registers, i.rd, value)
                               ELSE cpu.registers
        /\ image = IF i.op = "Store" THEN [retired_memory EXCEPT ![lhs] = rhs] ELSE retired_memory
        /\ RetiredOf(v) = RetiredOperations
                            \o [lane \in 1..Lanes(i) |-> OperationOf(cpu.pc, lane, lhs, rhs)]
        /\ v.cpu.halted = (i.op = "Ecall")
        /\ v.retires = TRUE
    BY <1>4, <1>6, Zenon DEF IsaStep
  <2>2. retired_memory' = image
    BY <1>2, <2>1 DEF MemoryOf
  <2>3. Architecture!Execute
    <3> DEFINE results == CASE i.op = "Load" -> {retired_memory[lhs]}
                            [] i.op = "Quantum" -> Replies
                            [] OTHER -> {Architecture!ResultOf(i, cpu.pc, lhs, rhs)}
    <3>1. results = IsaResults(i, cpu.pc, lhs, rhs, retired_memory)
      BY SameInstructions DEF IsaResults
    <3>2. Architecture!InstructionFault(program, cpu.pc, cpu.registers) = "None"
      BY <2>1, SameInstructions
    <3>3. cpu.pc' = Architecture!NextPc(i, cpu.pc, lhs, rhs)
      BY <1>2, <2>1, SameInstructions
    <3>4. \E value \in results :
            cpu.registers' = IF Architecture!WritesRd(i)
                               THEN Architecture!WriteRegister(cpu.registers, i.rd, value)
                             ELSE cpu.registers
      <4> HIDE DEF results, i
      <4> QED
        BY <1>2, <2>1, <3>1, SameInstructions
    <3>5. retired_memory' = IF i.op = "Store" THEN [retired_memory EXCEPT ![lhs] = rhs]
                            ELSE retired_memory
      BY <2>1, <2>2
    <3>6. RetiredOperations' = RetiredOperations
            \o [lane \in 1..Architecture!Lanes(i) |->
                  Architecture!OperationOf(cpu.pc, lane, lhs, rhs)]
      <4>1. Architecture!Lanes(i) = Lanes(i)
        BY SameInstructions
      <4>2. [lane \in 1..Lanes(i) |-> Architecture!OperationOf(cpu.pc, lane, lhs, rhs)] =
              [lane \in 1..Lanes(i) |-> OperationOf(cpu.pc, lane, lhs, rhs)]
        BY SameInstructions
      <4>3. RetiredOperations' = RetiredOperations
              \o [lane \in 1..Lanes(i) |-> Architecture!OperationOf(cpu.pc, lane, lhs, rhs)]
        BY <1>3, <2>1, <4>2
      <4> HIDE DEF i, lhs, rhs
      <4> QED
        BY <4>1, <4>3
    <3>7. cpu.halted' = (i.op = "Ecall") /\ UNCHANGED program
      BY <1>1, <1>2, <2>1
    <3> QED
      BY <2>1, <3>2, <3>3, <3>4, <3>5, <3>6, <3>7, Zenon DEF Architecture!Execute
  <2> QED
    BY <2>3 DEF ArchitectureStep
<1> QED
  BY <1>2, <1>5, <1>6 DEF Outcome, Continues, Executes, FaultsAt, RefusedAt

\* A reset starts the sequential machine again, over the memory it finds.
LEMMA ResetSessionStep == PipelineInv /\ ResetSession => ArchitectureStep
<1> SUFFICES ASSUME PipelineInv, ResetSession PROVE ArchitectureStep
  OBVIOUS
<1>1. /\ ProgramInv /\ StateInv /\ program' = program /\ cpu' = ResetCpu /\ accepted' = <<>>
      /\ retired_memory' = image
  BY DEF PipelineInv, ResetSession
<1>2. /\ cpu.registers' = Architecture!ZeroRegisters /\ cpu.pc' = Entry /\ cpu.halted' = FALSE
      /\ cpu'.execute = <<>>
  BY <1>1, SameInstructions DEF ResetCpu
<1>3. RetiredOperations' = <<>>
  <2>1. RetiredOperations' = SubSeq(<<>>, 1, 0)
    BY <1>1, <1>2 DEF RetiredOperations
  <2> QED
    BY <2>1
<1>4. \/ retired_memory' = retired_memory
      \/ /\ ~cpu.halted
         /\ Architecture!InstructionFault(program, cpu.pc, cpu.registers) = "None"
         /\ program[cpu.pc].op = "Store"
         /\ retired_memory' = [retired_memory EXCEPT ![cpu.registers[program[cpu.pc].rs1]] =
                                                       cpu.registers[program[cpu.pc].rs2]]
  <2>1. Architecture!InstructionFault(program, cpu.pc, cpu.registers) =
          InstructionFault(program, cpu.pc, cpu.registers)
    BY SameInstructions
  <2> QED
    BY <1>1, <2>1, ImageOf
<1>5. Architecture!Restart
  BY <1>1, <1>2, <1>3, <1>4, Zenon DEF Architecture!Restart
<1> QED
  BY <1>5 DEF ArchitectureStep

\* The other actions leave the architectural state alone.
LEMMA OtherStep == MemoryEdge \/ AdvanceTick \/ Stopped \/ UNCHANGED vars => ArchitectureStep
<1> SUFFICES ASSUME MemoryEdge \/ AdvanceTick \/ Stopped \/ UNCHANGED vars PROVE ArchitectureStep
  OBVIOUS
<1>1. UNCHANGED <<cpu, program, accepted, retired_memory>>
  BY DEF MemoryEdge, AdvanceTick, Stopped, vars
<1>2. RetiredOperations' = RetiredOperations
  BY <1>1 DEF RetiredOperations
<1>3. UNCHANGED Architecture!isaVars
  BY <1>1, <1>2, SameArchitecturalState
<1> QED
  BY <1>3 DEF ArchitectureStep

\* The pipelined core implements the sequential machine, for every program, every
\* memory latency and every pattern of blocked operations and resets.
THEOREM PipelineImplementsIsa == Spec => ImplementsIsa
<1>1. Init => Architecture!IsaInit
  <2> SUFFICES ASSUME Init PROVE Architecture!IsaInit
    OBVIOUS
  <2>1. /\ cpu.registers = Architecture!ZeroRegisters /\ cpu.pc = Entry /\ cpu.halted = FALSE
        /\ cpu.execute = <<>> /\ accepted = <<>>
    BY SameInstructions DEF Init, ResetCpu
  <2>2. RetiredOperations = <<>>
    <3>1. RetiredOperations = SubSeq(<<>>, 1, 0)
      BY <2>1 DEF RetiredOperations
    <3> QED
      BY <3>1
  <2> QED
    BY <2>1, <2>2 DEF Architecture!IsaInit
<1>2. PipelineInv /\ [Next]_vars =>
        [Architecture!Execute \/ Architecture!Restart]_(Architecture!isaVars)
  <2> SUFFICES ASSUME PipelineInv, [Next]_vars PROVE ArchitectureStep
    BY DEF ArchitectureStep
  <2> QED
    BY CpuEdgeStep, ResetSessionStep, OtherStep DEF Next
<1> QED
  BY PipelineInvariant, <1>1, <1>2, PTL DEF Spec, ImplementsIsa, Architecture!IsaSpec
=============================================================================
