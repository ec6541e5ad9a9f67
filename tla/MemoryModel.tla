----------------------------- MODULE MemoryModel -----------------------------
(***************************************************************************)
(* The memory of a core: class MemoryModel of memory.cpp and its ports, as *)
(* operators.  A port is a record of its two mailboxes, each with one      *)
(* slot, the access under way and the identity of the last one.  A request *)
(* is [id, address, kind, value], kind one of "Fetch", "Load", "Store"; a  *)
(* response is [id, value, fault].  Code and data lie in different         *)
(* segments, and only the latter can be written.                           *)
(***************************************************************************)
EXTENDS Instructions, Clock

CONSTANTS
  CpuClock,       \* the clock of the core, its memory and both ports
  MemoryLatency   \* memory_latency, in edges

ASSUME MemoryAssumption == ValidClock(CpuClock) /\ MemoryLatency \in Nat \ {0}

PortSlots == 1
LinkEdges == 1   \* the default latency of a mailbox

IdlePort == [requests |-> <<>>, responses |-> <<>>, pending |-> <<>>, last_id |-> 0]

\* The access itself: what the image returns, and why it refuses.
AccessFault(code, request) ==
  CASE request.kind = "Fetch" /\ request.address \notin DOMAIN code -> "InstructionAccess"
    [] request.kind = "Load" /\ request.address \notin Addresses -> "LoadAccess"
    [] request.kind = "Store" /\ request.address \notin Addresses -> "StoreAccess"
    [] OTHER -> "None"

ResponseTo(code, image, request) ==
  [id |-> request.id, fault |-> AccessFault(code, request),
   value |-> IF AccessFault(code, request) # "None" \/ request.kind = "Store" THEN 0
             ELSE IF request.kind = "Fetch" THEN code[request.address]
             ELSE image[request.address]]

ImageAfter(code, image, request) ==
  IF request.kind = "Store" /\ AccessFault(code, request) = "None"
    THEN [image EXCEPT ![request.address] = request.value]
    ELSE image

\* The access under way ends at this edge, if its response has room.
Completes(p, now) ==
  p.pending # <<>> /\ p.pending[1].completion <= now /\ ~IsFull(p.responses, PortSlots)

AfterCompletion(p, code, image, now, epoch) ==
  IF ~Completes(p, now) THEN p
  ELSE [p EXCEPT !.pending = <<>>,
                 !.responses = IF p.pending[1].epoch # epoch THEN @
                               ELSE Publish(@, CpuClock, LinkEdges, now, epoch,
                                            ResponseTo(code, image, p.pending[1].request))]

\* A request is accepted by a port that was idle at the start of the edge.
Accepts(p, q, now) ==
  p.pending = <<>> /\ ~IsFull(q.responses, PortSlots) /\ Peek(q.requests, now) # <<>>

StepPort(p, code, image, now, epoch) ==
  LET q       == AfterCompletion(p, code, image, now, epoch)
      message == Peek(q.requests, now)[1]
      taken   == [q EXCEPT !.requests = Tail(@)]
  IN  IF ~Accepts(p, q, now) THEN q
      ELSE IF message.epoch # epoch THEN taken
      ELSE [taken EXCEPT !.last_id = message.value.id,
                         !.pending = <<[request |-> message.value, epoch |-> epoch,
                                        completion |-> now + MemoryLatency * CpuClock.period]>>]

\* The check on the identity of an accepted request.
PortFault(p, code, image, now, epoch) ==
  LET q == AfterCompletion(p, code, image, now, epoch)
  IN  IF /\ Accepts(p, q, now)
         /\ Peek(q.requests, now)[1].epoch = epoch
         /\ Peek(q.requests, now)[1].value.id <= p.last_id
        THEN "RequestReordered" ELSE "None"

\* The image after the data port's edge.
StepImage(p, code, image, now, epoch) ==
  IF Completes(p, now) /\ p.pending[1].epoch = epoch
    THEN ImageAfter(code, image, p.pending[1].request)
    ELSE image
=============================================================================
