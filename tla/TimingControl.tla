--------------------------- MODULE TimingControl ---------------------------
(***************************************************************************)
(* The control side of a core: class TimingControl of timing_control.cpp,  *)
(* which turns control instructions into time points, and the links to the *)
(* TCU.  One CPU edge runs several of its operations in sequence, so they  *)
(* are operators on a record w = [control, links, registers, fault]; a     *)
(* failed check leaves its reason in w.fault and everything else as it was.*)
(***************************************************************************)
EXTENDS Integers, Sequences, FiniteSets, Clock, ControlProtocol, MeasurementRegisters

CONSTANTS
  CpuClock, TcuClock,  \* the two clocks, records [period, phase]
  CommandLatency,      \* TCU edges from a request to its arrival
  ReplyLatency,        \* CPU edges from a reply to its arrival
  CpuResultLatency,    \* CPU edges from a result to its register
  FastResultLatency,   \* TCU edges from a result to the execution flags
  Mapping              \* codeword -> list of actions [kind, port, target, flag]

ASSUME LinkAssumption ==
  /\ ValidClock(CpuClock) /\ ValidClock(TcuClock)
  /\ CommandLatency \in Nat \ {0} /\ ReplyLatency \in Nat \ {0}
  /\ CpuResultLatency \in Nat \ {0} /\ FastResultLatency \in Nat \ {0}

\* TimingControl::reset.
ClearControl ==
  [pending_events |-> <<>>, pending_sync |-> <<>>, enqueue_request |-> <<>>, held |-> <<>>,
   time_point |-> 0, last_enqueued_time |-> 0, last_label |-> 0, next_event |-> 1,
   pending_point |-> FALSE, enqueued |-> FALSE, closed |-> FALSE,
   pending_wait_for_next |-> FALSE, allow_same_time |-> FALSE]

\* ControlLinks::reset.
ClearLinks ==
  [timing_events |-> <<>>, replies |-> <<>>, closure |-> <<>>,
   cpu_results |-> <<>>, fast_results |-> <<>>, fast_credits |-> <<>>]

Fail(w, reason) == [w EXCEPT !.fault = reason]

-----------------------------------------------------------------------------
(* receive: what the links bring at a CPU edge.                            *)

\* Mutation of ReceiveReply: the time of the admitted point is not recorded.
ReceiveReply_ForgetTime(w, now, epoch) ==
  LET front == Peek(w.links.replies, now)
      taken == [w EXCEPT !.links.replies = Tail(@)]
  IN  IF front = <<>> \/ w.control.enqueue_request = <<>> THEN w
      ELSE [taken EXCEPT
              !.control.last_label = front[1].value,
              !.control.enqueue_request = <<>>,
              !.control.pending_events = <<>>,
              !.control.pending_sync = <<>>,
              !.control.pending_point = FALSE,
              !.control.enqueued = TRUE]

\* Mutation of ReceiveReply: the request stays outstanding.
ReceiveReply_KeepRequest(w, now, epoch) ==
  LET front == Peek(w.links.replies, now)
      taken == [w EXCEPT !.links.replies = Tail(@)]
  IN  IF front = <<>> \/ w.control.enqueue_request = <<>> THEN w
      ELSE [taken EXCEPT
              !.control.last_label = front[1].value,
              !.control.last_enqueued_time = w.control.time_point,
              !.control.pending_events = <<>>,
              !.control.pending_sync = <<>>,
              !.control.pending_point = FALSE,
              !.control.enqueued = TRUE]

\* The acknowledgment of the outstanding request.
ReceiveReply(w, now, epoch) ==
  LET front == Peek(w.links.replies, now)
      taken == [w EXCEPT !.links.replies = Tail(@)]
  IN  IF front = <<>> THEN w
      ELSE IF front[1].epoch # epoch THEN taken
      ELSE IF \/ w.control.enqueue_request = <<>>
              \/ w.control.enqueue_request[1].point.label # front[1].value
        THEN Fail(w, "UnexpectedAcknowledgment")
      ELSE [taken EXCEPT
              !.control.last_label = front[1].value,
              !.control.last_enqueued_time = w.control.time_point,
              !.control.enqueue_request = <<>>,
              !.control.pending_events = <<>>,
              !.control.pending_sync = <<>>,
              !.control.pending_point = FALSE,
              !.control.enqueued = TRUE]

\* The envelopes of this epoch that have arrived, without their wrapping.
Arrived(box, now, epoch) ==
  LET ready == SelectSeq(Ready(box, now), LAMBDA e : e.epoch = epoch)
  IN  [i \in 1..Len(ready) |-> ready[i].value]

\* Every result that has arrived goes to its register, in order.
ReceiveResults(w, now, epoch) ==
  LET results == Arrived(w.links.cpu_results, now, epoch)
      reason  == DeliverFault(w.registers, results)
  IN  IF w.fault # "None" THEN w
      ELSE IF reason # "None" THEN Fail(w, reason)
      ELSE [w EXCEPT !.links.cpu_results = Waiting(@, now),
                     !.registers = Deliver(@, results)]

\* Every credit that has arrived releases its fast reservation.
ReceiveCredits(w, now, epoch) ==
  LET credits == Arrived(w.links.fast_credits, now, epoch)
      reason  == AcknowledgeFault(w.registers, credits)
  IN  IF w.fault # "None" THEN w
      ELSE IF reason # "None" THEN Fail(w, reason)
      ELSE [w EXCEPT !.links.fast_credits = Waiting(@, now),
                     !.registers = AcknowledgeFast(@, credits)]

-----------------------------------------------------------------------------
(* enqueue: submit the pending time point, or find that there is none.     *)

RequestFor(c, epoch) ==
  LET label    == c.last_label + 1
      interval == c.time_point - c.last_enqueued_time
  IN  [point |->
         [epoch |-> epoch, label |-> label, interval |-> interval,
          synchronizations |-> c.pending_sync,
          underflow_policy |-> IF c.pending_wait_for_next THEN "PauseWhenEmpty"
                               ELSE IF interval > 0 THEN "Strict"
                               ELSE "Inherit",
          manifest |-> [i \in 1..Len(c.pending_events) |-> c.pending_events[i].id]],
       events |-> [i \in 1..Len(c.pending_events) |->
                     [c.pending_events[i] EXCEPT !.label = label]]]

\* Mutation of Enqueue: the submission does not wait for its acknowledgment.
Enqueue_NoWait(w, now, epoch) ==
  LET c == w.control
      r == RequestFor(c, epoch)
  IN  IF c.enqueue_request # <<>> THEN [w |-> w, done |-> TRUE]
      ELSE IF ~c.pending_point
        THEN [w |-> [w EXCEPT !.control.enqueued = ~c.allow_same_time], done |-> TRUE]
      ELSE [w |-> [w EXCEPT
                     !.control.enqueue_request = <<r>>,
                     !.links.timing_events =
                        Publish(@, TcuClock, CommandLatency, now, epoch, r)],
            done |-> FALSE]

\* [w, done]: done when no point is pending or outstanding.
Enqueue(w, now, epoch) ==
  LET c == w.control
      r == RequestFor(c, epoch)
  IN  IF c.enqueue_request # <<>> THEN [w |-> w, done |-> FALSE]
      ELSE IF ~c.pending_point
        THEN [w |-> [w EXCEPT !.control.enqueued = ~c.allow_same_time], done |-> TRUE]
      ELSE IF ~ValidTimingEvents(r) THEN [w |-> Fail(w, "InvalidRequest"), done |-> FALSE]
      ELSE IF IsFull(w.links.timing_events, 1) THEN [w |-> Fail(w, "LinkBusy"), done |-> FALSE]
      ELSE [w |-> [w EXCEPT
                     !.control.enqueue_request = <<r>>,
                     !.links.timing_events =
                        Publish(@, TcuClock, CommandLatency, now, epoch, r)],
            done |-> FALSE]

-----------------------------------------------------------------------------
(* The commands.  Each yields [w, result]; <<>> keeps the CPU waiting.     *)

Blocked(w) == [w |-> w, result |-> <<>>]
Finished(w, value) == [w |-> w, result |-> <<value>>]

ExecuteZeroWait(w, now, epoch) ==
  LET marked == IF w.control.pending_wait_for_next THEN w
                ELSE [w EXCEPT !.control.pending_wait_for_next = TRUE,
                               !.control.pending_point = TRUE]
      e == Enqueue(marked, now, epoch)
  IN  IF ~e.done THEN Blocked(e.w)
      ELSE Finished([e.w EXCEPT !.control.pending_wait_for_next = FALSE,
                                !.control.allow_same_time = TRUE,
                                !.control.enqueued = FALSE], 0)

\* Mutation of AdvanceTime: the permission to repeat a time point survives.
AdvanceTime_KeepSameTime(w, cycles, now, epoch) ==
  LET e == Enqueue(w, now, epoch)
  IN  IF ~e.done THEN Blocked(e.w)
      ELSE Finished([e.w EXCEPT !.control.time_point = @ + cycles,
                                !.control.pending_point = TRUE,
                                !.control.enqueued = FALSE], 0)

AdvanceTime(w, cycles, now, epoch) ==
  LET e == Enqueue(w, now, epoch)
  IN  IF ~e.done THEN Blocked(e.w)
      ELSE Finished([e.w EXCEPT !.control.time_point = @ + cycles,
                                !.control.allow_same_time = FALSE,
                                !.control.pending_point = TRUE,
                                !.control.enqueued = FALSE], 0)

IsReadout(action) == action.kind \in {"Acquire", "Arm"}

\* The events of a codeword's actions; a readout carries the reference that was
\* reserved for its target.
DecodeCodeword(actions, epoch, first, references) ==
  [i \in 1..Len(actions) |->
     [epoch |-> epoch, id |-> first + i - 1, label |-> 0, kind |-> actions[i].kind,
      port |-> actions[i].port, flag |-> actions[i].flag, target |-> actions[i].target,
      reference |-> IF IsReadout(actions[i])
                      THEN SelectSeq(references, LAMBDA f : f.target = actions[i].target)
                      ELSE <<>>]]

\* Each readout of a codeword needs exactly one acquisition of its target.
DecodeFault(actions) ==
  \E i \in 1..Len(actions) :
    /\ IsReadout(actions[i])
    /\ Cardinality({j \in 1..Len(actions) : /\ actions[j].kind = "Acquire"
                                            /\ actions[j].target = actions[i].target}) # 1

TargetsOf(actions) ==
  LET acquire == SelectSeq(actions, LAMBDA a : a.kind = "Acquire")
  IN  [i \in 1..Len(acquire) |-> acquire[i].target]

CodewordFault(w, actions) ==
  LET c       == w.control
      load(p) == Len(SelectSeq(c.pending_events, LAMBDA e : e.port = p))
                   + Len(SelectSeq(actions, LAMBDA e : e.port = p))
  IN  IF c.enqueued \/ c.enqueue_request # <<>> THEN "WaitRequired"
      ELSE IF ~FastFeedback /\ \E i \in 1..Len(actions) : actions[i].flag # "Always"
        THEN "FastFeedbackDisabled"
      ELSE IF Len(c.pending_events) + Len(actions) > StagingCapacity THEN "StagingCapacity"
      ELSE IF \E p \in Ports : load(p) > FiringWidth \/ load(p) > EventCapacity
        THEN "PortCapacity"
      ELSE IF ~HasCapacity(w.registers, Len(TargetsOf(actions))) THEN "ResultCapacity"
      ELSE IF DecodeFault(actions) THEN "InvalidMeasurement"
      ELSE "None"

Codeword(w, actions, epoch) ==
  LET refs == ReservationFor(w.registers, epoch, TargetsOf(actions))
  IN  IF CodewordFault(w, actions) # "None" THEN Blocked(Fail(w, CodewordFault(w, actions)))
      ELSE Finished([w EXCEPT
                       !.registers = Reserve(@, refs),
                       !.control.pending_events =
                          @ \o DecodeCodeword(actions, epoch, w.control.next_event, refs),
                       !.control.pending_point = TRUE,
                       !.control.next_event = @ + Len(actions)], 0)

\* The codeword of an instruction, or the two of a bundle, which the CPU issues
\* one after the other in the same cycle.
CodewordLanes(w, codewords, epoch) ==
  LET first == Codeword(w, Mapping[codewords[1]], epoch)
  IN  IF Len(codewords) = 1 \/ first.w.fault # "None" THEN first
      ELSE Codeword(first.w, Mapping[codewords[2]], epoch)

FetchMeasurement(w, q, now, epoch) ==
  LET e     == Enqueue(w, now, epoch)
      value == ReadRegister(e.w.registers, q)
  IN  IF ~e.done \/ value = <<>> THEN Blocked(e.w) ELSE Finished(e.w, IF value[1] THEN 1 ELSE 0)

Halt(w, now, epoch) ==
  LET e == Enqueue(w, now, epoch)
  IN  IF ~e.done THEN Blocked(e.w)
      ELSE IF PublishFault(e.w.links.closure, 1, now) THEN Blocked(Fail(w, "MailboxFull"))
      ELSE Finished([e.w EXCEPT
                       !.links.closure = Publish(@, TcuClock, CommandLatency, now, epoch,
                                                 e.w.control.last_label),
                       !.control.closed = TRUE], 0)

Synchronize(w, target) ==
  LET c == w.control
  IN  IF c.enqueued \/ c.enqueue_request # <<>> THEN Blocked(Fail(w, "WaitRequired"))
      ELSE IF c.pending_sync # <<>> THEN Blocked(Fail(w, "SecondSync"))
      ELSE Finished([w EXCEPT !.control.pending_sync = <<target>>,
                              !.control.pending_point = TRUE], 0)

\* An operation is [instruction, command, arg]; a blocked one is retried as it is.
Dispatch(w, operation, now, epoch) ==
  CASE operation.command = "cw" -> CodewordLanes(w, operation.arg, epoch)
    [] operation.command = "wait" ->
         IF operation.arg = 0 THEN ExecuteZeroWait(w, now, epoch)
         ELSE AdvanceTime(w, operation.arg, now, epoch)
    [] operation.command = "fmr" -> FetchMeasurement(w, operation.arg, now, epoch)
    [] operation.command = "halt" -> Halt(w, now, epoch)
    [] operation.command = "sync" -> Synchronize(w, operation.arg)

\* The operation is held while it is blocked and released with its result.
Hold(w, operation) == [w EXCEPT !.control.held = <<operation>>]
Release(outcome) ==
  IF outcome.result = <<>> THEN outcome ELSE [outcome EXCEPT !.w.control.held = <<>>]

ExecuteFault(w, operation) ==
  IF w.control.closed THEN "OperationAfterExit"
  ELSE IF w.control.held # <<>> /\ w.control.held[1] # operation
    THEN "BlockedInstructionChanged"
  ELSE "None"
=============================================================================
