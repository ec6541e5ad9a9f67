------------------------------- MODULE Decoder -------------------------------
(***************************************************************************)
(* Decoder transport and processing: class DecoderSystem of decoder.cpp,   *)
(* shared by the cores, under the memory edges and barriers of the         *)
(* simulator.                                                              *)
(*                                                                         *)
(* Cores store measurement bits into their registers and submit them; the  *)
(* packets of all cores share one link, fill the window of their session   *)
(* (a core and a decoder), a full window becomes a job, and the results    *)
(* come back over another shared link, XORed together until the core       *)
(* consumes them.  A correction is the set of its bits that are 1.  What   *)
(* a decoder computes is the external function Decode.                     *)
(***************************************************************************)
EXTENDS Integers, Sequences, FiniteSets, SequencesExt, Subsequences, DecoderMmio

CONSTANTS
  CoreCount,        \* number of cores
  DecoderConfig,    \* per decoder [measurements, outputs, latency, initiation_interval]
  Decode(_),        \* a window's correction: a set of output bits
  RequestCapacity,  \* request_capacity
  ResultCapacity,   \* result_capacity
  LinkLatency,      \* link_latency
  BytesPerTick,     \* bytes_per_tick
  PacketOverhead,   \* packet_overhead
  CpuPeriod,        \* ticks between memory edges
  Menu,             \* per core, the accesses it may make first, second, ...
  LastAccess,       \* bound on the ticks at which a new access is made
  MaxEpoch          \* bound on the session resets

ASSUME DecoderAssumption ==
  /\ {CoreCount, RequestCapacity, ResultCapacity, LinkLatency, BytesPerTick, CpuPeriod}
       \subseteq Nat \ {0}
  /\ {PacketOverhead, LastAccess, MaxEpoch} \subseteq Nat
  /\ IsFiniteSet(DecoderIds) /\ DOMAIN DecoderConfig = DecoderIds
  /\ \A d \in DecoderIds :
       DecoderConfig[d] \in [measurements : Nat \ {0}, outputs : Nat \ {0}, latency : Nat \ {0},
                            initiation_interval : Nat \ {0}]
  /\ \A core \in 1..CoreCount : Menu[core] \in Seq(SUBSET Accesses)

VARIABLES
  transport,  \* sessions_, requests_, reset_request_, jobs_, available_,
              \* tx_available_, rx_available_, next_, and the check that failed
  registers   \* mmio_: per core, its registers

VARIABLES
  now, epoch,  \* the current tick and epoch
  served,      \* how many cores have had their memory edge in this tick
  settled,     \* the barrier of this tick has run
  made,        \* per core, how many accesses it has completed
  pending,     \* per core, the access that was held back, or <<>>
  halted       \* the cores stopped by an access that faults

\* History: per session, the bits submitted since its last reset command, and
\* the windows returned and consumed since its last reset took effect.
VARIABLES stream, returned, taken

cpuVars     == <<made, pending, halted>>
historyVars == <<stream, returned, taken>>
vars == <<transport, registers, now, epoch, served, settled, cpuVars, historyVars>>

Cores   == 1..CoreCount
Clients == Cores \X DecoderIds
OnEdge  == now % CpuPeriod = 0
Running == transport.fault = "None"
Owner(item) == <<item.core, item.decoder>>

ClearSession == [measurements |-> <<>>, result |-> <<>>, submitted |-> FALSE]

\* reset keeps only the next request identity.
ClearTransport(next) ==
  [sessions |-> [c \in Clients |-> ClearSession], requests |-> <<>>, reset_request |-> <<>>,
   jobs |-> <<>>, available |-> [d \in DecoderIds |-> 0],
   tx_available |-> 0, rx_available |-> 0, next |-> next, fault |-> "None"]

Later(a, b) == IF a > b THEN a ELSE b

\* Ticks for which a packet with so many payload bits occupies a link.
Duration(bits) ==
  Later(1, (PacketOverhead + ((bits + 7) \div 8) + BytesPerTick - 1) \div BytesPerTick)

-----------------------------------------------------------------------------
(* access: a command of a core.                                            *)

\* consume is legal when the result is complete and no window is open.
Consumable(s) == s.result # <<>> /\ ~s.submitted /\ s.measurements = <<>>

\* The two status bits of a session.
IsReady(t, c) == t.sessions[c].result # <<>>
IsBusy(t, c) ==
  \/ \E i \in 1..Len(t.reset_request) : Owner(t.reset_request[i]) = c
  \/ \E i \in 1..Len(t.requests) : Owner(t.requests[i]) = c
  \/ t.sessions[c].submitted
  \/ t.sessions[c].measurements # <<>>

\* A submission or a reset is held back while its queue is full.
HeldBack(t, command) ==
  IF command.kind = "Reset" THEN t.reset_request # <<>>
  ELSE command.kind = "Submit" /\ Len(t.requests) >= RequestCapacity

\* The packet takes the link as soon as it is free.
Transmit(t, core, command) ==
  LET bits == IF command.kind = "Submit" THEN command.bits ELSE <<>>
      sent == Later(now, t.tx_available)
      end  == sent + Duration(Len(bits))
      packet == [id |-> t.next, core |-> core, decoder |-> command.decoder, bits |-> bits,
                 sent |-> sent, arrival |-> end + LinkLatency, transmitted |-> FALSE]
  IN  [t EXCEPT !.requests = IF command.kind = "Submit" THEN Append(@, packet) ELSE @,
                !.reset_request = IF command.kind = "Reset" THEN <<packet>> ELSE @,
                !.next = @ + 1,
                !.tx_available = end]

\* A command that the transport refuses: it ends the program of the core.
CommandFaults(t, core, command) ==
  \/ command.kind = "Fault"
  \/ command.kind = "Consume" /\ ~Consumable(t.sessions[<<core, command.decoder>>])
  \/ /\ command.kind = "Read" /\ command.register \in {"ResultLow", "ResultHigh"}
     /\ ~IsReady(t, <<core, command.decoder>>)

Execute(t, core, command) ==
  CASE command.kind = "Consume" -> [t EXCEPT !.sessions[<<core, command.decoder>>] = ClearSession]
    [] command.kind \in {"Submit", "Reset"} -> Transmit(t, core, command)
    [] OTHER -> t

-----------------------------------------------------------------------------
(* step: the transport's work at a barrier.                                *)

\* Mutation of Cancelled: what the session has sent since is cancelled too.
Cancelled_LaterToo(item, p) == Owner(item) = Owner(p)

\* A reset cancels what its session sent before it.
Cancelled(item, p) == Owner(item) = Owner(p) /\ item.id < p.id

ResetArrives(t, tick) == t.reset_request # <<>> /\ t.reset_request[1].arrival <= tick

AdvanceTransmission(t, tick) ==
  LET sent(p) == [p EXCEPT !.transmitted = @ \/ p.sent <= tick]
      all     == [t EXCEPT !.requests = [i \in 1..Len(@) |-> sent(@[i])],
                           !.reset_request = [i \in 1..Len(@) |-> sent(@[i])]]
      p       == t.reset_request[1]
      kept(s) == At(s, {i \in 1..Len(s) : ~Cancelled(s[i], p)})
  IN  IF ~ResetArrives(t, tick) THEN all
      ELSE [all EXCEPT !.reset_request = <<>>,
                       !.requests = kept(@),
                       !.jobs = kept(@),
                       !.sessions[Owner(p)] = ClearSession]

Returned(job, tick) == job.arrival # <<>> /\ job.arrival[1] <= tick

\* A returned result is added, bit by bit modulo two, to what is unread.
Added(unread, results) ==
  LET sum[n \in 0..Len(results)] ==
        IF n = 0 THEN unread ELSE SymDiff(sum[n - 1], results[n].result)
  IN  sum[Len(results)]

SessionAfter(session, results) ==
  IF results = <<>> THEN session
  ELSE [session EXCEPT !.submitted = FALSE,
          !.result = <<Added(IF @ = <<>> THEN {} ELSE @[1], results)>>]

AdvanceJobs(t, tick) ==
  LET progress(j) == [j EXCEPT !.started = @ \/ j.start <= tick,
                               !.completed = @ \/ j.completion <= tick]
      jobs        == [i \in 1..Len(t.jobs) |-> progress(t.jobs[i])]
      results(c)  == At(jobs, {i \in 1..Len(jobs) : Returned(jobs[i], tick) /\ Owner(jobs[i]) = c})
  IN  [t EXCEPT !.jobs = At(jobs, {i \in 1..Len(jobs) : ~Returned(jobs[i], tick)}),
                !.sessions = [c \in Clients |-> SessionAfter(@[c], results(c))]]

\* Mutations of Reserved: running jobs, or open windows, are miscounted.
Reserved_OnlyResults(t) == Cardinality({c \in Clients : t.sessions[c].result # <<>>})
Reserved_OpenWindows(t) ==
  Cardinality({c \in Clients : t.sessions[c] # ClearSession})

\* The sessions that hold a result slot.
Reserved(t) ==
  Cardinality({c \in Clients : t.sessions[c].result # <<>> \/ t.sessions[c].submitted})

\* The request at the head of the queue, if it has arrived and can proceed.
Admissible(t, tick) ==
  /\ t.fault = "None"
  /\ t.requests # <<>>
  /\ LET p == t.requests[1]
         s == t.sessions[Owner(p)]
         completes == Len(s.measurements) + Len(p.bits) = DecoderConfig[p.decoder].measurements
     IN  /\ p.arrival <= tick
         /\ ~s.submitted
         /\ ~(completes /\ s.result = <<>> /\ Reserved(t) >= ResultCapacity)

\* One turn of admit_requests: its bits join the window; a full window is decoded.
AdmitOne(t, tick) ==
  LET p      == t.requests[1]
      c      == Owner(p)
      config == DecoderConfig[p.decoder]
      window == t.sessions[c].measurements \o p.bits
      start  == Later(tick + 1, t.available[p.decoder])
      job    == [id |-> p.id, core |-> p.core, decoder |-> p.decoder, start |-> start,
                 completion |-> start + config.latency, result |-> Decode(window),
                 arrival |-> <<>>, started |-> FALSE, completed |-> FALSE]
  IN  IF Len(window) > config.measurements THEN [t EXCEPT !.fault = "WindowOverflow"]
      ELSE IF Len(window) < config.measurements
        THEN [t EXCEPT !.requests = Tail(@), !.sessions[c].measurements = window]
      ELSE [t EXCEPT !.requests = Tail(@),
                     !.sessions[c].measurements = <<>>,
                     !.sessions[c].submitted = TRUE,
                     !.jobs = Append(@, job),
                     !.available[p.decoder] = start + config.initiation_interval]

\* The loop takes at most every queued request, in order.
AdmitRequests(t, tick) ==
  LET after[n \in 0..Len(t.requests)] ==
        IF n = 0 THEN t
        ELSE IF Admissible(after[n - 1], tick) THEN AdmitOne(after[n - 1], tick)
        ELSE after[n - 1]
  IN  after[Len(t.requests)]

\* The next result for a free response link: the earliest completed job.
Unsent(t) == {i \in 1..Len(t.jobs) : t.jobs[i].completed /\ t.jobs[i].arrival = <<>>}
Earlier(j, k) == \/ j.completion < k.completion
                 \/ j.completion = k.completion /\ j.id < k.id

TransmitResult(t, tick) ==
  IF t.rx_available > tick \/ Unsent(t) = {} THEN t
  ELSE LET first == CHOOSE i \in Unsent(t) :
                      \A k \in Unsent(t) \ {i} : Earlier(t.jobs[i], t.jobs[k])
           end   == tick + Duration(DecoderConfig[t.jobs[first].decoder].outputs)
       IN  [t EXCEPT !.jobs[first].arrival = <<end + LinkLatency>>, !.rx_available = end]

StepTransport(t, tick) ==
  TransmitResult(AdmitRequests(AdvanceJobs(AdvanceTransmission(t, tick), tick), tick), tick)

\* Mutation of Boundaries: a result that waits for the link is forgotten.
Boundaries_NoResponse(t) ==
  UNION {{t.requests[i].sent, t.requests[i].arrival} : i \in 1..Len(t.requests)}
    \cup UNION {{t.reset_request[i].sent, t.reset_request[i].arrival} :
                  i \in 1..Len(t.reset_request)}
    \cup UNION {{t.jobs[i].start, t.jobs[i].completion} \cup Range(t.jobs[i].arrival) :
                  i \in 1..Len(t.jobs)}

\* next_boundary: the ticks at which the transport has something to do by itself.
Boundaries(t) ==
  LET ticks(p) == {p.arrival} \cup IF p.transmitted THEN {} ELSE {p.sent}
      work(j)  == {j.start, j.completion}
                    \cup IF j.arrival # <<>> THEN {j.arrival[1]}
                         ELSE IF j.completed THEN {t.rx_available} ELSE {}
  IN  UNION ({ticks(t.requests[i]) : i \in 1..Len(t.requests)}
               \cup {ticks(t.reset_request[i]) : i \in 1..Len(t.reset_request)}
               \cup {work(t.jobs[i]) : i \in 1..Len(t.jobs)})

Due(t) == {tick \in Boundaries(t) : tick > now}

-----------------------------------------------------------------------------
(* The cores and the barrier.                                              *)

\* The accesses that a core may make at its memory edge.
Offered(core) ==
  IF pending[core] # <<>> THEN {pending[core][1]}
  ELSE IF core \in halted \/ now > LastAccess \/ made[core] = Len(Menu[core]) THEN {}
  ELSE Menu[core][made[core] + 1]

\* The effect of an accepted command on the history.
Record(core, command) ==
  LET c == <<core, command.decoder>>
  IN  CASE command.kind = "Submit" -> /\ stream' = [stream EXCEPT ![c] = @ \o command.bits]
                                      /\ UNCHANGED <<returned, taken>>
        [] command.kind = "Reset" -> /\ stream' = [stream EXCEPT ![c] = <<>>]
                                     /\ UNCHANGED <<returned, taken>>
        [] command.kind = "Consume" -> /\ taken' = [taken EXCEPT ![c] = returned[c]]
                                       /\ UNCHANGED <<stream, returned>>
        [] OTHER -> UNCHANGED historyVars

\* The memory serves an access of the core: it is held back, refused or executed.
Access(core) ==
  \E request \in Offered(core) : \E access \in {MmioAccess(registers[core], request)} :
    LET command == access.command
    IN  \/ /\ CommandFaults(transport, core, command)
           /\ halted' = halted \cup {core}
           /\ UNCHANGED <<transport, registers, made, pending, historyVars>>
        \/ /\ ~CommandFaults(transport, core, command)
           /\ HeldBack(transport, command)
           /\ pending' = [pending EXCEPT ![core] = <<request>>]
           /\ UNCHANGED <<transport, registers, made, halted, historyVars>>
        \/ /\ ~CommandFaults(transport, core, command)
           /\ ~HeldBack(transport, command)
           /\ registers' = [registers EXCEPT ![core] = access.registers]
           /\ transport' = Execute(transport, core, command)
           /\ made' = [made EXCEPT ![core] = @ + 1]
           /\ pending' = [pending EXCEPT ![core] = <<>>]
           /\ Record(core, command)
           /\ UNCHANGED halted

\* The memory edge of the next core: an access, or none.
MemoryEdge ==
  /\ Running
  /\ OnEdge
  /\ served < CoreCount
  /\ served' = served + 1
  /\ \/ Access(served + 1)
     \/ /\ pending[served + 1] = <<>>
        /\ UNCHANGED <<transport, registers, cpuVars, historyVars>>
  /\ UNCHANGED <<now, epoch, settled>>

\* After the memory edges of the tick the transport advances.
Barrier ==
  /\ Running
  /\ ~settled
  /\ OnEdge => served = CoreCount
  /\ transport' = StepTransport(transport, now)
  /\ settled' = TRUE
  /\ LET swept(c) == ResetArrives(transport, now) /\ Owner(transport.reset_request[1]) = c
         kept     == AdvanceTransmission(transport, now).jobs
         back(c)  == Cardinality({i \in 1..Len(kept) : Returned(kept[i], now) /\ Owner(kept[i]) = c})
     IN  /\ returned' = [c \in Clients |-> IF swept(c) THEN 0 ELSE returned[c] + back(c)]
         /\ taken' = [c \in Clients |-> IF swept(c) THEN 0 ELSE taken[c]]
  /\ UNCHANGED <<registers, now, epoch, served, cpuVars, stream>>

NextEdge == ((now \div CpuPeriod) + 1) * CpuPeriod
NextTick == Min({NextEdge} \cup Due(transport))

\* No program goes on, and nothing more happens by itself.
Over ==
  /\ now > LastAccess
  /\ Due(transport) = {}
  /\ \A core \in Cores :
       pending[core] # <<>> =>
         HeldBack(transport, MmioAccess(registers[core], pending[core][1]).command)

\* The next memory edge, the next boundary of the transport, or a reset before.
AdvanceTick ==
  /\ Running
  /\ settled
  /\ ~Over
  /\ now' \in IF epoch < MaxEpoch THEN (now + 1)..NextTick ELSE {NextTick}
  /\ served' = 0
  /\ settled' = FALSE
  /\ UNCHANGED <<transport, registers, epoch, cpuVars, historyVars>>

\* reset_at: before the edges of a tick, whose transport step is skipped.
ResetSession ==
  /\ Running
  /\ now > 0
  /\ served = 0 /\ ~settled
  /\ epoch < MaxEpoch
  /\ epoch' = epoch + 1
  /\ transport' = ClearTransport(transport.next)
  /\ registers' = [core \in Cores |-> ClearMmio]
  /\ served' = CoreCount
  /\ settled' = TRUE
  /\ made' = [core \in Cores |-> 0]
  /\ pending' = [core \in Cores |-> <<>>]
  /\ halted' = {}
  /\ stream' = [c \in Clients |-> <<>>]
  /\ returned' = [c \in Clients |-> 0]
  /\ taken' = [c \in Clients |-> 0]
  /\ UNCHANGED now

Stopped == (~Running \/ (settled /\ Over)) /\ UNCHANGED vars

Init ==
  /\ transport = ClearTransport(1)
  /\ registers = [core \in Cores |-> ClearMmio]
  /\ now = 0
  /\ epoch = 1
  /\ served = 0
  /\ settled = FALSE
  /\ made = [core \in Cores |-> 0]
  /\ pending = [core \in Cores |-> <<>>]
  /\ halted = {}
  /\ stream = [c \in Clients |-> <<>>]
  /\ returned = [c \in Clients |-> 0]
  /\ taken = [c \in Clients |-> 0]

Next == MemoryEdge \/ Barrier \/ AdvanceTick \/ ResetSession \/ Stopped

Spec == Init /\ [][Next]_vars

-----------------------------------------------------------------------------
(* Properties.                                                             *)

Window(c, k) ==
  LET n == DecoderConfig[c[2]].measurements IN SubSeq(stream[c], (k - 1) * n + 1, k * n)

\* The corrections of the windows from..to of a session, added modulo two.
Corrections(c, from, to) ==
  LET sum[k \in 0..(to - from + 1)] ==
        IF k = 0 THEN {} ELSE SymDiff(sum[k - 1], Decode(Window(c, from + k - 1)))
  IN  sum[to - from + 1]

\* When a core sees that its session is not busy, every window it has submitted
\* since its last reset has come back, and what it reads is the sum of exactly
\* those it has not consumed: no packet of another session, none from before the
\* reset, none twice, whatever shared the links and the decoder.
CorrectionsAreOwnWork ==
  \A c \in Clients :
    Running /\ ~IsBusy(transport, c) =>
      /\ Len(stream[c]) = returned[c] * DecoderConfig[c[2]].measurements
      /\ IsReady(transport, c) <=> returned[c] > taken[c]
      /\ IsReady(transport, c) =>
           transport.sessions[c].result[1] = Corrections(c, taken[c] + 1, returned[c])

\* The event-driven simulation equals one that steps on every tick: at the ticks
\* that next_boundary skips the transport would have done nothing, and so would a
\* second barrier at the tick of the first.
SkippedTicksAreIdle ==
  Running /\ settled =>
    \A tick \in now..(NextTick - 1) : StepTransport(transport, tick) = transport

\* Result slots are never overbooked, and a session waits for a result exactly
\* while one job of its own is under way, across cancellations and resets.
ResultSlotsMatchJobs ==
  /\ Reserved(transport) <= ResultCapacity
  /\ \A c \in Clients :
       Cardinality({i \in 1..Len(transport.jobs) : Owner(transport.jobs[i]) = c})
         = IF transport.sessions[c].submitted THEN 1 ELSE 0

\* When requests wait and nothing is under way, every result slot holds an unread
\* result: the queue never stands still for any other reason.
StallNeedsConsumer ==
  Running /\ settled /\ Due(transport) = {} /\ transport.requests # <<>> =>
    Cardinality({c \in Clients : IsReady(transport, c)}) >= ResultCapacity
=============================================================================
