------------------------------- MODULE Kernel -------------------------------
(***************************************************************************)
(* The simulation kernel with several cores: class Simulator of            *)
(* simulator.cpp on the SystemC scheduler.                                 *)
(*                                                                         *)
(* The five methods run in evaluation phases, in any order within a phase. *)
(* A rising clock edge reaches its methods one delta cycle after the tick  *)
(* begins, a timed wake-up at once, and a barrier one delta cycle after it *)
(* is notified.  What the cores do at their edges is an environment: they  *)
(* give work for later ticks to the device and to the decoders, and drain. *)
(***************************************************************************)
EXTENDS Clock, FiniteSets, FiniteSetsExt

CONSTANTS
  Cores,
  CpuClock,   \* the CPU clock of each core
  TcuClock,   \* the TCU clock of all cores
  Resets,     \* resets_
  Watchdog,   \* profile_.watchdog
  MaxDelay,   \* bound on the ticks that work lies ahead
  MaxWork     \* bound on the pieces of work

ASSUME KernelAssumption ==
  /\ Cores # {}
  /\ \A c \in Cores : ValidClock(CpuClock[c])
  /\ ValidClock(TcuClock)
  /\ Watchdog \in Nat \ {0}
  /\ Resets \subseteq 1..(Watchdog - 1)
  /\ MaxDelay \in Nat /\ MaxWork \in Nat

VARIABLES
  now, epoch,
  done,        \* cpu_done_, memory_done_, tcu_done_
  last_reset,
  fault,       \* the fault that stopped the run, or "None"
  success

VARIABLES
  boundaries,  \* the ticks at which the device has work
  transfers,   \* the ticks at which the decoders have work
  processed,   \* processed_tick_ of the device
  busy         \* the cores that have not drained

VARIABLES
  runnable,    \* the processes of this evaluation phase
  notified,    \* the processes of the next delta cycle
  wake         \* the tick of the pending wake-up, or None

\* History: the pieces of work given, the last tick at which a core ran, the
\* last tick at which the barrier did its work.
VARIABLES given, core_ran, barrier_ran

simVars   == <<epoch, done, last_reset, fault, success>>
workVars  == <<boundaries, transfers, processed, busy>>
schedVars == <<runnable, notified, wake>>
vars == <<now, simVars, workVars, schedVars, given, core_ran, barrier_ran>>

None == -1
ClockedMethods == {"cpu_edge", "memory_edge", "tcu_edge"}
CoresAt(tick) == {c \in Cores : IsEdge(CpuClock[c], tick)}

\* The clocked methods of a tick.
DueMethods(tick) ==
  (IF CoresAt(tick) # {} THEN {"cpu_edge", "memory_edge"} ELSE {})
    \cup (IF IsEdge(TcuClock, tick) THEN {"tcu_edge"} ELSE {})

Running == fault = "None" /\ ~success

-----------------------------------------------------------------------------
(* The scheduler.                                                          *)

\* A method leaves the phase and notifies the barrier for the next one.
RunAndNotify(method) ==
  /\ Running
  /\ method \in runnable
  /\ runnable' = runnable \ {method}
  /\ notified' = notified \cup {"barrier"}
  /\ UNCHANGED <<now, wake>>

\* The clocks rise: the methods that are sensitive to them run next.
ClocksRise ==
  /\ Running
  /\ "clocks" \in runnable
  /\ runnable' = runnable \ {"clocks"}
  /\ notified' = notified \cup DueMethods(now)
  /\ UNCHANGED <<now, wake, simVars, workVars, given, core_ran, barrier_ran>>

DeltaCycle ==
  /\ Running
  /\ runnable = {} /\ notified # {}
  /\ runnable' = notified
  /\ notified' = {}
  /\ UNCHANGED <<now, wake, simVars, workVars, given, core_ran, barrier_ran>>

Woken(tick) ==
  (IF DueMethods(tick) # {} THEN {"clocks"} ELSE {})
    \cup (IF wake = tick THEN {"wakeup"} ELSE {})

NextEdges == {After(TcuClock, now, 1)} \cup {After(CpuClock[c], now, 1) : c \in Cores}

\* Nothing is left to run at this tick.
AdvanceTime ==
  /\ Running
  /\ runnable = {} /\ notified = {}
  /\ now' = Min(NextEdges \cup ({wake} \ {None}))
  /\ runnable' = Woken(now')
  /\ wake' = IF wake = now' THEN None ELSE wake
  /\ UNCHANGED <<notified, simVars, workVars, given, core_ran, barrier_ran>>

-----------------------------------------------------------------------------
(* The methods.                                                            *)

\* Mutation of PerformsReset: every process that notices a reset performs it.
PerformsReset_Again == now \in Resets

PerformsReset == now \in Resets /\ last_reset # now

\* reset_at: the first process of the tick resets, the others only notice.
ResetAt ==
  /\ now \in Resets
  /\ epoch' = IF PerformsReset THEN epoch + 1 ELSE epoch
  /\ last_reset' = now
  /\ boundaries' = IF PerformsReset THEN {} ELSE boundaries
  /\ transfers' = IF PerformsReset THEN {} ELSE transfers
  /\ processed' = IF PerformsReset THEN None ELSE processed
  /\ busy' = IF PerformsReset THEN Cores ELSE busy
  /\ UNCHANGED <<given, core_ran>>

\* The end of a clocked method.
MethodDone(method) ==
  /\ RunAndNotify(method)
  /\ done' = [done EXCEPT ![method] = now]
  /\ UNCHANGED <<fault, success, barrier_ran>>

\* Work for a later tick, or none.
Ahead(first) == {{}} \cup IF given < MaxWork THEN {{t} : t \in first..(now + MaxDelay)} ELSE {}

CpuEdge ==
  /\ MethodDone("cpu_edge")
  /\ \/ ResetAt
     \/ /\ now \notin Resets
        /\ core_ran' = now
        /\ \E drained \in SUBSET (busy \cap CoresAt(now)) : busy' = busy \ drained
        /\ UNCHANGED <<epoch, last_reset, boundaries, transfers, processed, given>>

\* A core may send to the decoders: the earliest transfer ends at the next tick.
MemoryEdge ==
  /\ MethodDone("memory_edge")
  /\ \/ ResetAt
     \/ /\ now \notin Resets
        /\ core_ran' = now
        /\ \E new \in IF busy \cap CoresAt(now) = {} THEN {{}} ELSE Ahead(now + 1) :
             /\ transfers' = transfers \cup new
             /\ given' = given + Cardinality(new)
        /\ UNCHANGED <<epoch, last_reset, boundaries, processed, busy>>

\* A launch may start at this very tick.
TcuEdge ==
  /\ MethodDone("tcu_edge")
  /\ \/ ResetAt
     \/ /\ now \notin Resets
        /\ core_ran' = now
        /\ \E new \in IF busy = {} THEN {{}} ELSE Ahead(now) :
             /\ boundaries' = boundaries \cup new
             /\ given' = given + Cardinality(new)
        /\ UNCHANGED <<epoch, last_reset, transfers, processed, busy>>

Wakeup ==
  /\ RunAndNotify("wakeup")
  /\ ResetAt \/ (now \notin Resets /\ UNCHANGED <<epoch, last_reset, workVars, given, core_ran>>)
  /\ UNCHANGED <<done, fault, success, barrier_ran>>

-----------------------------------------------------------------------------
(* The barrier.                                                            *)

\* Mutation of EdgesRan: the memory is not waited for.
EdgesRan_NoMemory == \A m \in DueMethods(now) \ {"memory_edge"} : done[m] = now

EdgesRan == \A m \in DueMethods(now) : done[m] = now

\* Mutation of NextWake: the decoders' transfers are left out.
NextWake_DeviceOnly == Min({Watchdog} \cup boundaries' \cup {r \in Resets : r > now})

\* schedule_wakeup: the earliest event, reset or deadline.
NextWake == Min({Watchdog} \cup boundaries' \cup transfers' \cup {r \in Resets : r > now})

\* A barrier before the last edge of its tick: another one will follow.
BarrierTooEarly ==
  /\ Running
  /\ "barrier" \in runnable
  /\ ~EdgesRan
  /\ runnable' = runnable \ {"barrier"}
  /\ UNCHANGED <<now, notified, wake, simVars, workVars, given, core_ran, barrier_ran>>

\* The decoders' step and then a reset or the device's boundary.
BarrierWork ==
  \/ ResetAt
  \/ /\ now \notin Resets
     /\ transfers' = {t \in transfers : t > now}
     /\ boundaries' = boundaries \ {now}
     /\ processed' = IF now \in boundaries THEN now ELSE processed
     /\ UNCHANGED <<epoch, last_reset, busy, given, core_ran>>

\* The device processes a boundary twice, or not at all.
Replayed == now \notin Resets /\ now \in boundaries /\ processed = now

Completed == boundaries' = {} /\ transfers' = {} /\ busy' = {}

Barrier ==
  /\ Running
  /\ "barrier" \in runnable
  /\ EdgesRan
  /\ runnable' = runnable \ {"barrier"}
  /\ BarrierWork
  /\ barrier_ran' = now
  /\ success' = (~Replayed /\ Completed)
  /\ fault' = IF Replayed THEN "BoundaryReplay"
              ELSE IF Completed THEN "None"
              ELSE IF now >= Watchdog THEN "Watchdog"
              ELSE IF NextWake <= now THEN "UnprocessedEvent"
              ELSE "None"
  /\ wake' = IF fault' = "None" /\ ~success' THEN NextWake ELSE wake
  /\ UNCHANGED <<now, notified, done>>

Stopped == ~Running /\ UNCHANGED vars

Init ==
  /\ now = 0
  /\ epoch = 1
  /\ done = [m \in ClockedMethods |-> None]
  /\ last_reset = None
  /\ fault = "None"
  /\ success = FALSE
  /\ boundaries = {} /\ transfers = {}
  /\ processed = None
  /\ busy = Cores
  /\ runnable = IF DueMethods(0) # {} THEN {"clocks"} ELSE {}
  /\ notified = {}
  /\ wake = Min({Watchdog} \cup Resets)
  /\ given = 0
  /\ core_ran = None
  /\ barrier_ran = None

Next ==
  \/ ClocksRise \/ DeltaCycle \/ AdvanceTime
  \/ CpuEdge \/ MemoryEdge \/ TcuEdge \/ Wakeup
  \/ BarrierTooEarly \/ Barrier
  \/ Stopped

Spec == Init /\ [][Next]_vars

-----------------------------------------------------------------------------
(* Properties.                                                             *)

\* Every piece of work is processed in its own tick, between clock edges too: no
\* tick with work is passed over, none is processed twice, and the run ends at
\* the latest with the watchdog.
WorkInItsTick ==
  /\ \A t \in boundaries \cup transfers : t >= now
  /\ now <= Watchdog
  /\ fault \in {"None", "Watchdog"}

\* Once the barrier has worked at a tick, no core runs any more at that tick, so
\* that the device sees the launches of all cores together, in whatever order
\* the processes ran and however often the barrier was notified.
BarrierEndsTick == [][barrier_ran = now => UNCHANGED <<done, core_ran>>]_vars

\* A reset is performed once, by the process that runs first, and no core runs
\* at its tick: neither before it, in the old epoch, nor after it.
ResetsOnceAndAlone ==
  /\ core_ran \notin Resets
  /\ epoch <= 1 + Cardinality({r \in Resets : r <= now})
  /\ runnable = {} /\ notified = {} => epoch = 1 + Cardinality({r \in Resets : r <= now})
=============================================================================
