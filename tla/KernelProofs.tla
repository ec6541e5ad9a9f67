---------------------------- MODULE KernelProofs ----------------------------
(***************************************************************************)
(* Proofs about the simulation kernel on the SystemC scheduler, for every  *)
(* number of cores, all clocks, any set of resets and any work.            *)
(***************************************************************************)
EXTENDS Kernel, FiniteSetTheorems, WellFoundedInduction, TLAPS

-----------------------------------------------------------------------------
(* The inductive invariant.                                                *)

Processes == ClockedMethods \cup {"clocks", "wakeup", "barrier"}
Active    == runnable \cup notified

TypeOK ==
  /\ now \in Nat /\ epoch \in Nat
  /\ done \in [ClockedMethods -> Int]
  /\ last_reset \in Int /\ processed \in Int
  /\ core_ran \in Int /\ barrier_ran \in Int
  /\ fault \in {"None", "Watchdog"} /\ success \in BOOLEAN
  /\ boundaries \subseteq Nat /\ transfers \subseteq Nat
  /\ busy \subseteq Cores
  /\ runnable \subseteq Processes /\ notified \subseteq Processes
  /\ wake \in Nat \cup {None}
  /\ given \in Nat

\* Nothing remembers a tick that has not come, and no work is late.
PastInv ==
  /\ \A m \in ClockedMethods : done[m] <= now
  /\ last_reset <= now
  /\ processed <= barrier_ran /\ None <= barrier_ran /\ barrier_ran <= now
  /\ \A t \in boundaries \cup transfers : t >= now
  /\ now <= Watchdog
  /\ wake # None => now < wake /\ wake <= Watchdog

\* Each clocked method of a tick has run, or will: it runs once.
EdgesInv ==
  /\ "clocks" \notin notified
  /\ \A m \in ClockedMethods : ~(m \in runnable /\ m \in notified)
  /\ \A m \in Active \cap ClockedMethods : done[m] # now /\ m \in DueMethods(now)
  /\ "clocks" \in runnable =>
       /\ \A m \in ClockedMethods : done[m] # now /\ m \notin Active
       /\ DueMethods(now) # {}
  /\ \A m \in DueMethods(now) : done[m] = now \/ m \in Active \/ "clocks" \in runnable

\* A wake-up is scheduled before everything that is left to do.
Scheduled ==
  /\ wake # None
  /\ \A t \in boundaries \cup transfers : wake <= t
  /\ \A r \in Resets : r > now => wake <= r

ResetDone == now \in Resets => last_reset = now

\* The tick is over, or some process will run and call the barrier.
TickInv ==
  /\ Active = {} => ResetDone
  /\ Running /\ Active = {} => Scheduled
  /\ barrier_ran = now => /\ EdgesRan /\ ResetDone
                          /\ Running => Scheduled
  /\ last_reset = now => boundaries = {} /\ transfers = {}

\* The resets performed so far.
Performed == {r \in Resets : r < now \/ (r = now /\ last_reset = now)}

ResetInv ==
  /\ core_ran \notin Resets
  /\ last_reset # None => last_reset \in Resets
  /\ epoch = 1 + Cardinality(Performed)

KernelInv == TypeOK /\ PastInv /\ EdgesInv /\ TickInv /\ ResetInv

-----------------------------------------------------------------------------
(* Lemmas about the operators of the model.                                *)

\* The wake-up and the next tick are minima: a nonempty set of ticks has one.
LEMMA MinOfTicks ==
  ASSUME NEW T \in SUBSET Nat, T # {}
  PROVE  Min(T) \in T /\ \A t \in T : Min(T) <= t
<1>1. PICK x \in T : \A y \in T : ~(<<y, x>> \in OpToRel(<, Nat))
  BY NatLessThanWellFounded, WFMin
<1>2. \A y \in T : ~(y < x)
  BY <1>1, Zenon DEF OpToRel
<1>3. \A y \in T : x <= y
  BY <1>2
<1> QED
  BY <1>3 DEF Min

\* Clock::after: the next edge lies ahead.
LEMMA AfterIsAhead ==
  ASSUME NEW clock, ValidClock(clock), NEW n \in Nat
  PROVE  After(clock, n, 1) \in Nat /\ After(clock, n, 1) > n
<1> DEFINE p == clock.period
           d == n - clock.phase
           q == d \div p
<1>1. p \in Nat \ {0} /\ clock.phase \in Nat
  BY DEF ValidClock
<1>2. CASE n < clock.phase
  BY <1>1, <1>2 DEF After
<1>3. CASE n >= clock.phase
  <2>1. d \in Nat
    BY <1>1, <1>3
  <2>2. q \in Nat /\ (q + 1) * p > d
    <3> HIDE DEF d, p
    <3> QED
      BY <1>1, <2>1
  <2>3. After(clock, n, 1) = clock.phase + (q + 1) * p
    <3>1. After(clock, n, 1) = clock.phase + (q + 1) * p + (1 - 1) * p
      BY <1>1, <1>3 DEF After
    <3>2. (q + 1) * p \in Nat
      BY <1>1, <2>2
    <3> HIDE DEF q, p
    <3> QED
      BY <1>1, <3>1, <3>2
  <2> HIDE DEF q
  <2> QED
    BY <1>1, <1>3, <2>2, <2>3
<1> QED
  BY <1>1, <1>2, <1>3

\* Only clocked methods are due at an edge.
LEMMA DueType == ASSUME NEW tick PROVE DueMethods(tick) \subseteq ClockedMethods
BY DEF DueMethods, ClockedMethods

\* What the constants are, for the provers.
LEMMA Constants ==
  /\ Watchdog \in Nat /\ Watchdog > 0
  /\ \A r \in Resets : r \in Nat /\ r > 0 /\ r < Watchdog
  /\ MaxDelay \in Nat
BY KernelAssumption

\* The resets performed by a tick are finitely many.
LEMMA ResetsFinite == IsFiniteSet(Resets)
<1>1. IsFiniteSet(1..(Watchdog - 1))
  BY Constants, FS_Interval
<1> QED
  BY <1>1, FS_Subset, KernelAssumption

\* What reset_at does to the invariant's parts.
LEMMA ResetAtEffect ==
  ASSUME KernelInv, ResetAt, now' = now
  PROVE  /\ last_reset' = now /\ boundaries' = {} /\ transfers' = {}
         /\ processed' \in Int /\ processed' <= barrier_ran
         /\ busy' \subseteq Cores /\ epoch' \in Nat
         /\ given' = given /\ core_ran' = core_ran
         /\ ResetInv'
<1> USE DEF KernelInv, ResetAt, PerformsReset
<1>1. now \in Resets /\ last_reset' = now /\ given' = given /\ core_ran' = core_ran
  OBVIOUS
<1>2. boundaries' = {} /\ transfers' = {}
  BY DEF TickInv
<1>3. processed' \in Int /\ processed' <= barrier_ran
  BY DEF TypeOK, PastInv, None
<1>4. busy' \subseteq Cores /\ epoch' \in Nat
  BY DEF TypeOK
<1>5. epoch' = 1 + Cardinality(Performed')
  <2>1. IsFiniteSet(Performed)
    BY ResetsFinite, FS_Subset DEF Performed
  <2>2. CASE last_reset = now
    <3>1. Performed' = Performed
      BY <2>2, <1>1 DEF Performed
    <3> QED
      BY <2>2, <3>1 DEF ResetInv
  <2>3. CASE last_reset # now
    <3>1. Performed' = Performed \cup {now} /\ now \notin Performed
      BY <2>3, <1>1, Constants DEF Performed, TypeOK
    <3>2. Cardinality(Performed') = Cardinality(Performed) + 1
      BY <3>1, <2>1, FS_AddElement
    <3>3. Cardinality(Performed) \in Nat
      BY <2>1, FS_CardinalityType
    <3> QED
      BY <2>3, <3>2, <3>3, <1>1 DEF ResetInv
  <2> QED
    BY <2>2, <2>3
<1> QED
  BY <1>1, <1>2, <1>3, <1>4, <1>5 DEF ResetInv

-----------------------------------------------------------------------------
(* The invariant holds initially and every action preserves it.            *)

\* The first tick: the clocks are about to rise or nothing runs.
LEMMA InitKernelInv == Init => KernelInv
<1> SUFFICES ASSUME Init PROVE KernelInv
  OBVIOUS
<1> USE Constants DEF Init, None
<1> DEFINE T == {Watchdog} \cup Resets
<1>1. wake \in T /\ \A t \in T : wake <= t
  BY MinOfTicks, T \in SUBSET Nat, T # {}
<1>2. wake \in Nat /\ wake > 0 /\ wake <= Watchdog
  BY <1>1
<1>3. TypeOK
  <2>1. done \in [ClockedMethods -> Int]
    OBVIOUS
  <2>2. runnable \subseteq Processes /\ notified \subseteq Processes
    BY DEF Processes
  <2>3. now \in Nat /\ epoch \in Nat /\ given \in Nat /\ wake \in Nat \cup {None}
    BY <1>2
  <2>4. boundaries \subseteq Nat /\ transfers \subseteq Nat /\ busy \subseteq Cores
    OBVIOUS
  <2>5. last_reset \in Int /\ processed \in Int /\ core_ran \in Int /\ barrier_ran \in Int
    OBVIOUS
  <2>6. fault \in {"None", "Watchdog"} /\ success \in BOOLEAN
    OBVIOUS
  <2> QED
    BY <2>1, <2>2, <2>3, <2>4, <2>5, <2>6, Zenon DEF TypeOK
<1>4. PastInv
  BY <1>2 DEF PastInv, ClockedMethods
<1>5. EdgesInv
  <2>1. Active \cap ClockedMethods = {} /\ "clocks" \notin notified
    BY DEF Active, ClockedMethods
  <2>2. \A m \in ClockedMethods : done[m] # now
    OBVIOUS
  <2>3. "clocks" \in runnable <=> DueMethods(now) # {}
    OBVIOUS
  <2> QED
    BY <2>1, <2>2, <2>3 DEF EdgesInv
<1>6. TickInv
  BY <1>1, <1>2 DEF TickInv, ResetDone, Scheduled
<1>7. ResetInv
  <2>1. Performed = {}
    BY DEF Performed
  <2>2. Cardinality(Performed) = 0
    BY <2>1, FS_EmptySet
  <2> QED
    BY <2>2 DEF ResetInv
<1> QED
  BY <1>3, <1>4, <1>5, <1>6, <1>7 DEF KernelInv

\* The clocks rise once in a tick, and only with a method to run.
LEMMA ClocksRiseInv == KernelInv /\ ClocksRise => KernelInv'
<1> SUFFICES ASSUME KernelInv, ClocksRise PROVE KernelInv'
  OBVIOUS
<1> USE DEF KernelInv, ClocksRise, simVars, workVars
<1>1. DueMethods(now) \subseteq ClockedMethods /\ DueMethods(now') = DueMethods(now)
  BY DueType
<1>2. "clocks" \notin ClockedMethods
  BY DEF ClockedMethods
<1>3. TypeOK'
  BY <1>1 DEF TypeOK, Processes
<1>4. PastInv'
  BY DEF PastInv
<1>5. EdgesInv'
  BY <1>1, <1>2 DEF EdgesInv, Active
<1>6. TickInv'
  <2>1. Active' # {}
    BY DEF EdgesInv, Active
  <2> QED
    BY <2>1 DEF TickInv, ResetDone, Scheduled, EdgesRan, Running
<1>7. ResetInv'
  BY DEF ResetInv, Performed
<1> QED
  BY <1>3, <1>4, <1>5, <1>6, <1>7

\* A delta cycle only turns the notified processes into runnable ones.
LEMMA DeltaCycleInv == KernelInv /\ DeltaCycle => KernelInv'
<1> SUFFICES ASSUME KernelInv, DeltaCycle PROVE KernelInv'
  OBVIOUS
<1> USE DEF KernelInv, DeltaCycle, simVars, workVars
<1>1. Active' = Active /\ DueMethods(now') = DueMethods(now)
  BY DEF Active
<1>2. TypeOK'
  BY DEF TypeOK
<1>3. PastInv'
  BY DEF PastInv
<1>4. EdgesInv'
  BY <1>1 DEF EdgesInv
<1>5. TickInv'
  BY <1>1 DEF TickInv, ResetDone, Scheduled, EdgesRan, Running
<1>6. ResetInv'
  BY DEF ResetInv, Performed
<1> QED
  BY <1>2, <1>3, <1>4, <1>5, <1>6

\* Time advances at most to the wake-up, which lies before all that is left.
LEMMA AdvanceTimeInv == KernelInv /\ AdvanceTime => KernelInv'
<1> SUFFICES ASSUME KernelInv, AdvanceTime PROVE KernelInv'
  OBVIOUS
<1> USE DEF KernelInv, AdvanceTime, simVars, workVars, None
<1> DEFINE T == NextEdges \cup ({wake} \ {None})
<1>1. Active = {} /\ ResetDone /\ Scheduled
  BY DEF TickInv, Active
<1>2. wake \in Nat /\ now < wake /\ wake <= Watchdog /\ now \in Nat
  BY <1>1 DEF TypeOK, PastInv, Scheduled
<1>3. \A t \in T : t \in Nat /\ t > now
  <2>1. \A t \in NextEdges : t \in Nat /\ t > now
    BY <1>2, AfterIsAhead, KernelAssumption DEF NextEdges
  <2> QED
    BY <2>1, <1>2
<1>4. wake \in T
  BY <1>2
<1>5. now' \in T /\ \A t \in T : now' <= t
  BY <1>3, <1>4, MinOfTicks, T \in SUBSET Nat
<1>6. now' \in Nat /\ now < now' /\ now' <= wake
  BY <1>3, <1>4, <1>5
<1> HIDE DEF T
<1>7. wake' = IF wake = now' THEN -1 ELSE wake
  OBVIOUS
<1>8. Active' = (IF DueMethods(now') # {} THEN {"clocks"} ELSE {})
                   \cup (IF wake = now' THEN {"wakeup"} ELSE {})
  BY DEF Active, Woken
<1>9. TypeOK'
  BY <1>2, <1>6, <1>7, <1>8 DEF TypeOK, Processes, Active
<1>10. PastInv'
  <2>1. \A m \in ClockedMethods : done'[m] <= now'
    BY <1>6 DEF PastInv, TypeOK
  <2>2. last_reset' <= now' /\ barrier_ran' <= now'
    BY <1>6 DEF PastInv, TypeOK
  <2>3. \A t \in boundaries' \cup transfers' : t >= now'
    BY <1>1, <1>2, <1>6 DEF Scheduled, TypeOK
  <2>4. now' <= Watchdog /\ (wake' # None => now' < wake' /\ wake' <= Watchdog)
    BY <1>2, <1>6, <1>7, Constants
  <2> QED
    BY <2>1, <2>2, <2>3, <2>4 DEF PastInv
<1>11. EdgesInv'
  <2>1. \A m \in ClockedMethods : done'[m] # now'
    BY <1>6 DEF PastInv, TypeOK
  <2>2. DueMethods(now') \subseteq ClockedMethods
    BY DueType
  <2>3. notified' = {} /\ runnable' = Active' /\ "clocks" \notin ClockedMethods
        /\ "wakeup" \notin ClockedMethods
    BY DEF Active, ClockedMethods
  <2> QED
    BY <1>8, <2>1, <2>2, <2>3 DEF EdgesInv
<1>12. TickInv'
  <2>1. barrier_ran' # now' /\ last_reset' # now'
    BY <1>6 DEF PastInv, TypeOK
  <2>2. ASSUME Active' = {} PROVE ResetDone' /\ Scheduled'
    <3>1. wake' = wake /\ now' < wake
      BY <2>2, <1>6, <1>7, <1>8, <1>2
    <3> QED
      BY <3>1, <1>1, <1>2, <1>6, Constants DEF Scheduled, ResetDone
  <2> QED
    BY <2>1, <2>2 DEF TickInv
<1>13. ResetInv'
  <2>1. last_reset' # now'
    BY <1>6 DEF PastInv, TypeOK
  <2>2. Performed' = Performed
    BY <1>1, <1>2, <1>6, <2>1, Constants DEF Performed, Scheduled, ResetDone
  <2> QED
    BY <2>2 DEF ResetInv
<1> QED
  BY <1>9, <1>10, <1>11, <1>12, <1>13

\* A clocked method runs only in a tick whose barrier has not worked yet.
LEMMA MethodBeforeBarrier ==
  ASSUME KernelInv, NEW m \in ClockedMethods, m \in runnable
  PROVE  barrier_ran # now /\ done[m] # now /\ m \in DueMethods(now)
BY DEF KernelInv, EdgesInv, TickInv, EdgesRan, Active

\* The scheduling side of a clocked method, whatever the method does.
LEMMA MethodDoneInv ==
  ASSUME KernelInv, NEW m \in ClockedMethods, MethodDone(m)
  PROVE  /\ done' \in [ClockedMethods -> Int]
         /\ \A k \in ClockedMethods : done'[k] <= now'
         /\ runnable' \subseteq Processes /\ notified' \subseteq Processes
         /\ EdgesInv'
         /\ Active' # {}
         /\ now' = now /\ wake' = wake /\ barrier_ran' = barrier_ran /\ barrier_ran # now
         /\ fault' = fault /\ success' = success
<1> USE DEF KernelInv, MethodDone, RunAndNotify
<1>1. m \in runnable /\ now' = now
  OBVIOUS
<1>2. barrier_ran # now /\ done[m] # now /\ m \in DueMethods(now)
  BY <1>1, MethodBeforeBarrier
<1>3. done' = [done EXCEPT ![m] = now] /\ done \in [ClockedMethods -> Int]
  BY DEF TypeOK
<1>4. done' \in [ClockedMethods -> Int] /\ \A k \in ClockedMethods : done'[k] <= now'
  BY <1>3 DEF TypeOK, PastInv
<1>5. runnable' \subseteq Processes /\ notified' \subseteq Processes
  BY DEF TypeOK, Processes
<1>6. "barrier" \notin ClockedMethods /\ "clocks" \notin ClockedMethods /\ "clocks" # "barrier"
  BY DEF ClockedMethods
<1>7. m \notin notified'
  <2>1. m \notin notified
    BY <1>1, <1>2 DEF EdgesInv
  <2> QED
    BY <2>1, <1>6
<1>8. EdgesInv'
  BY <1>1, <1>2, <1>3, <1>6, <1>7 DEF EdgesInv, Active
<1>9. Active' # {}
  BY DEF Active
<1> QED
  BY <1>1, <1>2, <1>4, <1>5, <1>8, <1>9

\* A clocked method that only notices or performs a reset.
LEMMA MethodResetInv ==
  ASSUME KernelInv, NEW m \in ClockedMethods, MethodDone(m), ResetAt
  PROVE  KernelInv'
<1> USE DEF KernelInv
<1>1. now' = now
  BY MethodDoneInv
<1>2. /\ last_reset' = now /\ boundaries' = {} /\ transfers' = {}
      /\ processed' \in Int /\ processed' <= barrier_ran
      /\ busy' \subseteq Cores /\ epoch' \in Nat
      /\ given' = given /\ core_ran' = core_ran
  BY <1>1, ResetAtEffect
<1>3. TypeOK'
  BY <1>2, MethodDoneInv DEF TypeOK
<1>4. PastInv'
  BY <1>2, MethodDoneInv DEF PastInv, TypeOK
<1>5. TickInv'
  BY <1>2, MethodDoneInv DEF TickInv, ResetDone
<1> QED
  BY <1>1, <1>3, <1>4, <1>5, MethodDoneInv, ResetAtEffect

\* A clocked method of a tick without a reset, which gives work for later or for
\* this very tick.
LEMMA MethodWorkInv ==
  ASSUME KernelInv, NEW m \in ClockedMethods, MethodDone(m),
         now \notin Resets, core_ran' = now,
         UNCHANGED <<epoch, last_reset, processed>>,
         busy' \subseteq Cores, given' \in Nat,
         \A t \in (boundaries' \cup transfers') \ (boundaries \cup transfers) :
           t \in Nat /\ t >= now
  PROVE  KernelInv'
<1> USE DEF KernelInv
<1>1. now' = now /\ now \in Nat
  BY MethodDoneInv DEF TypeOK
<1>2. boundaries' \subseteq Nat /\ transfers' \subseteq Nat
  BY DEF TypeOK
<1>3. TypeOK'
  BY <1>1, <1>2, MethodDoneInv DEF TypeOK
<1>4. PastInv'
  BY <1>1, MethodDoneInv DEF PastInv, TypeOK
<1>5. last_reset # now
  BY <1>1 DEF ResetInv, None
<1>6. TickInv'
  BY <1>1, <1>5, MethodDoneInv DEF TickInv, ResetDone
<1>7. ResetInv'
  BY <1>1, <1>5 DEF ResetInv, Performed
<1> QED
  BY <1>3, <1>4, <1>6, <1>7, MethodDoneInv

\* What a core may give: at most one piece of work, not before the first tick.
LEMMA AheadType ==
  ASSUME NEW first \in Nat, NEW new \in Ahead(first), now \in Nat
  PROVE  Cardinality(new) \in Nat /\ \A t \in new : t \in Nat /\ t >= first
<1>1. new = {} \/ \E t \in first..(now + MaxDelay) : new = {t}
  BY DEF Ahead
<1>2. CASE new = {}
  BY <1>2, FS_EmptySet
<1>3. CASE \E t \in first..(now + MaxDelay) : new = {t}
  <2>1. PICK t \in first..(now + MaxDelay) : new = {t}
    BY <1>3
  <2>2. t \in Nat /\ t >= first
    BY Constants
  <2>3. Cardinality(new) = 1
    BY <2>1, FS_Singleton
  <2> QED
    BY <2>1, <2>2, <2>3
<1> QED
  BY <1>1, <1>2, <1>3

\* Simulator::cpu_edge, with or without a reset.
LEMMA CpuEdgeInv == KernelInv /\ CpuEdge => KernelInv'
<1> SUFFICES ASSUME KernelInv, CpuEdge, ~ResetAt PROVE KernelInv'
  BY MethodResetInv DEF CpuEdge, ClockedMethods
<1>1. /\ MethodDone("cpu_edge") /\ now \notin Resets /\ core_ran' = now
      /\ busy' \subseteq busy
      /\ UNCHANGED <<epoch, last_reset, boundaries, transfers, processed, given>>
  BY DEF CpuEdge
<1>2. busy' \subseteq Cores /\ given' \in Nat
  BY <1>1 DEF KernelInv, TypeOK
<1>3. "cpu_edge" \in ClockedMethods
  BY DEF ClockedMethods
<1> QED
  BY <1>1, <1>2, <1>3, MethodWorkInv

\* Simulator::memory_edge, whose work lies at a later tick.
LEMMA MemoryEdgeInv == KernelInv /\ MemoryEdge => KernelInv'
<1> SUFFICES ASSUME KernelInv, MemoryEdge, ~ResetAt PROVE KernelInv'
  BY MethodResetInv DEF MemoryEdge, ClockedMethods
<1>1. PICK new \in {{}} \cup Ahead(now + 1) :
        /\ MethodDone("memory_edge") /\ now \notin Resets /\ core_ran' = now
        /\ transfers' = transfers \cup new
        /\ given' = given + Cardinality(new)
        /\ UNCHANGED <<epoch, last_reset, boundaries, processed, busy>>
  BY DEF MemoryEdge
<1>2. now \in Nat /\ given \in Nat /\ busy \subseteq Cores
  BY DEF KernelInv, TypeOK
<1>3. Cardinality(new) \in Nat /\ \A t \in new : t \in Nat /\ t >= now + 1
  <2>1. CASE new = {}
    BY <2>1, FS_EmptySet
  <2>2. CASE new \in Ahead(now + 1)
    BY <2>2, <1>2, AheadType, now + 1 \in Nat
  <2> QED
    BY <1>1, <2>1, <2>2
<1>4. "memory_edge" \in ClockedMethods
  BY DEF ClockedMethods
<1>5. \A t \in (boundaries' \cup transfers') \ (boundaries \cup transfers) :
        t \in Nat /\ t >= now
  BY <1>1, <1>2, <1>3
<1>6. given' \in Nat /\ busy' \subseteq Cores
  BY <1>1, <1>2, <1>3
<1> QED
  BY <1>1, <1>4, <1>5, <1>6, MethodWorkInv

\* Simulator::tcu_edge, whose launches may start at this very tick.
LEMMA TcuEdgeInv == KernelInv /\ TcuEdge => KernelInv'
<1> SUFFICES ASSUME KernelInv, TcuEdge, ~ResetAt PROVE KernelInv'
  BY MethodResetInv DEF TcuEdge, ClockedMethods
<1>1. PICK new \in {{}} \cup Ahead(now) :
        /\ MethodDone("tcu_edge") /\ now \notin Resets /\ core_ran' = now
        /\ boundaries' = boundaries \cup new
        /\ given' = given + Cardinality(new)
        /\ UNCHANGED <<epoch, last_reset, transfers, processed, busy>>
  BY DEF TcuEdge
<1>2. now \in Nat /\ given \in Nat /\ busy \subseteq Cores
  BY DEF KernelInv, TypeOK
<1>3. Cardinality(new) \in Nat /\ \A t \in new : t \in Nat /\ t >= now
  <2>1. CASE new = {}
    BY <2>1, FS_EmptySet
  <2>2. CASE new \in Ahead(now)
    BY <2>2, <1>2, AheadType
  <2> QED
    BY <1>1, <2>1, <2>2
<1>4. "tcu_edge" \in ClockedMethods
  BY DEF ClockedMethods
<1>5. \A t \in (boundaries' \cup transfers') \ (boundaries \cup transfers) :
        t \in Nat /\ t >= now
  BY <1>1, <1>2, <1>3
<1>6. given' \in Nat /\ busy' \subseteq Cores
  BY <1>1, <1>2, <1>3
<1> QED
  BY <1>1, <1>4, <1>5, <1>6, MethodWorkInv

\* A wake-up performs or notices a reset and calls the barrier.
LEMMA WakeupInv == KernelInv /\ Wakeup => KernelInv'
<1> SUFFICES ASSUME KernelInv, Wakeup PROVE KernelInv'
  OBVIOUS
<1> USE DEF KernelInv, Wakeup, RunAndNotify
<1>1. now' = now /\ wake' = wake /\ UNCHANGED <<done, fault, success, barrier_ran>>
  OBVIOUS
<1>2. "barrier" \notin ClockedMethods /\ "wakeup" \notin ClockedMethods
      /\ "clocks" # "barrier" /\ "clocks" # "wakeup"
  BY DEF ClockedMethods
<1>3. runnable' \subseteq Processes /\ notified' \subseteq Processes /\ Active' # {}
  BY DEF TypeOK, Processes, Active
<1>4. EdgesInv'
  BY <1>1, <1>2, DueType DEF EdgesInv, Active
<1>5. CASE ResetAt
  <2>1. /\ last_reset' = now /\ boundaries' = {} /\ transfers' = {}
        /\ processed' \in Int /\ processed' <= barrier_ran
        /\ busy' \subseteq Cores /\ epoch' \in Nat
        /\ given' = given /\ core_ran' = core_ran
        /\ ResetInv'
    BY <1>1, <1>5, ResetAtEffect
  <2>2. TypeOK'
    BY <1>1, <1>3, <2>1 DEF TypeOK
  <2>3. PastInv'
    BY <1>1, <2>1 DEF PastInv, TypeOK
  <2>4. TickInv'
    BY <1>1, <1>3, <2>1 DEF TickInv, ResetDone, Scheduled, EdgesRan, Running
  <2> QED
    BY <1>4, <2>1, <2>2, <2>3, <2>4
<1>6. CASE now \notin Resets /\ UNCHANGED <<epoch, last_reset, workVars, given, core_ran>>
  <2> USE DEF workVars
  <2>1. TypeOK'
    BY <1>1, <1>3, <1>6 DEF TypeOK
  <2>2. PastInv'
    BY <1>1, <1>6 DEF PastInv
  <2>3. TickInv'
    BY <1>1, <1>3, <1>6 DEF TickInv, ResetDone, Scheduled, EdgesRan, Running
  <2>4. ResetInv'
    BY <1>1, <1>6 DEF ResetInv, Performed
  <2> QED
    BY <1>4, <2>1, <2>2, <2>3, <2>4
<1> QED
  BY <1>5, <1>6

\* A barrier that comes too early is followed by another one.
LEMMA BarrierTooEarlyInv == KernelInv /\ BarrierTooEarly => KernelInv'
<1> SUFFICES ASSUME KernelInv, BarrierTooEarly PROVE KernelInv'
  OBVIOUS
<1> USE DEF KernelInv, BarrierTooEarly, simVars, workVars
<1>1. "barrier" \notin ClockedMethods /\ "clocks" # "barrier"
  BY DEF ClockedMethods
<1>2. PICK m \in DueMethods(now) : done[m] # now
  BY DEF EdgesRan
<1>3. Active' # {}
  <2>1. m \in Active \/ "clocks" \in runnable
    BY <1>2 DEF EdgesInv
  <2>2. m \in ClockedMethods
    BY DueType
  <2> QED
    BY <1>1, <2>1, <2>2 DEF Active
<1>4. TypeOK'
  BY DEF TypeOK
<1>5. PastInv'
  BY DEF PastInv
<1>6. EdgesInv'
  BY <1>1, DueType DEF EdgesInv, Active
<1>7. TickInv'
  BY <1>3 DEF TickInv, ResetDone, Scheduled, EdgesRan, Running
<1>8. ResetInv'
  BY DEF ResetInv, Performed
<1> QED
  BY <1>4, <1>5, <1>6, <1>7, <1>8

\* The barrier finds every boundary of its tick unprocessed and leaves only work
\* for later ticks, for which it schedules the wake-up.
LEMMA BarrierInv == KernelInv /\ Barrier => KernelInv'
<1> SUFFICES ASSUME KernelInv, Barrier PROVE KernelInv'
  OBVIOUS
<1> USE DEF KernelInv
<1>1. /\ Running /\ "barrier" \in runnable /\ EdgesRan
      /\ runnable' = runnable \ {"barrier"} /\ notified' = notified
      /\ now' = now /\ done' = done /\ barrier_ran' = now /\ now \in Nat
  BY DEF Barrier, TypeOK
<1>2. /\ \A t \in boundaries' \cup transfers' : t \in Nat /\ t > now
      /\ processed' \in Int /\ processed' <= now
      /\ busy' \subseteq Cores /\ epoch' \in Nat /\ last_reset' \in Int
      /\ given' \in Nat /\ core_ran' = core_ran
      /\ last_reset' <= now /\ ResetDone'
      /\ last_reset' = now => boundaries' = {} /\ transfers' = {}
      /\ ResetInv'
  <2>1. CASE ResetAt
    <3>1. ResetInv' /\ last_reset' = now /\ boundaries' = {} /\ transfers' = {}
          /\ processed' \in Int /\ processed' <= barrier_ran
          /\ busy' \subseteq Cores /\ epoch' \in Nat
          /\ given' = given /\ core_ran' = core_ran
      BY <1>1, <2>1, ResetAtEffect
    <3> QED
      BY <1>1, <3>1 DEF ResetDone, TypeOK, PastInv
  <2>2. CASE /\ now \notin Resets
             /\ transfers' = {t \in transfers : t > now}
             /\ boundaries' = boundaries \ {now}
             /\ processed' = IF now \in boundaries THEN now ELSE processed
             /\ UNCHANGED <<epoch, last_reset, busy, given, core_ran>>
    <3>1. \A t \in boundaries' \cup transfers' : t \in Nat /\ t > now
      BY <1>1, <2>2 DEF TypeOK, PastInv
    <3>2. processed' \in Int /\ processed' <= now
      BY <1>1, <2>2 DEF TypeOK, PastInv
    <3>3. last_reset # now
      BY <1>1, <2>2 DEF ResetInv, None
    <3>4. ResetInv'
      BY <1>1, <2>2 DEF ResetInv, Performed
    <3> QED
      BY <1>1, <2>2, <3>1, <3>2, <3>3, <3>4 DEF ResetDone, TypeOK, PastInv
  <2> QED
    BY <2>1, <2>2 DEF Barrier, BarrierWork
<1>3. ~Replayed
  <2> SUFFICES ASSUME Replayed PROVE FALSE
    OBVIOUS
  <2>1. processed = now /\ now \in boundaries
    BY DEF Replayed
  <2>2. barrier_ran = now
    BY <2>1, <1>1 DEF PastInv, TypeOK
  <2>3. Scheduled
    BY <2>2, <1>1 DEF TickInv
  <2> QED
    BY <2>1, <2>3, <1>1 DEF Scheduled, PastInv, TypeOK
<1>4. now < Watchdog =>
        /\ NextWake \in Nat /\ NextWake > now /\ NextWake <= Watchdog
        /\ \A t \in boundaries' \cup transfers' : NextWake <= t
        /\ \A r \in Resets : r > now => NextWake <= r
  <2> DEFINE T == {Watchdog} \cup boundaries' \cup transfers' \cup {r \in Resets : r > now}
  <2>1. T \in SUBSET Nat /\ T # {}
    BY <1>2, Constants
  <2>2. Min(T) \in T /\ \A t \in T : Min(T) <= t
    BY <2>1, MinOfTicks
  <2>3. NextWake = Min(T)
    BY DEF NextWake
  <2>4. now < Watchdog => \A t \in T : t \in Nat /\ t > now
    BY <1>2, Constants
  <2> HIDE DEF T
  <2>5. now < Watchdog => NextWake \in Nat /\ NextWake > now /\ \A t \in T : NextWake <= t
    BY <2>2, <2>3, <2>4
  <2> QED
    BY <2>5 DEF T
<1>5. /\ success' = Completed
      /\ fault' = IF ~Completed /\ now >= Watchdog THEN "Watchdog" ELSE "None"
      /\ wake' = IF ~Completed /\ now < Watchdog THEN NextWake ELSE wake
  <2>1. success' = Completed
    <3>1. success' = (~Replayed /\ Completed)
      BY DEF Barrier
    <3>2. Completed \in BOOLEAN
      BY DEF Completed
    <3> HIDE DEF Completed, Replayed
    <3> QED
      BY <1>3, <3>1, <3>2
  <2>2. fault' = IF Completed THEN "None" ELSE IF now >= Watchdog THEN "Watchdog"
                 ELSE IF NextWake <= now THEN "UnprocessedEvent" ELSE "None"
    BY <1>3, Zenon DEF Barrier
  <2>3. fault' = IF ~Completed /\ now >= Watchdog THEN "Watchdog" ELSE "None"
    BY <2>2, <1>1, <1>4, Constants
  <2>4. fault' = "None" /\ ~success' <=> ~Completed /\ now < Watchdog
    BY <2>1, <2>3, <1>1, Constants
  <2>5. wake' = IF fault' = "None" /\ ~success' THEN NextWake ELSE wake
    BY DEF Barrier
  <2> QED
    BY <2>1, <2>3, <2>4, <2>5
<1>6. TypeOK'
  <2>1. success' \in BOOLEAN
    BY <1>5 DEF Completed
  <2>2. fault' \in {"None", "Watchdog"}
    BY <1>5
  <2>3. wake' \in Nat \cup {None}
    BY <1>4, <1>5 DEF TypeOK
  <2>4. runnable' \subseteq Processes /\ notified' \subseteq Processes
    BY <1>1 DEF TypeOK
  <2>5. boundaries' \subseteq Nat /\ transfers' \subseteq Nat
    BY <1>2
  <2>6. core_ran' \in Int /\ barrier_ran' \in Int /\ done' \in [ClockedMethods -> Int]
    BY <1>1, <1>2 DEF TypeOK
  <2> QED
    BY <1>1, <1>2, <2>1, <2>2, <2>3, <2>4, <2>5, <2>6 DEF TypeOK
<1>7. PastInv'
  <2>1. wake' # None => now < wake' /\ wake' <= Watchdog
    BY <1>4, <1>5 DEF PastInv
  <2>2. \A t \in boundaries' \cup transfers' : t >= now
    BY <1>1, <1>2
  <2> QED
    BY <1>1, <1>2, <2>1, <2>2 DEF PastInv, TypeOK, None
<1>8. EdgesInv'
  <2>1. "barrier" \notin ClockedMethods /\ "clocks" # "barrier"
    BY DEF ClockedMethods
  <2> QED
    BY <1>1, <2>1, DueType DEF EdgesInv, Active
<1>9. Running' => Scheduled'
  <2> SUFFICES ASSUME Running' PROVE Scheduled'
    OBVIOUS
  <2>1. ~Completed /\ now < Watchdog
    BY <1>1, <1>5, Constants DEF Running
  <2> QED
    BY <1>1, <1>4, <1>5, <2>1 DEF Scheduled, None
<1>10. TickInv'
  BY <1>1, <1>2, <1>9 DEF TickInv, EdgesRan
<1> QED
  BY <1>2, <1>6, <1>7, <1>8, <1>10

-----------------------------------------------------------------------------
(* The theorems.                                                           *)

\* The scheduling invariant holds in every run, for any clocks and resets.
THEOREM KernelInvariant == Spec => []KernelInv
<1>1. KernelInv /\ [Next]_vars => KernelInv'
  <2> SUFFICES ASSUME KernelInv, [Next]_vars PROVE KernelInv'
    OBVIOUS
  <2>1. CASE UNCHANGED vars
    BY <2>1 DEF vars, simVars, workVars, schedVars, KernelInv, TypeOK, PastInv, EdgesInv, TickInv,
         ResetInv, Active, Running, Scheduled, ResetDone, EdgesRan, Performed
  <2> QED
    BY <2>1, ClocksRiseInv, DeltaCycleInv, AdvanceTimeInv, CpuEdgeInv, MemoryEdgeInv, TcuEdgeInv,
       WakeupInv, BarrierTooEarlyInv, BarrierInv DEF Next, Stopped
<1> QED
  BY <1>1, InitKernelInv, PTL DEF Spec

\* Work is processed in its own tick, and the only fault is the watchdog's: no
\* boundary is replayed and no event left behind (Simulator::barrier and
\* schedule_wakeup).
THEOREM WorkProcessedInItsTick == Spec => []WorkInItsTick
<1>1. KernelInv => WorkInItsTick
  BY DEF KernelInv, TypeOK, PastInv, WorkInItsTick
<1> QED
  BY <1>1, KernelInvariant, PTL

\* After the barrier's work no core runs at the tick any more, in whatever order
\* SystemC runs the processes.
THEOREM NoCoreAfterBarrier == Spec => BarrierEndsTick
<1>1. KernelInv /\ [Next]_vars => (barrier_ran = now => UNCHANGED <<done, core_ran>>)
  <2> SUFFICES ASSUME KernelInv, [Next]_vars, barrier_ran = now PROVE UNCHANGED <<done, core_ran>>
    OBVIOUS
  <2>1. \A m \in ClockedMethods : m \notin runnable
    BY MethodBeforeBarrier
  <2>2. ~CpuEdge /\ ~MemoryEdge /\ ~TcuEdge
    BY <2>1 DEF CpuEdge, MemoryEdge, TcuEdge, MethodDone, RunAndNotify, ClockedMethods
  <2> QED
    BY <2>2 DEF Next, vars, simVars, ClocksRise, DeltaCycle, AdvanceTime, Wakeup, BarrierTooEarly,
         Barrier, BarrierWork, ResetAt, Stopped
<1> QED
  BY <1>1, KernelInvariant, PTL DEF Spec, BarrierEndsTick

\* Every reset is performed once and no core runs at its tick (reset_at).
THEOREM ResetsAreOnceAndAlone == Spec => []ResetsOnceAndAlone
<1>1. KernelInv => ResetsOnceAndAlone
  <2> SUFFICES ASSUME KernelInv PROVE ResetsOnceAndAlone
    OBVIOUS
  <2> DEFINE Due == {r \in Resets : r <= now}
  <2>1. IsFiniteSet(Due) /\ IsFiniteSet(Performed)
    BY ResetsFinite, FS_Subset DEF Performed
  <2>2. Performed \subseteq Due
    BY Constants DEF Performed, KernelInv, TypeOK
  <2>3. Cardinality(Performed) <= Cardinality(Due)
    BY <2>1, <2>2, FS_Subset
  <2>4. Cardinality(Performed) \in Nat /\ Cardinality(Due) \in Nat
    BY <2>1, FS_CardinalityType
  <2>5. runnable = {} /\ notified = {} => Performed = Due
    BY Constants DEF Performed, KernelInv, TypeOK, TickInv, ResetDone, Active
  <2>6. epoch = 1 + Cardinality(Performed) /\ core_ran \notin Resets
    BY DEF KernelInv, ResetInv
  <2>7. epoch <= 1 + Cardinality(Due)
    BY <2>3, <2>4, <2>6
  <2> QED
    BY <2>5, <2>6, <2>7 DEF ResetsOnceAndAlone
<1> QED
  BY <1>1, KernelInvariant, PTL
=============================================================================
