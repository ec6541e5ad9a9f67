---------------------------- MODULE DeviceProofs ----------------------------
(***************************************************************************)
(* Proofs about the control electronics: the checks made at a launch       *)
(* foresee all that can go wrong later, work that runs together is         *)
(* compatible, the backend evolves without gaps under the right drives,    *)
(* batching keeps its order, and every result is delivered once.           *)
(*                                                                         *)
(* The inductive invariant Inv relates the state of the device to the      *)
(* actions accepted in the epoch and to the tick up to which boundaries    *)
(* have been processed.                                                    *)
(***************************************************************************)
EXTENDS Device, SubsequenceProofs

-----------------------------------------------------------------------------
(* The inductive invariant.                                                *)

\* The two kinds of readout actions, and the measurement that they belong to.
IsReadout(a) == a.kind \in {"Acquire", "Arm"}
MeasurementOf(a) == a.reference[1].measurement

\* When the result of an acquisition is due, given the accepted actions.
ArmStarts(acts, a) == {x.start : x \in {y \in acts : y.kind = "Arm" /\ y.reference = a.reference}}
ArmOf(acts, a) ==
  IF ArmStarts(acts, a) = {} THEN a.start ELSE CHOOSE t \in ArmStarts(acts, a) : TRUE
DueOf(acts, a) == (IF ArmOf(acts, a) > a.end THEN ArmOf(acts, a) ELSE a.end) + a.delay
Due(a) == DueOf(accepted, a)

\* b is the boundary of tick t: it lists what starts, ends and is due then.
AcquiredIn(acts) == {a \in acts : a.kind = "Acquire"}
StartsAt(acts, t) == {a \in acts : a.start = t}
EndsAt(acts, t) == {a.id : a \in {x \in acts : x.end = t}}
ReadyAt(acts, t) == {MeasurementOf(a) : a \in {x \in AcquiredIn(acts) : DueOf(acts, x) = t}}
Complete(b, acts, t) ==
  /\ Lists(b.starts, StartsAt(acts, t))
  /\ Lists(b.ends, EndsAt(acts, t))
  /\ Lists(b.ready, ReadyAt(acts, t))

\* The accepted acquisitions.
Acquired == AcquiredIn(accepted)

\* The boundary of tick t has been processed.
Closed(t) == processed_tick # <<>> /\ t <= processed_tick[1]

\* The clocks of the device, and the identities given out so far.
TimeInv ==
  /\ now \in Nat /\ last_tick \in Nat /\ origin \in Nat /\ epoch \in Nat
  /\ origin <= last_tick /\ last_tick <= now
  /\ \/ processed_tick = <<>>
     \/ \E p \in 0..last_tick :
          /\ processed_tick = <<p>>
          /\ ~stopped => p = last_tick
          /\ p = now => EdgeRan
  /\ next_id \in [Cores -> [event : Nat \ {0}, measurement : Nat \ {0}]]

\* An accepted action is scheduled in this epoch, under an identity that has
\* been given out.
ActionOk(a) ==
  /\ a.start \in Nat /\ a.end \in Nat /\ a.delay \in Nat
  /\ origin <= a.start /\ a.start < a.end
  /\ a.epoch = epoch /\ a.core \in Cores
  /\ \E k \in 1..(next_id[a.core].event - 1) : a.id = GlobalId(k, a.core)
  /\ IsReadout(a) =>
       \E m \in 1..(next_id[a.core].measurement - 1) : \E q \in a.targets :
         /\ a.targets = {q}
         /\ a.reference = <<[epoch |-> epoch, measurement |-> GlobalId(m, a.core), target |-> q]>>

\* Accepted actions and acquisitions have distinct identities, and no two
\* accepted actions conflict, not only those that are still reserved.
ActionInv ==
  /\ \A a \in accepted : ActionOk(a)
  /\ \A a, b \in accepted : a.id = b.id => a = b
  /\ \A a, b \in Acquired : MeasurementOf(a) = MeasurementOf(b) => a = b
  /\ \A a, b \in accepted : a # b => PairFault(a, b) = "None"

\* The boundaries ahead list all that is to happen at their ticks.
BoundaryInv ==
  /\ DOMAIN boundaries \subseteq Nat
  /\ \A t \in DOMAIN boundaries : now <= t /\ ~Closed(t)
  /\ \A t \in Nat : ~Closed(t) =>
       Complete(BoundaryAt(t), accepted, t)

\* The active actions are those that have started and not ended, and a
\* reservation is kept until its action has ended.
ActiveInv ==
  /\ active = {a \in accepted : Closed(a.start) /\ ~Closed(a.end)}
  /\ reservations \subseteq accepted
  /\ \A a \in accepted \ reservations : processed_tick # <<>> /\ a.end < processed_tick[1]

\* The readout kept for an acquisition whose result is not yet due.
ReadoutFor(a) ==
  [reference |-> a.reference[1], end |-> a.end, arm |-> ArmOf(accepted, a), ready |-> Due(a),
   sample |-> IF Closed(a.end) THEN <<sampled[MeasurementOf(a)]>> ELSE <<>>, core |-> a.core]

\* The open readouts, and the outcomes sampled so far.
ReadoutInv ==
  /\ DOMAIN readouts = {MeasurementOf(a) : a \in {x \in Acquired : ~Closed(Due(x))}}
  /\ \A a \in Acquired : ~Closed(Due(a)) => readouts[MeasurementOf(a)] = ReadoutFor(a)
  /\ DOMAIN sampled = {MeasurementOf(a) : a \in {x \in Acquired : Closed(x.end)}}

\* The completion that answers an acquisition.
AnswerTo(a) ==
  [core |-> a.core, measurement |-> LocalId(MeasurementOf(a)), target |-> a.reference[1].target,
   value |-> sampled[MeasurementOf(a)], tick |-> Due(a)]

\* The completions delivered are the answers that have become due, each once.
DeliveryInv ==
  LET done == {a \in Acquired : Closed(Due(a))}
  IN  /\ IsFiniteSet(done)
      /\ delivered \in Seq({AnswerTo(a) : a \in done})
      /\ \A a \in done : \E i \in 1..Len(delivered) : delivered[i] = AnswerTo(a)
      /\ Len(delivered) = Cardinality(done)

\* The tick of the last operation of a log, and of its last evolution.
LastTick(log, o) == IF log = <<>> THEN o ELSE log[Len(log)].tick
LastEvolved(log, o) ==
  IF EvolutionsOf(log) = <<>> THEN o ELSE EvolutionsOf(log)[Len(EvolutionsOf(log))].tick

\* An evolution is computed with the pulses of acts that span it.
DrivenBy(ev, acts) ==
  /\ ev.drives = {[id |-> a.id, start |-> a.start, end |-> a.end] :
                    a \in {x \in acts : x.kind = "Pulse" /\ x.start < ev.tick /\ ev.start < x.end}}
  /\ \A d \in ev.drives : d.start <= ev.start /\ ev.tick <= d.end

\* The evolutions of a log follow each other without gap from the tick o on, and
\* its instantaneous operations lie between them.
EvolutionsOk(log, o, acts) ==
  \A i \in 1..Len(EvolutionsOf(log)) :
    /\ EvolutionsOf(log)[i].start = IF i = 1 THEN o ELSE EvolutionsOf(log)[i - 1].tick
    /\ EvolutionsOf(log)[i].tick \in Nat /\ EvolutionsOf(log)[i].tick <= LastTick(log, o)
    /\ DrivenBy(EvolutionsOf(log)[i], acts)
InstantsOk(log, o) ==
  \A i \in 1..Len(log) :
    log[i].kind # "Evolution" => log[i].tick = IF i = 1 THEN o ELSE log[i - 1].tick

\* A log without gaps from the tick o on.
LogOk(log, o, acts) ==
  /\ IsSeq(log) /\ LastTick(log, o) \in Nat /\ LastEvolved(log, o) = LastTick(log, o)
  /\ EvolutionsOk(log, o, acts) /\ InstantsOk(log, o)

\* The fields of a backend.
Shape(b) ==
  DOMAIN b = {"pending", "epoch", "committed_tick", "fails_in", "executed", "failed", "committed", "fault"}

\* The batches of a backend: what was asked for, split in order.
Batched(b) ==
  /\ IsSeq(b.executed) /\ IsSeq(b.failed) /\ IsSeq(b.pending)
  /\ b.executed \o b.failed \o b.pending = b.committed
  /\ b.failed # <<>> => b.pending = <<>>
  /\ \A i \in 1..Len(b.pending) : b.pending[i].kind # "Measurement"
  /\ Len(b.pending) < MaxBatch

\* The measurements whose outcomes a log contains.
MeasuredIn(log) ==
  UNION {{log[i].references[k].measurement : k \in 1..Len(log[i].references)} :
            i \in {j \in 1..Len(log) : log[j].kind = "Measurement"}}

\* The backend between two calls while nothing has failed.
BackendOk ==
  /\ backend.fault = "None" /\ backend.fails_in = 0 /\ backend.epoch = epoch
  /\ backend.failed = <<>>
  /\ backend.committed_tick = last_tick

\* What the backend was asked for, also after a fault.
LogInv ==
  /\ Shape(backend) /\ Batched(backend) /\ LogOk(backend.committed, origin, accepted)
  /\ DOMAIN sampled = MeasuredIn(backend.executed)
  /\ fault # "BackendFailure" => last_tick = LastTick(backend.committed, origin)
  /\ fault # "BackendFailure" /\ summary = "None" => backend.failed = <<>>
  /\ stopped \/ (summary = "Written" /\ fault # "BackendFailure") =>
       backend.executed = backend.committed
  /\ stopped => DOMAIN boundaries = {}
  /\ summary # "None" => stopped \/ fault # "None"

\* The invariant while no check has failed, and the whole invariant.
Core == TimeInv /\ ActionInv /\ BoundaryInv /\ ActiveInv /\ ReadoutInv /\ DeliveryInv /\ BackendOk

Inv == (fault = "None" => Core) /\ LogInv /\ AcceptedWorkNeverFails

-----------------------------------------------------------------------------
(* Identities.                                                             *)

\* Quotient and remainder are unique.
LEMMA UniqueQuotient ==
  ASSUME NEW N \in Nat \ {0}, NEW k \in Int, NEW l \in Int, NEW r \in 0..(N - 1), NEW m \in 0..(N - 1),
         k * N + r = l * N + m
  PROVE  k = l /\ r = m
<1>1. (k - l) * N = m - r
  OBVIOUS
<1>2. CASE k > l
  <2>1. (k - l) * N >= N
    BY <1>2
  <2> QED BY <1>1, <2>1
<1>3. CASE k < l
  <2>1. (l - k) * N >= N
    BY <1>3
  <2>2. (l - k) * N = r - m
    BY <1>1
  <2> QED BY <2>1, <2>2
<1>4. CASE k = l
  BY <1>4
<1> QED BY <1>2, <1>3, <1>4

\* The quotient and the remainder of k * N + r.
LEMMA QuotientOf ==
  ASSUME NEW N \in Nat \ {0}, NEW k \in Nat, NEW r \in 0..(N - 1)
  PROVE  (k * N + r) \div N = k /\ (k * N + r) % N = r
<1> DEFINE a == k * N + r
<1>1. k * N \in Nat /\ a \in Nat
  OBVIOUS
<1> HIDE DEF a
<1> DEFINE q == a \div N
           m == a % N
<1>2. q \in Int /\ m \in 0..(N - 1) /\ a = N * q + m
  BY <1>1
<1> HIDE DEF q, m
<1>3. N * q = q * N
  BY <1>2
<1>4. k * N + r = q * N + m
  BY <1>2, <1>3 DEF a
<1>5. k = q /\ r = m
  BY <1>2, <1>4, UniqueQuotient
<1> QED BY <1>5 DEF q, m, a

\* Two cores never use the same global identity, nor one core the same twice
\* (device_events in core.cpp).
LEMMA GlobalIdInjective ==
  ASSUME NEW c \in Cores, NEW d \in Cores, NEW i \in Nat \ {0}, NEW j \in Nat \ {0},
         GlobalId(i, c) = GlobalId(j, d)
  PROVE  i = j /\ c = d
<1>0. CoreCount \in Nat \ {0}
  BY DeviceAssumption
<1>1. c - 1 \in 0..(CoreCount - 1) /\ d - 1 \in 0..(CoreCount - 1) /\ c \in Int /\ d \in Int
  BY <1>0 DEF Cores
<1> DEFINE x == (i - 1) * CoreCount
           y == (j - 1) * CoreCount
<1>2. x \in Int /\ y \in Int
  BY <1>0
<1>3. x + c = y + d
  BY DEF GlobalId
<1>4. x + (c - 1) = y + (d - 1)
  <2> HIDE DEF x, y
  <2> QED BY <1>1, <1>2, <1>3
<1>5. i - 1 = j - 1 /\ c - 1 = d - 1
  BY <1>0, <1>1, <1>4, UniqueQuotient
<1> QED BY <1>1, <1>5

\* The barrier finds the core and the identity of a completion again.
LEMMA GlobalIdLocal ==
  ASSUME NEW c \in Cores, NEW i \in Nat \ {0}
  PROVE  LocalCore(GlobalId(i, c)) = c /\ LocalId(GlobalId(i, c)) = i
<1>0. CoreCount \in Nat \ {0}
  BY DeviceAssumption
<1>1. c - 1 \in 0..(CoreCount - 1) /\ c \in Int
  BY <1>0 DEF Cores
<1> DEFINE x == (i - 1) * CoreCount
<1>2. x \in Int /\ i - 1 \in Nat
  BY <1>0
<1>3. GlobalId(i, c) - 1 = x + (c - 1)
  <2>1. GlobalId(i, c) = x + c
    BY DEF GlobalId
  <2> HIDE DEF x
  <2> QED BY <1>1, <1>2, <2>1
<1>4. (x + (c - 1)) \div CoreCount = i - 1 /\ (x + (c - 1)) % CoreCount = c - 1
  BY <1>0, <1>1, <1>2, QuotientOf
<1> QED BY <1>1, <1>3, <1>4 DEF LocalCore, LocalId

-----------------------------------------------------------------------------
(* Batches and what resolve makes of them.                                 *)

\* The positions of the readout events of a batch.
ReadoutsIn(batch) == {k \in 1..Len(batch) : batch[k].kind \in {"Acquire", "Arm"}}

\* What the assumption on the constants says of a batch.
LEMMA BatchOk ==
  ASSUME NEW core \in Cores, NEW batch \in Batches[core]
  PROVE  batch \in Seq(EventSpec) /\ WellFormed(batch) /\ Len(batch) \in Nat
         /\ \A i \in 1..Len(batch) : batch[i] \in EventSpec
<1>1. batch \in Seq(EventSpec) /\ WellFormed(batch)
  BY DeviceAssumption DEF Cores
<1> QED BY <1>1, LenProperties, ElementOfSeq

\* A readout event belongs to exactly one acquisition of its batch.
LEMMA OneAcquisition ==
  ASSUME NEW core \in Cores, NEW batch \in Batches[core], NEW i \in ReadoutsIn(batch)
  PROVE  \E k \in Acquisitions(batch) :
           /\ SameReadout(batch[k], batch[i])
           /\ \A l \in Acquisitions(batch) : SameReadout(batch[l], batch[i]) => l = k
           /\ k = CHOOSE l \in Acquisitions(batch) : SameReadout(batch[l], batch[i])
<1>1. PICK k \in 1..Len(batch) : ReadoutMembers(batch, "Acquire", batch[i]) = {k}
  BY BatchOk DEF WellFormed, ReadoutsIn
<1>2. \A l \in 1..Len(batch) : batch[l].kind = "Acquire" /\ SameReadout(batch[l], batch[i]) <=> l = k
  BY <1>1 DEF ReadoutMembers
<1> QED BY <1>2 DEF Acquisitions

\* The acquisitions of a batch are numbered from 0, and two readout events have
\* the same number exactly if they belong to the same measurement.
LEMMA Numbering ==
  ASSUME NEW core \in Cores, NEW batch \in Batches[core], NEW i \in ReadoutsIn(batch)
  PROVE  /\ IsFiniteSet(Acquisitions(batch)) /\ Cardinality(Acquisitions(batch)) \in Nat
         /\ AcquiredBefore(batch, batch[i]) \in 0..(Cardinality(Acquisitions(batch)) - 1)
         /\ \A j \in ReadoutsIn(batch) :
              AcquiredBefore(batch, batch[i]) = AcquiredBefore(batch, batch[j])
                <=> SameReadout(batch[i], batch[j])
<1> DEFINE A == Acquisitions(batch)
           B(k) == {l \in A : l < k}
<1>0. IsFiniteSet(A) /\ Cardinality(A) \in Nat /\ A \subseteq Nat
  <2>1. A \subseteq 1..Len(batch) /\ IsFiniteSet(1..Len(batch))
    BY BatchOk, FS_Interval DEF Acquisitions
  <2> QED BY <2>1, BatchOk, FS_Subset, FS_CardinalityType
<1> HIDE DEF A
<1>1. ASSUME NEW k \in A PROVE B(k) \subseteq A /\ k \notin B(k)
  BY <1>0
<1>2. ASSUME NEW k \in A, NEW l \in A, k < l PROVE B(k) \subseteq B(l) /\ k \in B(l) /\ k \notin B(k)
  <2>1. \A m \in A : m < k => m < l
    BY <1>0, <1>2
  <2>2. ~(k < k)
    BY <1>0
  <2>3. B(k) \subseteq B(l)
    BY <2>1
  <2> QED BY <1>2, <2>2, <2>3
<1> HIDE DEF B
<1>3. ASSUME NEW k \in A PROVE IsFiniteSet(B(k)) /\ Cardinality(B(k)) \in 0..(Cardinality(A) - 1)
  <2>1. IsFiniteSet(B(k)) /\ Cardinality(B(k)) <= Cardinality(A) /\ Cardinality(B(k)) # Cardinality(A)
    BY <1>0, <1>1, FS_Subset
  <2> QED BY <1>0, <2>1, FS_CardinalityType
<1>4. ASSUME NEW k \in A, NEW l \in A, k < l PROVE Cardinality(B(k)) # Cardinality(B(l))
  BY <1>2, <1>3, <1>4, FS_Subset
<1>5. ASSUME NEW k \in A, NEW l \in A, Cardinality(B(k)) = Cardinality(B(l)) PROVE k = l
  BY <1>0, <1>4, <1>5
<1>6. PICK k \in A : /\ SameReadout(batch[k], batch[i])
                     /\ k = CHOOSE l \in Acquisitions(batch) : SameReadout(batch[l], batch[i])
  BY OneAcquisition DEF A
<1>7. AcquiredBefore(batch, batch[i]) = Cardinality(B(k))
  BY <1>6 DEF AcquiredBefore, A, B
<1>8. ASSUME NEW j \in ReadoutsIn(batch)
      PROVE  AcquiredBefore(batch, batch[i]) = AcquiredBefore(batch, batch[j])
                <=> SameReadout(batch[i], batch[j])
  <2>1. PICK l \in A : /\ SameReadout(batch[l], batch[j])
                       /\ \A m \in A : SameReadout(batch[m], batch[j]) => m = l
                       /\ l = CHOOSE m \in Acquisitions(batch) : SameReadout(batch[m], batch[j])
    BY OneAcquisition DEF A
  <2>2. AcquiredBefore(batch, batch[j]) = Cardinality(B(l))
    BY <2>1 DEF AcquiredBefore, A, B
  <2>3. k = l <=> SameReadout(batch[i], batch[j])
    BY <1>6, <2>1 DEF SameReadout
  <2> QED BY <1>5, <1>7, <2>2, <2>3
<1> QED BY <1>0, <1>3, <1>7, <1>8 DEF A

\* What resolve makes of a batch.
ResolvedAs(A, batch, core) ==
  /\ IsSeq(A) /\ Len(A) = Len(batch)
  /\ \A i \in 1..Len(batch) :
       /\ A[i].id = GlobalId(next_id[core].event + i - 1, core)
       /\ A[i].epoch = epoch /\ A[i].core = core /\ A[i].kind = batch[i].kind
       /\ A[i].targets = batch[i].targets /\ A[i].separate_arm = batch[i].separate_arm
       /\ A[i].start \in Nat /\ A[i].end \in Nat /\ A[i].delay \in Nat
       /\ now <= A[i].start /\ A[i].start < A[i].end
       /\ IsReadout(A[i]) =>
            A[i].reference =
              <<[epoch |-> epoch,
                 measurement |-> GlobalId(next_id[core].measurement + AcquiredBefore(batch, batch[i]), core),
                 target |-> CHOOSE q \in batch[i].targets : TRUE]>>

\* resolve does that.
LEMMA ResolveIs ==
  ASSUME TimeInv, NEW core \in Cores, NEW batch \in Batches[core]
  PROVE  ResolvedAs(Resolve(core, batch), batch, core)
<1> DEFINE A == Resolve(core, batch)
<1>0. Len(batch) \in Nat /\ \A i \in 1..Len(batch) : batch[i] \in EventSpec
  BY BatchOk
<1>1. A = [i \in 1..Len(batch) |-> A[i]] /\ DOMAIN A = 1..Len(batch)
  BY DEF Resolve
<1>2. A \in Seq({A[i] : i \in 1..Len(batch)})
  <2>1. A \in [1..Len(batch) -> {A[i] : i \in 1..Len(batch)}]
    <3> HIDE DEF A
    <3> QED BY <1>1
  <2> HIDE DEF A
  <2> QED BY <1>0, <2>1, SeqDef
<1>3. IsSeq(A) /\ Len(A) = Len(batch)
  <2> HIDE DEF A
  <2>1. IsSeq(A)
    BY <1>2 DEF IsSeq
  <2>2. Len(A) \in Nat /\ DOMAIN A = 1..Len(A)
    BY <2>1, IsSeqLen
  <2> QED BY <1>0, <1>1, <2>1, <2>2
<1>4. ASSUME NEW i \in 1..Len(batch)
      PROVE  /\ A[i].id = GlobalId(next_id[core].event + i - 1, core)
             /\ A[i].epoch = epoch /\ A[i].core = core /\ A[i].kind = batch[i].kind
             /\ A[i].targets = batch[i].targets /\ A[i].separate_arm = batch[i].separate_arm
             /\ A[i].start = now + batch[i].output_delay
             /\ A[i].end = now + batch[i].output_delay + batch[i].duration
             /\ A[i].delay = batch[i].discriminator_delay
  BY DEF Resolve
<1>5. ASSUME NEW i \in 1..Len(batch), IsReadout(A[i])
      PROVE  A[i].reference =
              <<[epoch |-> epoch,
                 measurement |-> GlobalId(next_id[core].measurement + AcquiredBefore(batch, batch[i]), core),
                 target |-> CHOOSE q \in batch[i].targets : TRUE]>>
  <2>1. batch[i].kind \in {"Acquire", "Arm"}
    BY <1>4, <1>5 DEF IsReadout
  <2> QED BY <2>1 DEF Resolve
<1> HIDE DEF A
<1>6. ASSUME NEW i \in 1..Len(batch)
      PROVE  /\ A[i].start \in Nat /\ A[i].end \in Nat /\ A[i].delay \in Nat
             /\ now <= A[i].start /\ A[i].start < A[i].end
  <2>1. batch[i].output_delay \in Nat /\ batch[i].duration \in Nat \ {0} /\ batch[i].discriminator_delay \in Nat
    BY <1>0 DEF EventSpec
  <2>2. now \in Nat
    BY DEF TimeInv
  <2> DEFINE d == batch[i].output_delay
             l == batch[i].duration
  <2>3. A[i].start = now + d /\ A[i].end = now + d + l /\ A[i].delay = batch[i].discriminator_delay
    BY <1>4
  <2> HIDE DEF d, l
  <2>4. now + d \in Nat /\ now + d + l \in Nat /\ now <= now + d /\ now + d < now + d + l
    BY <2>1, <2>2, SMTT(30) DEF d, l
  <2> QED BY <2>1, <2>3, <2>4
<1>7. ResolvedAs(A, batch, core)
  BY <1>3, <1>4, <1>5, <1>6 DEF ResolvedAs
<1> QED BY <1>7 DEF A

\* The actions of a batch.
Elements(A) == {A[i] : i \in 1..Len(A)}

\* Resolving keeps the kinds of the events of a batch.
LEMMA SameKinds ==
  ASSUME NEW A, NEW batch, NEW core, ResolvedAs(A, batch, core)
  PROVE  /\ Acquisitions(A) = Acquisitions(batch) /\ Arms(A) = Arms(batch)
         /\ Acquisitions(A) \cup Arms(A) = ReadoutsIn(batch)
         /\ \A i \in 1..Len(batch) : IsReadout(A[i]) <=> i \in ReadoutsIn(batch)
         /\ Len(A) = Len(batch)
BY DEF ResolvedAs, Acquisitions, Arms, ReadoutsIn, IsReadout

\* The reference of the readout event at position i: measurement m of target q.
ReferenceIs(A, batch, core, i, m, q) ==
  /\ m \in Nat \ {0}
  /\ m = next_id[core].measurement + AcquiredBefore(batch, batch[i])
  /\ next_id[core].measurement <= m
  /\ m < next_id[core].measurement + Cardinality(Acquisitions(batch))
  /\ A[i].targets = {q} /\ batch[i].targets = {q}
  /\ MeasurementOf(A[i]) = GlobalId(m, core)
  /\ A[i].reference = <<[epoch |-> epoch, measurement |-> GlobalId(m, core), target |-> q]>>

\* Every resolved readout event has a reference of that form.
LEMMA ReferenceOf ==
  ASSUME TimeInv, NEW core \in Cores, NEW batch \in Batches[core], NEW A, ResolvedAs(A, batch, core),
         NEW i \in ReadoutsIn(batch)
  PROVE  \E m, q : ReferenceIs(A, batch, core, i, m, q)
<1> DEFINE r == AcquiredBefore(batch, batch[i])
           c == Cardinality(Acquisitions(batch))
           n == next_id[core].measurement
           m == n + r
<1>1. i \in 1..Len(batch) /\ batch[i].kind \in {"Acquire", "Arm"}
  BY DEF ReadoutsIn
<1>2. r \in 0..(c - 1) /\ c \in Nat
  BY Numbering
<1>3. n \in Nat \ {0}
  BY DEF TimeInv
<1>4. PICK q \in batch[i].targets : batch[i].targets = {q}
  BY <1>1, BatchOk DEF WellFormed
<1>5. A[i].targets = {q} /\ q = CHOOSE x \in batch[i].targets : TRUE
  BY <1>1, <1>4 DEF ResolvedAs
<1>6. A[i].reference = <<[epoch |-> epoch, measurement |-> GlobalId(m, core), target |-> q]>>
  BY <1>1, <1>5 DEF ResolvedAs, IsReadout
<1>7. MeasurementOf(A[i]) = GlobalId(m, core)
  BY <1>6 DEF MeasurementOf
<1>8. n <= m /\ m < n + c /\ m \in Nat \ {0}
  <2> HIDE DEF r, c, n
  <2> QED BY <1>2, <1>3
<1>9. ReferenceIs(A, batch, core, i, m, q)
  BY <1>4, <1>5, <1>6, <1>7, <1>8 DEF ReferenceIs
<1> QED BY <1>9

\* Two readout events of a batch share a reference exactly if they belong to
\* the same codeword and target.
LEMMA SameMeasurement ==
  ASSUME TimeInv, NEW core \in Cores, NEW batch \in Batches[core], NEW A, ResolvedAs(A, batch, core),
         NEW i \in ReadoutsIn(batch), NEW j \in ReadoutsIn(batch)
  PROVE  /\ MeasurementOf(A[i]) = MeasurementOf(A[j]) <=> SameReadout(batch[i], batch[j])
         /\ A[i].reference = A[j].reference <=> SameReadout(batch[i], batch[j])
<1> DEFINE n == next_id[core].measurement
           r(k) == AcquiredBefore(batch, batch[k])
<1>0. n \in Nat \ {0} /\ r(i) \in Nat /\ r(j) \in Nat
  BY Numbering DEF TimeInv
<1>1. PICK m, q : ReferenceIs(A, batch, core, i, m, q)
  BY ReferenceOf
<1>2. PICK l, p : ReferenceIs(A, batch, core, j, l, p)
  BY ReferenceOf
<1>3. m = l <=> r(i) = r(j)
  <2>1. m = n + r(i) /\ l = n + r(j)
    BY <1>1, <1>2 DEF ReferenceIs
  <2> HIDE DEF n, r
  <2> QED BY <1>0, <2>1
<1>4. r(i) = r(j) <=> SameReadout(batch[i], batch[j])
  BY Numbering
<1>5. MeasurementOf(A[i]) = MeasurementOf(A[j]) <=> m = l
  BY <1>1, <1>2, GlobalIdInjective DEF ReferenceIs
<1>6. SameReadout(batch[i], batch[j]) => p = q
  BY <1>1, <1>2 DEF SameReadout, ReferenceIs
<1>7. A[i].reference = A[j].reference => MeasurementOf(A[i]) = MeasurementOf(A[j])
  BY DEF MeasurementOf
<1>8. m = l /\ p = q => A[i].reference = A[j].reference
  BY <1>1, <1>2 DEF ReferenceIs
<1> QED BY <1>3, <1>4, <1>5, <1>6, <1>7, <1>8

\* A batch brings identities of actions and measurements that no accepted
\* action has.
LEMMA NewIds ==
  ASSUME TimeInv, NEW core \in Cores, NEW batch \in Batches[core], NEW A, ResolvedAs(A, batch, core),
         NEW i \in 1..Len(A)
  PROVE  /\ \A j \in 1..Len(A) : A[i].id = A[j].id => i = j
         /\ \A a \in accepted : ActionOk(a) => a.id # A[i].id
         /\ \A a \in accepted : ActionOk(a) /\ IsReadout(a) /\ IsReadout(A[i]) =>
              MeasurementOf(a) # MeasurementOf(A[i])
<1> DEFINE e == next_id[core].event
           n == next_id[core].measurement
<1>0. e \in Nat \ {0} /\ n \in Nat \ {0} /\ Len(A) = Len(batch) /\ Len(batch) \in Nat
      /\ \A c \in Cores : next_id[c].event \in Nat \ {0} /\ next_id[c].measurement \in Nat \ {0}
  BY BatchOk DEF TimeInv, ResolvedAs
<1>1. ASSUME NEW j \in 1..Len(A)
      PROVE  A[j].id = GlobalId(e + j - 1, core) /\ e + j - 1 \in Nat \ {0}
  <2>1. A[j].id = GlobalId(e + j - 1, core)
    BY <1>0 DEF ResolvedAs
  <2> HIDE DEF e
  <2>2. e + j - 1 \in Nat \ {0}
    BY <1>0
  <2> QED BY <2>1, <2>2
<1>2. ASSUME NEW j \in 1..Len(A), A[i].id = A[j].id PROVE i = j
  <2>1. e + i - 1 = e + j - 1
    BY <1>1, <1>2, GlobalIdInjective
  <2> QED BY <1>0, <2>1
<1>3. ASSUME NEW a \in accepted, ActionOk(a), a.id = A[i].id PROVE FALSE
  <2>1. PICK k \in 1..(next_id[a.core].event - 1) : a.id = GlobalId(k, a.core)
    BY <1>3 DEF ActionOk
  <2>2. a.core \in Cores
    BY <1>3 DEF ActionOk
  <2>3. k \in Nat \ {0} /\ k < next_id[a.core].event
    BY <1>0, <2>1, <2>2
  <2>4. k = e + i - 1 /\ a.core = core
    BY <1>1, <1>3, <2>1, <2>2, <2>3, GlobalIdInjective, ZenonT(30)
  <2> QED BY <1>0, <2>3, <2>4
<1>4. ASSUME NEW a \in accepted, ActionOk(a), IsReadout(a), IsReadout(A[i]),
             MeasurementOf(a) = MeasurementOf(A[i])
      PROVE  FALSE
  <2>1. a.core \in Cores
    BY <1>4 DEF ActionOk
  <2>2. PICK k \in 1..(next_id[a.core].measurement - 1) : MeasurementOf(a) = GlobalId(k, a.core)
    <3>1. PICK k \in 1..(next_id[a.core].measurement - 1) : \E q \in a.targets :
            a.reference = <<[epoch |-> epoch, measurement |-> GlobalId(k, a.core), target |-> q]>>
      BY <1>4 DEF ActionOk
    <3> QED BY <3>1 DEF MeasurementOf
  <2>3. k \in Nat \ {0} /\ k < next_id[a.core].measurement
    BY <1>0, <2>1, <2>2
  <2>4. i \in ReadoutsIn(batch)
    BY <1>0, <1>4, SameKinds
  <2>9. PICK m, q : ReferenceIs(A, batch, core, i, m, q)
    BY <2>4, ReferenceOf
  <2>5. m \in Nat \ {0} /\ n <= m /\ MeasurementOf(A[i]) = GlobalId(m, core)
    BY <2>9 DEF ReferenceIs
  <2>6. k = m /\ a.core = core
    BY <1>4, <2>1, <2>2, <2>3, <2>5, GlobalIdInjective
  <2> QED BY <1>0, <2>3, <2>5, <2>6
<1> QED BY <1>2, <1>3, <1>4

\* The acquisitions and arms that readouts.prepare collects for a measurement
\* are those of its codeword and target.
LEMMA MembersAre ==
  ASSUME TimeInv, NEW core \in Cores, NEW batch \in Batches[core], NEW A, ResolvedAs(A, batch, core),
         NEW i \in ReadoutsIn(batch), NEW kind \in {"Acquire", "Arm"}
  PROVE  Members(A, kind, A[i].reference[1].measurement) = ReadoutMembers(batch, kind, batch[i])
<1>1. Len(A) = Len(batch) /\ \A j \in 1..Len(batch) : A[j].kind = batch[j].kind
  BY DEF ResolvedAs
<1>2. ASSUME NEW j \in 1..Len(batch), batch[j].kind = kind
      PROVE  MeasurementOf(A[j]) = MeasurementOf(A[i]) <=> SameReadout(batch[j], batch[i])
  <2>1. j \in ReadoutsIn(batch)
    BY <1>2 DEF ReadoutsIn
  <2> QED BY <2>1, SameMeasurement
<1>3. \A j \in 1..Len(batch) : j \in Members(A, kind, MeasurementOf(A[i])) <=> j \in ReadoutMembers(batch, kind, batch[i])
  BY <1>1, <1>2 DEF Members, ReadoutMembers, MeasurementOf
<1>4. Members(A, kind, MeasurementOf(A[i])) \subseteq 1..Len(batch) /\ ReadoutMembers(batch, kind, batch[i]) \subseteq 1..Len(batch)
  BY <1>1 DEF Members, ReadoutMembers
<1> QED BY <1>3, <1>4 DEF MeasurementOf

\* So readouts.prepare never refuses a batch of a valid profile (readout.cpp).
LEMMA PrepareNone ==
  ASSUME TimeInv, ActionInv, ReadoutInv,
         NEW core \in Cores, NEW batch \in Batches[core], NEW A, ResolvedAs(A, batch, core)
  PROVE  PrepareFault(readouts, A, epoch) = "None"
<1>0. /\ Acquisitions(A) = Acquisitions(batch) /\ Arms(A) = Arms(batch)
      /\ Acquisitions(A) \cup Arms(A) = ReadoutsIn(batch)
      /\ Len(A) = Len(batch)
      /\ Acquisitions(batch) \subseteq ReadoutsIn(batch) /\ Arms(batch) \subseteq ReadoutsIn(batch)
      /\ ReadoutsIn(batch) \subseteq 1..Len(batch)
      /\ \A i \in ReadoutsIn(batch) : IsReadout(A[i])
  BY SameKinds DEF Acquisitions, Arms, ReadoutsIn
<1>1. ASSUME NEW i \in ReadoutsIn(batch)
      PROVE  /\ A[i].reference # <<>>
             /\ A[i].reference[1].epoch = epoch
             /\ A[i].targets = {A[i].reference[1].target}
  <2>1. PICK m, q : ReferenceIs(A, batch, core, i, m, q)
    BY ReferenceOf
  <2> QED BY <2>1 DEF ReferenceIs
<1>2. ASSUME NEW i \in ReadoutsIn(batch), NEW j \in ReadoutsIn(batch),
             A[i].reference[1].measurement = A[j].reference[1].measurement
      PROVE  A[i].reference = A[j].reference
  BY <1>2, SameMeasurement DEF MeasurementOf
<1>3. ASSUME NEW i \in ReadoutsIn(batch)
      PROVE  \E k \in 1..Len(batch) :
               /\ ReadoutMembers(batch, "Acquire", batch[i]) = {k}
               /\ IF batch[k].separate_arm
                    THEN \E m \in 1..Len(batch) : ReadoutMembers(batch, "Arm", batch[i]) = {m}
                    ELSE ReadoutMembers(batch, "Arm", batch[i]) = {}
  BY BatchOk DEF WellFormed, ReadoutsIn
<1>4. ASSUME NEW i \in Acquisitions(A)
      PROVE  /\ Cardinality(Members(A, "Acquire", A[i].reference[1].measurement)) = 1
             /\ A[i].reference[1].measurement \notin DOMAIN readouts
             /\ Cardinality(Members(A, "Arm", A[i].reference[1].measurement))
                  = IF A[i].separate_arm THEN 1 ELSE 0
  <2>1. i \in ReadoutsIn(batch) /\ i \in 1..Len(batch) /\ batch[i].kind = "Acquire"
    BY <1>0 DEF Acquisitions
  <2>2. PICK k \in 1..Len(batch) :
               /\ ReadoutMembers(batch, "Acquire", batch[i]) = {k}
               /\ IF batch[k].separate_arm
                    THEN \E m \in 1..Len(batch) : ReadoutMembers(batch, "Arm", batch[i]) = {m}
                    ELSE ReadoutMembers(batch, "Arm", batch[i]) = {}
    BY <1>3, <2>1
  <2>3. k = i
    <3>1. i \in ReadoutMembers(batch, "Acquire", batch[i])
      BY <2>1 DEF ReadoutMembers, SameReadout
    <3> QED BY <2>2, <3>1
  <2>4. A[i].separate_arm = batch[i].separate_arm
    BY <2>1 DEF ResolvedAs
  <2>5. A[i].reference[1].measurement \notin DOMAIN readouts
    <3>1. \A a \in Acquired : MeasurementOf(a) # MeasurementOf(A[i])
      BY <1>0, <2>1, NewIds DEF Acquired, AcquiredIn, ActionInv, IsReadout
    <3> QED BY <3>1 DEF ReadoutInv, MeasurementOf
  <2>6. /\ Members(A, "Acquire", A[i].reference[1].measurement) = ReadoutMembers(batch, "Acquire", batch[i])
        /\ Members(A, "Arm", A[i].reference[1].measurement) = ReadoutMembers(batch, "Arm", batch[i])
    BY <2>1, MembersAre
  <2>7. Cardinality({i}) = 1 /\ Cardinality({}) = 0 /\ \A m \in 1..Len(batch) : Cardinality({m}) = 1
    BY FS_Singleton, FS_EmptySet
  <2> QED BY <2>2, <2>3, <2>4, <2>5, <2>6, <2>7
<1>5. ASSUME NEW i \in Arms(A) PROVE Members(A, "Acquire", A[i].reference[1].measurement) # {}
  <2>1. i \in ReadoutsIn(batch)
    BY <1>0
  <2> QED BY <1>3, <2>1, MembersAre
<1> QED BY <1>0, <1>1, <1>2, <1>4, <1>5 DEF PrepareFault

-----------------------------------------------------------------------------
(* Launches: the checks.                                                   *)

\* What the check of a pair of actions may answer.
LEMMA PairFaultKinds ==
  ASSUME NEW a, NEW b
  PROVE  PairFault(a, b) \in {"ResourceConflict", "GateInputMismatch", "None"}
BY DEF PairFault

\* The check of a pair of actions does not depend on their order.
LEMMA PairSymmetric ==
  ASSUME NEW a, NEW b, PairFault(a, b) = "None"
  PROVE  PairFault(b, a) = "None"
<1>1. Overlap(a, b) <=> Overlap(b, a)
  BY DEF Overlap
<1>2. SameGate(a, b) <=> SameGate(b, a)
  BY DEF SameGate
<1>3. Contended(a, b) <=> Contended(b, a)
  BY DEF Contended
<1>4. CommonTarget(a, b) <=> CommonTarget(b, a)
  BY DEF CommonTarget
<1>5. Incompatible(a, b) <=> Incompatible(b, a)
  BY <1>4 DEF Incompatible
<1>6. SampleMeetsGate(a, b) <=> SampleMeetsGate(b, a)
  BY <1>4 DEF SampleMeetsGate
<1> QED BY <1>1, <1>2, <1>3, <1>5, <1>6 DEF PairFault

\* An action that ended before another starts is compatible with it, so that
\* discard_before forgets no reservation that matters (resources.cpp).
LEMMA PairLater ==
  ASSUME NEW a, NEW b, a.start \in Nat, a.end \in Nat, b.start \in Nat, b.end \in Nat,
         a.start < a.end, b.start < b.end, b.end < a.start
  PROVE  PairFault(a, b) = "None"
<1>1. ~Overlap(a, b)
  BY DEF Overlap
<1>2. ~SampleMeetsGate(a, b)
  BY DEF SampleMeetsGate
<1> QED BY <1>1, <1>2 DEF PairFault

\* A batch that passes the reservation check is compatible with every
\* reservation and within itself.
LEMMA CheckPassed ==
  ASSUME NEW R, NEW A, Len(A) \in Nat, CheckFault(R, A) = "None"
  PROVE  /\ \A i \in 1..Len(A) : \A old \in R : PairFault(A[i], old) = "None"
         /\ \A i, j \in 1..Len(A) : i # j => PairFault(A[i], A[j]) = "None"
<1> DEFINE I == 1..Len(A)
           old == {PairFault(A[i], o) : i \in I, o \in R}
           pairs == {PairFault(A[x[1]], A[x[2]]) : x \in {y \in I \X I : y[2] < y[1]}}
<1>1. "ResourceConflict" \notin old \cup pairs /\ "GateInputMismatch" \notin old \cup pairs
  BY DEF CheckFault
<1>2. ASSUME NEW i \in I, NEW o \in R PROVE PairFault(A[i], o) = "None"
  <2>1. PairFault(A[i], o) \in old
    OBVIOUS
  <2> HIDE DEF old, pairs
  <2> QED BY <1>1, <2>1, PairFaultKinds
<1>3. ASSUME NEW i \in I, NEW j \in I, j < i PROVE PairFault(A[i], A[j]) = "None"
  <2>1. PairFault(A[i], A[j]) \in pairs
    <3> DEFINE z == <<i, j>>
    <3>1. z \in {y \in I \X I : y[2] < y[1]} /\ z[1] = i /\ z[2] = j
      BY <1>3
    <3> HIDE DEF z
    <3> QED BY <3>1
  <2> HIDE DEF old, pairs
  <2> QED BY <1>1, <2>1, PairFaultKinds
<1>4. ASSUME NEW i \in I, NEW j \in I, i # j PROVE PairFault(A[i], A[j]) = "None"
  <2>1. CASE j < i
    BY <1>3, <2>1
  <2>2. CASE i < j
    BY <1>3, <2>2, PairSymmetric
  <2> QED BY <1>4, <2>1, <2>2
<1> QED BY <1>2, <1>4

\* The tick of a launch has not been processed.
LEMMA LaunchOpen ==
  ASSUME TimeInv, OnEdge, NEW core \in Cores, core \notin launched
  PROVE  processed_tick # <<>> => processed_tick[1] \in Nat /\ processed_tick[1] < now
<1> SUFFICES ASSUME processed_tick # <<>> PROVE processed_tick[1] \in Nat /\ processed_tick[1] < now
  OBVIOUS
<1>1. PICK p \in 0..last_tick : processed_tick = <<p>> /\ (p = now => EdgeRan)
  BY DEF TimeInv
<1>2. p # now
  BY <1>1 DEF EdgeRan
<1>3. last_tick \in Nat /\ now \in Nat /\ last_tick <= now /\ processed_tick[1] = p
  BY <1>1 DEF TimeInv
<1> QED BY <1>2, <1>3

\* A launch is refused only for a resource conflict or a wrong gate input.
LEMMA LaunchFaultKinds ==
  ASSUME TimeInv, ActionInv, ActiveInv, ReadoutInv, OnEdge,
         NEW core \in Cores, core \notin launched,
         NEW batch \in Batches[core], NEW A, ResolvedAs(A, batch, core)
  PROVE  LaunchFault(A) \in {"GateInputMismatch", "ResourceConflict", "None"}
<1>1. PrepareFault(readouts, A, epoch) = "None"
  BY PrepareNone
<1>2. ~(processed_tick # <<>> /\ now <= processed_tick[1])
  <2>1. now \in Nat
    BY DEF TimeInv
  <2> QED BY <2>1, LaunchOpen
<1>3. CheckFault(reservations, A) \in {"GateInputMismatch", "ResourceConflict", "None"}
  <2>1. ~\E i, j \in 1..Len(A) : i # j /\ A[i].id = A[j].id
    BY NewIds
  <2>2. ~\E i \in 1..Len(A), old \in reservations : A[i].id = old.id
    BY NewIds DEF ActionInv, ActiveInv
  <2> QED BY <2>1, <2>2 DEF CheckFault
<1> QED BY <1>1, <1>2, <1>3 DEF LaunchFault

\* What an accepted launch does.
AcceptBatch(core, batch, A) ==
  LET new == {ReadoutOf(A[i], A) : i \in Acquisitions(A)}
  IN  /\ reservations' = ReserveActions(reservations, A)
      /\ readouts' = Insert(readouts, new)
      /\ boundaries' = BoundariesWith(A, new)
      /\ next_id' = [next_id EXCEPT
              ![core].event = @ + Len(batch),
              ![core].measurement = @ + Cardinality(Acquisitions(batch))]
      /\ accepted' = accepted \cup Elements(A)
      /\ launched' = launched \cup {core}
      /\ UNCHANGED <<fault, active, last_tick, processed_tick, backend, now, epoch, stopped, summary,
                     origin, sampled, delivered>>

\* An accepted launch moves no clock and only uses up identities.
LEMMA AcceptKeepsTime ==
  ASSUME TimeInv, OnEdge, NEW core \in Cores, core \notin launched, NEW batch \in Batches[core], NEW A,
         ResolvedAs(A, batch, core), AcceptBatch(core, batch, A)
  PROVE  /\ TimeInv'
         /\ \A c \in Cores : /\ next_id[c].event <= next_id'[c].event
                             /\ next_id[c].measurement <= next_id'[c].measurement
         /\ next_id'[core].event = next_id[core].event + Len(batch)
         /\ next_id'[core].measurement = next_id[core].measurement + Cardinality(Acquisitions(batch))
<1>0. Len(batch) \in Nat /\ Cardinality(Acquisitions(batch)) \in Nat
  <2>1. IsFiniteSet(1..Len(batch)) /\ Acquisitions(batch) \subseteq 1..Len(batch)
    BY BatchOk, FS_Interval DEF Acquisitions
  <2> QED BY <2>1, BatchOk, FS_Subset, FS_CardinalityType
<1>1. next_id \in [Cores -> [event : Nat \ {0}, measurement : Nat \ {0}]]
  BY DEF TimeInv
<1>2. /\ next_id' \in [Cores -> [event : Nat \ {0}, measurement : Nat \ {0}]]
      /\ \A c \in Cores : c # core => next_id'[c] = next_id[c]
      /\ next_id'[core].event = next_id[core].event + Len(batch)
      /\ next_id'[core].measurement = next_id[core].measurement + Cardinality(Acquisitions(batch))
  <2> DEFINE l == Len(batch)
             k == Cardinality(Acquisitions(batch))
  <2>0. next_id' = [next_id EXCEPT ![core].event = @ + l, ![core].measurement = @ + k]
    BY DEF AcceptBatch
  <2> HIDE DEF l, k
  <2>2. l \in Nat /\ k \in Nat
    BY <1>0 DEF l, k
  <2>3. next_id[core] \in [event : Nat \ {0}, measurement : Nat \ {0}]
    BY <1>1
  <2> DEFINE n == [next_id EXCEPT ![core].event = @ + l]
  <2>a. n[core] = [event |-> next_id[core].event + l, measurement |-> next_id[core].measurement]
        /\ DOMAIN n = Cores /\ \A c \in Cores : c # core => n[c] = next_id[c]
    BY <1>1, <2>3
  <2>b. next_id' = [n EXCEPT ![core].measurement = @ + k]
    BY <2>0
  <2> HIDE DEF n
  <2>1. /\ next_id'[core] = [n[core] EXCEPT !.measurement = @ + k]
        /\ DOMAIN next_id' = Cores /\ \A c \in Cores : c # core => next_id'[c] = n[c]
        /\ next_id' = [c \in Cores |-> next_id'[c]]
    BY <2>a, <2>b
  <2>4. next_id'[core] = [event |-> next_id[core].event + l, measurement |-> next_id[core].measurement + k]
    BY <2>a, <2>1
  <2>5. \A c \in Cores : c # core => next_id'[c] = next_id[c]
    BY <2>a, <2>1
  <2>6. next_id' = [c \in Cores |-> next_id'[c]]
    BY <2>1
  <2>7. next_id'[core] \in [event : Nat \ {0}, measurement : Nat \ {0}]
    BY <2>2, <2>3, <2>4
  <2>8. \A c \in Cores : next_id'[c] \in [event : Nat \ {0}, measurement : Nat \ {0}]
    BY <1>1, <2>5, <2>7
  <2> QED BY <2>4, <2>5, <2>6, <2>8 DEF l, k
<1>3. \A c \in Cores : /\ next_id[c].event <= next_id'[c].event
                       /\ next_id[c].measurement <= next_id'[c].measurement
  <2> SUFFICES ASSUME NEW c \in Cores
               PROVE  /\ next_id[c].event <= next_id'[c].event
                      /\ next_id[c].measurement <= next_id'[c].measurement
    OBVIOUS
  <2>1. next_id[c].event \in Nat /\ next_id[c].measurement \in Nat
    BY <1>1
  <2> QED BY <1>0, <1>2, <2>1
<1>4. /\ now' = now /\ last_tick' = last_tick /\ origin' = origin /\ epoch' = epoch
      /\ processed_tick' = processed_tick /\ stopped' = stopped
  BY DEF AcceptBatch
<1>5. ~EdgeRan
  BY DEF EdgeRan
<1>6. TimeInv'
  BY <1>2, <1>4, <1>5 DEF TimeInv
<1> QED BY <1>2, <1>3, <1>6

\* A new action is scheduled from now on, under a new identity.
LEMMA NewActionOk ==
  ASSUME TimeInv, OnEdge, NEW core \in Cores, core \notin launched, NEW batch \in Batches[core], NEW A,
         ResolvedAs(A, batch, core), AcceptBatch(core, batch, A), NEW i \in 1..Len(A)
  PROVE  ActionOk(A[i])'
<1> DEFINE a == A[i]
<1>0. /\ i \in 1..Len(batch) /\ Len(batch) \in Nat
      /\ next_id[core].event \in Nat \ {0} /\ next_id[core].measurement \in Nat \ {0}
      /\ now' = now /\ origin' = origin /\ epoch' = epoch
      /\ now \in Nat /\ origin \in Nat /\ origin <= last_tick /\ last_tick <= now /\ last_tick \in Nat
  BY BatchOk DEF TimeInv, ResolvedAs, AcceptBatch
<1>1. /\ a.start \in Nat /\ a.end \in Nat /\ a.delay \in Nat
      /\ now <= a.start /\ a.start < a.end
      /\ a.epoch = epoch /\ a.core = core
      /\ a.id = GlobalId(next_id[core].event + i - 1, core)
  BY <1>0 DEF ResolvedAs
<1>2. next_id'[core].event = next_id[core].event + Len(batch)
      /\ next_id'[core].measurement = next_id[core].measurement + Cardinality(Acquisitions(batch))
  BY AcceptKeepsTime
<1>3. \E k \in 1..(next_id'[a.core].event - 1) : a.id = GlobalId(k, a.core)
  <2> DEFINE e == next_id[core].event
             k == e + i - 1
             top == e + Len(batch) - 1
  <2>1. k \in 1..top
    BY <1>0
  <2>2. next_id'[a.core].event - 1 = top
    <3>1. a.core = core
      BY <1>1
    <3>2. next_id'[core].event - 1 = top
      BY <1>0, <1>2
    <3> QED BY <3>1, <3>2, Zenon
  <2>3. a.id = GlobalId(k, a.core)
    BY <1>1
  <2> HIDE DEF k, top
  <2>4. \E x \in 1..top : a.id = GlobalId(x, a.core)
    BY <2>1, <2>3
  <2> QED BY <2>2, <2>4
<1>4. ASSUME IsReadout(a)
      PROVE  \E m \in 1..(next_id'[a.core].measurement - 1) : \E q \in a.targets :
               /\ a.targets = {q}
               /\ a.reference = <<[epoch |-> epoch, measurement |-> GlobalId(m, a.core), target |-> q]>>
  <2>1. i \in ReadoutsIn(batch)
    BY <1>0, <1>4, SameKinds
  <2>2. PICK m, q : ReferenceIs(A, batch, core, i, m, q)
    BY <2>1, ReferenceOf
  <2>3. Cardinality(Acquisitions(batch)) \in Nat
    BY <2>1, Numbering
  <2>4. m \in 1..(next_id'[a.core].measurement - 1)
    BY <1>0, <1>1, <1>2, <2>2, <2>3, SMTT(30) DEF ReferenceIs
  <2>5. /\ q \in a.targets /\ a.targets = {q}
        /\ a.reference = <<[epoch |-> epoch, measurement |-> GlobalId(m, a.core), target |-> q]>>
    BY <1>1, <2>2 DEF ReferenceIs
  <2> HIDE DEF a
  <2> QED BY <2>4, <2>5
<1>5. origin <= a.start
  BY <1>0, <1>1
<1> HIDE DEF a
<1>6. ActionOk(a)'
  BY <1>0, <1>1, <1>3, <1>4, <1>5 DEF ActionOk, GlobalId, IsReadout
<1> QED BY <1>6 DEF a

\* An old action stays as it was.
LEMMA OldActionOk ==
  ASSUME TimeInv, NEW a, ActionOk(a),
         origin' = origin, epoch' = epoch,
         \A c \in Cores : /\ next_id[c].event <= next_id'[c].event
                          /\ next_id[c].measurement <= next_id'[c].measurement,
         TimeInv'
  PROVE  ActionOk(a)'
<1>0. a.core \in Cores
  BY DEF ActionOk
<1>1. /\ next_id[a.core].event \in Nat /\ next_id'[a.core].event \in Nat
      /\ next_id[a.core].measurement \in Nat /\ next_id'[a.core].measurement \in Nat
      /\ next_id[a.core].event <= next_id'[a.core].event
      /\ next_id[a.core].measurement <= next_id'[a.core].measurement
  BY <1>0 DEF TimeInv, Cores
<1>2. \E k \in 1..(next_id'[a.core].event - 1) : a.id = GlobalId(k, a.core)
  <2>1. PICK k \in 1..(next_id[a.core].event - 1) : a.id = GlobalId(k, a.core)
    BY DEF ActionOk
  <2>2. k \in 1..(next_id'[a.core].event - 1)
    BY <1>1
  <2> QED BY <2>1, <2>2
<1>3. ASSUME IsReadout(a)
      PROVE  \E m \in 1..(next_id'[a.core].measurement - 1) : \E q \in a.targets :
               /\ a.targets = {q}
               /\ a.reference = <<[epoch |-> epoch, measurement |-> GlobalId(m, a.core), target |-> q]>>
  <2>1. PICK m \in 1..(next_id[a.core].measurement - 1) : \E q \in a.targets :
               /\ a.targets = {q}
               /\ a.reference = <<[epoch |-> epoch, measurement |-> GlobalId(m, a.core), target |-> q]>>
    BY <1>3 DEF ActionOk
  <2>2. m \in 1..(next_id'[a.core].measurement - 1)
    BY <1>1
  <2> QED BY <2>1, <2>2
<1> QED BY <1>2, <1>3 DEF ActionOk, GlobalId, IsReadout

\* An accepted launch leaves all accepted actions pairwise compatible and
\* their identities distinct.
LEMMA AcceptKeepsActions ==
  ASSUME TimeInv, ActionInv, ActiveInv, OnEdge, NEW core \in Cores, core \notin launched,
         NEW batch \in Batches[core], NEW A,
         ResolvedAs(A, batch, core), LaunchFault(A) = "None", AcceptBatch(core, batch, A)
  PROVE  ActionInv'
<1>0. accepted' = accepted \cup Elements(A) /\ origin' = origin /\ epoch' = epoch
  BY DEF AcceptBatch
<1>1. ASSUME NEW a \in accepted' PROVE ActionOk(a)'
  <2>1. CASE a \in accepted
    <3>1. ActionOk(a)
      BY <2>1 DEF ActionInv
    <3> QED BY <1>0, <3>1, AcceptKeepsTime, OldActionOk
  <2>2. CASE a \in Elements(A)
    BY <2>2, NewActionOk DEF Elements
  <2> QED BY <1>0, <2>1, <2>2
<1>2. \A a \in accepted : ActionOk(a)
  BY DEF ActionInv
<1>3. ASSUME NEW a \in accepted', NEW b \in accepted', a.id = b.id PROVE a = b
  BY <1>0, <1>2, <1>3, NewIds DEF ActionInv, Elements
<1>4. ASSUME NEW a \in Acquired', NEW b \in Acquired', MeasurementOf(a) = MeasurementOf(b) PROVE a = b
  <2>0. a \in accepted' /\ b \in accepted' /\ a.kind = "Acquire" /\ b.kind = "Acquire"
    BY DEF Acquired, AcquiredIn
  <2>1. CASE a \in accepted /\ b \in accepted
    BY <1>4, <2>0, <2>1 DEF ActionInv, Acquired, AcquiredIn
  <2>2. CASE a \in accepted /\ b \in Elements(A)
    BY <1>2, <1>4, <2>0, <2>2, NewIds DEF Elements, IsReadout
  <2>3. CASE b \in accepted /\ a \in Elements(A)
    BY <1>2, <1>4, <2>0, <2>3, NewIds DEF Elements, IsReadout
  <2>4. CASE a \in Elements(A) /\ b \in Elements(A)
    <3>1. PICK i \in 1..Len(A) : a = A[i]
      BY <2>4 DEF Elements
    <3>2. PICK j \in 1..Len(A) : b = A[j]
      BY <2>4 DEF Elements
    <3>3. i \in Acquisitions(batch) /\ j \in Acquisitions(batch) /\ i \in ReadoutsIn(batch) /\ j \in ReadoutsIn(batch)
      BY <2>0, <3>1, <3>2, SameKinds DEF Acquisitions
    <3>4. SameReadout(batch[i], batch[j])
      BY <1>4, <3>1, <3>2, <3>3, SameMeasurement
    <3>5. PICK k \in Acquisitions(batch) : \A l \in Acquisitions(batch) : SameReadout(batch[l], batch[i]) => l = k
      BY <3>3, OneAcquisition
    <3>6. i = j
      BY <3>3, <3>4, <3>5 DEF SameReadout
    <3> QED BY <3>1, <3>2, <3>6
  <2> QED BY <1>0, <2>0, <2>1, <2>2, <2>3, <2>4
<1>5. ASSUME NEW a \in accepted', NEW b \in accepted', a # b PROVE PairFault(a, b) = "None"
  <2>0. CheckFault(reservations, A) = "None" /\ Len(A) \in Nat
    BY BatchOk DEF LaunchFault, ResolvedAs
  <2>1. ASSUME NEW i \in 1..Len(A), NEW o \in accepted PROVE PairFault(A[i], o) = "None"
    <3>1. CASE o \in reservations
      BY <2>0, <3>1, CheckPassed
    <3>2. CASE o \notin reservations
      <4>1. processed_tick # <<>> /\ o.end < processed_tick[1]
        BY <3>2 DEF ActiveInv
      <4>2. processed_tick[1] \in Nat /\ processed_tick[1] < now
        BY <4>1, LaunchOpen
      <4>3. /\ now \in Nat /\ A[i].start \in Nat /\ A[i].end \in Nat
            /\ now <= A[i].start /\ A[i].start < A[i].end
        BY BatchOk DEF ResolvedAs, TimeInv
      <4>4. o.start \in Nat /\ o.end \in Nat /\ o.start < o.end
        BY <1>2 DEF ActionOk
      <4>5. o.end < A[i].start
        BY <4>1, <4>2, <4>3, <4>4
      <4> QED BY <4>3, <4>4, <4>5, PairLater
    <3> QED BY <3>1, <3>2
  <2>2. CASE a \in accepted /\ b \in accepted
    BY <1>5, <2>2 DEF ActionInv
  <2>3. CASE a \in Elements(A) /\ b \in accepted
    BY <2>1, <2>3 DEF Elements
  <2>4. CASE a \in accepted /\ b \in Elements(A)
    BY <2>1, <2>4, PairSymmetric DEF Elements
  <2>5. CASE a \in Elements(A) /\ b \in Elements(A)
    BY <1>5, <2>0, <2>5, CheckPassed DEF Elements
  <2> QED BY <1>0, <2>2, <2>3, <2>4, <2>5
<1>6. \A a, b : PairFault(a, b)' = PairFault(a, b)
  BY DEF PairFault, Overlap, SameGate, Contended, Incompatible, SampleMeetsGate, CommonTarget, IsArm, IsGate
<1>7. \A a : MeasurementOf(a)' = MeasurementOf(a)
  BY DEF MeasurementOf
<1> QED BY <1>1, <1>3, <1>4, <1>5, <1>6, <1>7 DEF ActionInv

\* A result is due at a tick, not before its acquisition ends.
LEMMA DueNat ==
  ASSUME NEW acts, \A x \in acts : x.start \in Nat, NEW a, a.start \in Nat, a.end \in Nat, a.delay \in Nat
  PROVE  ArmOf(acts, a) \in Nat /\ DueOf(acts, a) \in Nat /\ a.end <= DueOf(acts, a)
<1>1. ArmStarts(acts, a) \subseteq Nat
  BY DEF ArmStarts
<1>2. ArmOf(acts, a) \in Nat
  BY <1>1 DEF ArmOf
<1> QED BY <1>2 DEF DueOf

\* A launch does not move the result of an earlier acquisition.
LEMMA DueStable ==
  ASSUME TimeInv, NEW core \in Cores, NEW batch \in Batches[core], NEW A, ResolvedAs(A, batch, core),
         NEW a \in accepted, ActionOk(a), a.kind = "Acquire"
  PROVE  /\ ArmStarts(accepted \cup Elements(A), a) = ArmStarts(accepted, a)
         /\ ArmOf(accepted \cup Elements(A), a) = ArmOf(accepted, a)
         /\ DueOf(accepted \cup Elements(A), a) = DueOf(accepted, a)
<1>1. ASSUME NEW x \in Elements(A), x.kind = "Arm" PROVE x.reference # a.reference
  <2>1. PICK i \in 1..Len(A) : x = A[i]
    BY DEF Elements
  <2>2. MeasurementOf(a) # MeasurementOf(A[i])
    BY <1>1, <2>1, NewIds DEF IsReadout
  <2> QED BY <2>1, <2>2 DEF MeasurementOf
<1>2. ArmStarts(accepted \cup Elements(A), a) = ArmStarts(accepted, a)
  <2> DEFINE arms(S) == {y \in S : y.kind = "Arm" /\ y.reference = a.reference}
  <2>1. arms(accepted \cup Elements(A)) = arms(accepted)
    BY <1>1
  <2> HIDE DEF arms
  <2>2. {x.start : x \in arms(accepted \cup Elements(A))} = {x.start : x \in arms(accepted)}
    BY <2>1
  <2> QED BY <2>2 DEF ArmStarts, arms
<1>3. ArmOf(accepted \cup Elements(A), a) = ArmOf(accepted, a)
  <2> DEFINE first(S) == IF S = {} THEN a.start ELSE CHOOSE t \in S : TRUE
  <2>1. /\ ArmOf(accepted \cup Elements(A), a) = first(ArmStarts(accepted \cup Elements(A), a))
        /\ ArmOf(accepted, a) = first(ArmStarts(accepted, a))
    BY DEF ArmOf
  <2> HIDE DEF first
  <2> QED BY <1>2, <2>1
<1>4. DueOf(accepted \cup Elements(A), a) = DueOf(accepted, a)
  BY <1>3 DEF DueOf
<1> QED BY <1>2, <1>3, <1>4

\* The due tick that readouts.cpp computes from the batch is the one that the
\* accepted actions determine.
LEMMA DueNew ==
  ASSUME TimeInv, ActionInv, NEW core \in Cores, NEW batch \in Batches[core], NEW A, ResolvedAs(A, batch, core),
         NEW i \in Acquisitions(A)
  PROVE  /\ ArmOf(accepted \cup Elements(A), A[i]) = ArmTick(A[i], A)
         /\ DueOf(accepted \cup Elements(A), A[i]) = ReadoutOf(A[i], A).ready
<1>0. /\ Arms(A) = Arms(batch) /\ Acquisitions(A) = Acquisitions(batch) /\ Len(A) = Len(batch)
      /\ i \in ReadoutsIn(batch) /\ i \in 1..Len(batch) /\ batch[i].kind = "Acquire"
      /\ Arms(batch) \subseteq ReadoutsIn(batch) /\ Arms(batch) \subseteq 1..Len(batch)
  BY SameKinds DEF Acquisitions, Arms, ReadoutsIn
<1>1. PICK k \in 1..Len(batch) :
               /\ ReadoutMembers(batch, "Acquire", batch[i]) = {k}
               /\ IF batch[k].separate_arm
                    THEN \E m \in 1..Len(batch) : ReadoutMembers(batch, "Arm", batch[i]) = {m}
                    ELSE ReadoutMembers(batch, "Arm", batch[i]) = {}
  BY <1>0, BatchOk DEF WellFormed
<1>2. k = i
  <2>1. i \in ReadoutMembers(batch, "Acquire", batch[i])
    BY <1>0 DEF ReadoutMembers, SameReadout
  <2> QED BY <1>1, <2>1
<1>3. A[i].separate_arm = batch[i].separate_arm
  BY <1>0 DEF ResolvedAs
<1>4. ASSUME NEW x \in accepted, x.kind = "Arm" PROVE x.reference # A[i].reference
  <2>1. MeasurementOf(x) # MeasurementOf(A[i])
    <3>1. ActionOk(x) /\ IsReadout(x) /\ IsReadout(A[i]) /\ i \in 1..Len(A)
      BY <1>0, <1>4, SameKinds DEF ActionInv, IsReadout
    <3> QED BY <3>1, NewIds
  <2> QED BY <2>1 DEF MeasurementOf
<1>5. ASSUME NEW j \in 1..Len(A)
      PROVE  A[j].kind = "Arm" /\ A[j].reference = A[i].reference
               <=> j \in ReadoutMembers(batch, "Arm", batch[i])
  <2>1. A[j].kind = batch[j].kind
    BY <1>0 DEF ResolvedAs
  <2>2. CASE batch[j].kind = "Arm"
    <3>1. j \in ReadoutsIn(batch)
      BY <1>0, <2>2 DEF ReadoutsIn
    <3>2. A[j].reference = A[i].reference <=> SameReadout(batch[j], batch[i])
      BY <1>0, <3>1, SameMeasurement
    <3> QED BY <1>0, <2>1, <2>2, <3>2 DEF ReadoutMembers
  <2>3. CASE batch[j].kind # "Arm"
    BY <2>1, <2>3 DEF ReadoutMembers
  <2> QED BY <2>2, <2>3
<1> DEFINE arms == {y \in accepted \cup Elements(A) : y.kind = "Arm" /\ y.reference = A[i].reference}
<1>6. arms = {A[j] : j \in ReadoutMembers(batch, "Arm", batch[i])}
  <2>1. ReadoutMembers(batch, "Arm", batch[i]) \subseteq 1..Len(A)
    BY <1>0 DEF ReadoutMembers
  <2>2. ASSUME NEW y \in arms PROVE y \in {A[j] : j \in ReadoutMembers(batch, "Arm", batch[i])}
    <3>1. y \in Elements(A)
      BY <1>4
    <3>2. PICK j \in 1..Len(A) : y = A[j]
      BY <3>1 DEF Elements
    <3> QED BY <1>5, <3>2
  <2>3. ASSUME NEW j \in ReadoutMembers(batch, "Arm", batch[i]) PROVE A[j] \in arms
    <3>1. j \in 1..Len(A)
      BY <2>1
    <3> QED BY <1>5, <3>1 DEF Elements
  <2> HIDE DEF arms
  <2> QED BY <2>2, <2>3
<1>7. ArmStarts(accepted \cup Elements(A), A[i]) = {x.start : x \in arms}
  BY DEF ArmStarts
<1> HIDE DEF arms
<1>8. ArmOf(accepted \cup Elements(A), A[i]) = ArmTick(A[i], A)
  <2>1. CASE A[i].separate_arm
    <3>1. PICK m \in 1..Len(batch) : ReadoutMembers(batch, "Arm", batch[i]) = {m}
      BY <1>1, <1>2, <1>3, <2>1
    <3>2. arms = {A[m]}
      BY <1>6, <3>1
    <3>3. ArmStarts(accepted \cup Elements(A), A[i]) = {A[m].start}
      BY <1>7, <3>2
    <3>4. ArmOf(accepted \cup Elements(A), A[i]) = A[m].start
      BY <3>3 DEF ArmOf
    <3>5. \A j \in Arms(A) : A[j].reference = A[i].reference <=> j = m
      BY <1>0, <1>5, <3>1 DEF Arms
    <3>6. m \in Arms(A)
      BY <1>0, <1>5, <3>1 DEF Arms
    <3>7. ArmTick(A[i], A) = A[m].start
      BY <2>1, <3>5, <3>6 DEF ArmTick
    <3> QED BY <3>4, <3>7
  <2>2. CASE ~A[i].separate_arm
    <3>1. arms = {}
      BY <1>1, <1>2, <1>3, <1>6, <2>2
    <3>2. ArmStarts(accepted \cup Elements(A), A[i]) = {}
      BY <1>7, <3>1
    <3> QED BY <2>2, <3>2 DEF ArmOf, ArmTick
  <2> QED BY <2>1, <2>2
<1> QED BY <1>8 DEF DueOf, ReadoutOf

-----------------------------------------------------------------------------
(* Launches: boundaries, active actions, readouts and deliveries.          *)

\* The part of the boundary of tick t that a batch adds.
NewStarts(A, t) == At(A, {i \in 1..Len(A) : A[i].start = t})
NewEnds(A, t) ==
  LET s == At(A, {i \in 1..Len(A) : A[i].end = t}) IN [i \in 1..Len(s) |-> s[i].id]
NewReady(A, t) ==
  LET s == At(A, {i \in Acquisitions(A) : ReadoutOf(A[i], A).ready = t})
  IN  [i \in 1..Len(s) |-> s[i].reference[1].measurement]

\* A resolved batch lists its actions, each once.
LEMMA ElementsListed ==
  ASSUME TimeInv, NEW core \in Cores, NEW batch \in Batches[core], NEW A, ResolvedAs(A, batch, core)
  PROVE  Lists(A, Elements(A))
<1>1. IsSeq(A)
  BY DEF ResolvedAs
<1>2. ASSUME NEW i \in 1..Len(A), NEW j \in 1..Len(A), A[i] = A[j] PROVE i = j
  BY <1>2, NewIds
<1>3. \A i \in 1..Len(A) : A[i] \in Elements(A)
  BY DEF Elements
<1>4. \A x \in Elements(A) : \E i \in 1..Len(A) : A[i] = x
  BY DEF Elements
<1> QED BY <1>1, <1>2, <1>3, <1>4, ListsIntro

\* What a batch adds to the boundary of t is all that starts, ends and is due
\* at t.
LEMMA NewListed ==
  ASSUME TimeInv, ActionInv, NEW core \in Cores, NEW batch \in Batches[core], NEW A, ResolvedAs(A, batch, core),
         NEW t
  PROVE  /\ Lists(NewStarts(A, t), StartsAt(Elements(A), t))
         /\ Lists(NewEnds(A, t), EndsAt(Elements(A), t))
         /\ Lists(NewReady(A, t), {MeasurementOf(a) : a \in
                {x \in AcquiredIn(Elements(A)) : DueOf(accepted \cup Elements(A), x) = t}})
<1>0. Lists(A, Elements(A))
  BY ElementsListed
<1>1. Lists(NewStarts(A, t), StartsAt(Elements(A), t))
  <2> DEFINE P == {i \in 1..Len(A) : A[i].start = t}
  <2>1. Lists(At(A, P), {A[i] : i \in {j \in 1..Len(A) : j \in P}})
    BY <1>0, AtLists
  <2>2. {A[i] : i \in {j \in 1..Len(A) : j \in P}} = StartsAt(Elements(A), t)
    BY DEF StartsAt, Elements
  <2> QED BY <2>1, <2>2 DEF NewStarts
<1>2. Lists(NewEnds(A, t), EndsAt(Elements(A), t))
  <2> DEFINE P == {i \in 1..Len(A) : A[i].end = t}
             s == At(A, P)
             S == {x \in Elements(A) : x.end = t}
             f == [x \in S |-> x.id]
  <2>1. Lists(s, {A[i] : i \in {j \in 1..Len(A) : j \in P}})
    BY <1>0, AtLists
  <2>2. {A[i] : i \in {j \in 1..Len(A) : j \in P}} = S
    BY DEF Elements
  <2>3. Lists(s, S)
    BY <2>1, <2>2
  <2> HIDE DEF s
  <2>4. \A x, y \in S : f[x] = f[y] => x = y
    BY NewIds DEF Elements
  <2>5. Lists([i \in 1..Len(s) |-> f[s[i]]], {f[x] : x \in S})
    <3> HIDE DEF S, f
    <3> QED BY <2>3, <2>4, ListsMap
  <2>6. [i \in 1..Len(s) |-> f[s[i]]] = [i \in 1..Len(s) |-> s[i].id]
    <3>1. \A i \in 1..Len(s) : s[i] \in S
      <4> HIDE DEF S
      <4> QED BY <2>3, ListsSeq
    <3>2. \A i \in 1..Len(s) : f[s[i]] = s[i].id
      BY <3>1
    <3> HIDE DEF f
    <3> QED BY <3>2
  <2>7. {f[x] : x \in S} = EndsAt(Elements(A), t)
    <3>1. \A x \in S : f[x] = x.id
      OBVIOUS
    <3> QED BY <3>1 DEF EndsAt
  <2>8. NewEnds(A, t) = [i \in 1..Len(s) |-> s[i].id]
    BY DEF NewEnds, s
  <2> QED BY <2>5, <2>6, <2>7, <2>8
<1>3. Lists(NewReady(A, t), {MeasurementOf(a) : a \in
                {x \in AcquiredIn(Elements(A)) : DueOf(accepted \cup Elements(A), x) = t}})
  <2> DEFINE P == {i \in Acquisitions(A) : ReadoutOf(A[i], A).ready = t}
             s == At(A, P)
             S == {x \in AcquiredIn(Elements(A)) : DueOf(accepted \cup Elements(A), x) = t}
             f == [x \in S |-> MeasurementOf(x)]
  <2>1. Lists(s, {A[i] : i \in {j \in 1..Len(A) : j \in P}})
    BY <1>0, AtLists
  <2>2. {A[i] : i \in {j \in 1..Len(A) : j \in P}} = S
    <3>1. ASSUME NEW i \in P PROVE A[i] \in S
      <4>1. i \in Acquisitions(A) /\ i \in 1..Len(A) /\ A[i].kind = "Acquire"
        BY DEF Acquisitions
      <4>2. DueOf(accepted \cup Elements(A), A[i]) = t
        BY <4>1, DueNew
      <4> QED BY <4>1, <4>2 DEF AcquiredIn, Elements
    <3>2. ASSUME NEW x \in S PROVE \E i \in 1..Len(A) : i \in P /\ x = A[i]
      <4>1. PICK i \in 1..Len(A) : x = A[i]
        BY DEF AcquiredIn, Elements
      <4>2. i \in Acquisitions(A)
        BY <4>1 DEF AcquiredIn, Acquisitions
      <4>3. ReadoutOf(A[i], A).ready = t
        BY <4>1, <4>2, DueNew
      <4> QED BY <4>1, <4>2, <4>3
    <3> HIDE DEF S, P
    <3> QED BY <3>1, <3>2
  <2>3. Lists(s, S)
    <3> HIDE DEF S, s
    <3> QED BY <2>1, <2>2
  <2>4. \A x, y \in S : f[x] = f[y] => x = y
    <3> SUFFICES ASSUME NEW x \in S, NEW y \in S, MeasurementOf(x) = MeasurementOf(y) PROVE x = y
      OBVIOUS
    <3>1. PICK i \in 1..Len(A) : x = A[i] /\ A[i].kind = "Acquire"
      BY DEF AcquiredIn, Elements
    <3>2. PICK j \in 1..Len(A) : y = A[j] /\ A[j].kind = "Acquire"
      BY DEF AcquiredIn, Elements
    <3>3. i \in Acquisitions(batch) /\ j \in Acquisitions(batch) /\ i \in ReadoutsIn(batch) /\ j \in ReadoutsIn(batch)
      BY <3>1, <3>2, SameKinds DEF Acquisitions
    <3>4. SameReadout(batch[i], batch[j])
      BY <3>1, <3>2, <3>3, SameMeasurement
    <3>5. PICK k \in Acquisitions(batch) : \A l \in Acquisitions(batch) : SameReadout(batch[l], batch[i]) => l = k
      BY <3>3, OneAcquisition
    <3>6. i = j
      BY <3>3, <3>4, <3>5 DEF SameReadout
    <3> QED BY <3>1, <3>2, <3>6
  <2> HIDE DEF s
  <2>5. Lists([i \in 1..Len(s) |-> f[s[i]]], {f[x] : x \in S})
    <3> HIDE DEF S, f
    <3> QED BY <2>3, <2>4, ListsMap
  <2>6. [i \in 1..Len(s) |-> f[s[i]]] = [i \in 1..Len(s) |-> s[i].reference[1].measurement]
    <3>1. \A i \in 1..Len(s) : s[i] \in S
      <4> HIDE DEF S
      <4> QED BY <2>3, ListsSeq
    <3>2. \A i \in 1..Len(s) : f[s[i]] = s[i].reference[1].measurement
      BY <3>1 DEF MeasurementOf
    <3> HIDE DEF f
    <3> QED BY <3>2
  <2>7. {f[x] : x \in S} = {MeasurementOf(x) : x \in S}
    <3>1. \A x \in S : f[x] = MeasurementOf(x)
      OBVIOUS
    <3> HIDE DEF f, S
    <3> QED BY <3>1
  <2>8. NewReady(A, t) = [i \in 1..Len(s) |-> s[i].reference[1].measurement]
    BY DEF NewReady, s
  <2> QED BY <2>5, <2>6, <2>7, <2>8
<1> QED BY <1>1, <1>2, <1>3

\* A batch extends each boundary by what starts, ends and is due then.
LEMMA CompleteWith ==
  ASSUME TimeInv, ActionInv, NEW core \in Cores, NEW batch \in Batches[core], NEW A, ResolvedAs(A, batch, core),
         NEW t, NEW b, Complete(b, accepted, t), NEW c,
         c.starts = b.starts \o NewStarts(A, t),
         c.ends = b.ends \o NewEnds(A, t),
         c.ready = b.ready \o NewReady(A, t)
  PROVE  Complete(c, accepted \cup Elements(A), t)
<1> DEFINE E == Elements(A)
           R == {MeasurementOf(a) : a \in {x \in AcquiredIn(E) : DueOf(accepted \cup E, x) = t}}
<1>0. \A a \in accepted : ActionOk(a)
  BY DEF ActionInv
<1>1. Lists(NewStarts(A, t), StartsAt(E, t)) /\ Lists(NewEnds(A, t), EndsAt(E, t)) /\ Lists(NewReady(A, t), R)
  BY NewListed
<1>2. Lists(b.starts, StartsAt(accepted, t)) /\ Lists(b.ends, EndsAt(accepted, t)) /\ Lists(b.ready, ReadyAt(accepted, t))
  BY DEF Complete
<1>3. ASSUME NEW a \in accepted, NEW x \in E PROVE a.id # x.id /\ a # x
  BY <1>0, NewIds DEF Elements
<1>4. StartsAt(accepted, t) \cap StartsAt(E, t) = {}
      /\ StartsAt(accepted \cup E, t) = StartsAt(accepted, t) \cup StartsAt(E, t)
  BY <1>3 DEF StartsAt
<1>5. EndsAt(accepted, t) \cap EndsAt(E, t) = {}
      /\ EndsAt(accepted \cup E, t) = EndsAt(accepted, t) \cup EndsAt(E, t)
  BY <1>3 DEF EndsAt
<1>6. ReadyAt(accepted, t) \cap R = {} /\ ReadyAt(accepted \cup E, t) = ReadyAt(accepted, t) \cup R
  <2>1. ASSUME NEW a \in AcquiredIn(accepted), NEW x \in AcquiredIn(E) PROVE MeasurementOf(a) # MeasurementOf(x)
    BY <1>0, NewIds DEF Elements, AcquiredIn, IsReadout
  <2>2. \A a \in AcquiredIn(accepted) : DueOf(accepted \cup E, a) = DueOf(accepted, a)
    BY <1>0, DueStable DEF AcquiredIn
  <2>3. AcquiredIn(accepted \cup E) = AcquiredIn(accepted) \cup AcquiredIn(E)
    BY DEF AcquiredIn
  <2> DEFINE X == {x \in AcquiredIn(accepted) : DueOf(accepted, x) = t}
             Y == {x \in AcquiredIn(E) : DueOf(accepted \cup E, x) = t}
             Z == {x \in AcquiredIn(accepted \cup E) : DueOf(accepted \cup E, x) = t}
  <2>4. Z = X \cup Y
    BY <2>2, <2>3
  <2>5. X \subseteq AcquiredIn(accepted) /\ Y \subseteq AcquiredIn(E)
    OBVIOUS
  <2>6. ReadyAt(accepted, t) = {MeasurementOf(a) : a \in X} /\ R = {MeasurementOf(a) : a \in Y}
        /\ ReadyAt(accepted \cup E, t) = {MeasurementOf(a) : a \in Z}
    BY DEF ReadyAt
  <2> HIDE DEF X, Y, Z, R, E
  <2>7. {MeasurementOf(a) : a \in X} \cap {MeasurementOf(a) : a \in Y} = {}
    BY <2>1, <2>5
  <2>8. {MeasurementOf(a) : a \in Z} = {MeasurementOf(a) : a \in X} \cup {MeasurementOf(a) : a \in Y}
    BY <2>4
  <2> QED BY <2>6, <2>7, <2>8
<1> HIDE DEF E, R
<1>7. Lists(b.starts \o NewStarts(A, t), StartsAt(accepted \cup E, t))
  <2>1. Lists(b.starts \o NewStarts(A, t), StartsAt(accepted, t) \cup StartsAt(E, t))
    BY <1>1, <1>2, <1>4, ListsConcat
  <2> QED BY <1>4, <2>1, Zenon
<1>8. Lists(b.ends \o NewEnds(A, t), EndsAt(accepted \cup E, t))
  <2>1. Lists(b.ends \o NewEnds(A, t), EndsAt(accepted, t) \cup EndsAt(E, t))
    BY <1>1, <1>2, <1>5, ListsConcat
  <2> QED BY <1>5, <2>1, Zenon
<1>9. Lists(b.ready \o NewReady(A, t), ReadyAt(accepted \cup E, t))
  <2>1. Lists(b.ready \o NewReady(A, t), ReadyAt(accepted, t) \cup R)
    BY <1>1, <1>2, <1>6, ListsConcat
  <2> QED BY <1>6, <2>1, Zenon
<1> QED BY <1>7, <1>8, <1>9, Zenon DEF Complete, E

\* A tick at which nothing new happens keeps its boundary.
LEMMA CompleteWithout ==
  ASSUME TimeInv, ActionInv, NEW core \in Cores, NEW batch \in Batches[core], NEW A, ResolvedAs(A, batch, core),
         NEW t, NEW b, Complete(b, accepted, t),
         \A i \in 1..Len(A) : A[i].start # t /\ A[i].end # t,
         \A i \in Acquisitions(A) : ReadoutOf(A[i], A).ready # t
  PROVE  Complete(b, accepted \cup Elements(A), t)
<1> DEFINE E == Elements(A)
<1>0. \A a \in accepted : ActionOk(a)
  BY DEF ActionInv
<1>1. StartsAt(accepted \cup E, t) = StartsAt(accepted, t) /\ EndsAt(accepted \cup E, t) = EndsAt(accepted, t)
  BY DEF StartsAt, EndsAt, Elements
<1>2. \A a \in AcquiredIn(accepted) : DueOf(accepted \cup E, a) = DueOf(accepted, a)
  BY <1>0, DueStable DEF AcquiredIn
<1>3. ASSUME NEW x \in AcquiredIn(E) PROVE DueOf(accepted \cup E, x) # t
  <2>1. PICK i \in 1..Len(A) : x = A[i] /\ A[i].kind = "Acquire"
    BY DEF AcquiredIn, Elements
  <2>2. i \in Acquisitions(A)
    BY <2>1 DEF Acquisitions
  <2> QED BY <2>1, <2>2, DueNew
<1>4. AcquiredIn(accepted \cup E) = AcquiredIn(accepted) \cup AcquiredIn(E)
  BY DEF AcquiredIn
<1>5. {x \in AcquiredIn(accepted \cup E) : DueOf(accepted \cup E, x) = t}
        = {x \in AcquiredIn(accepted) : DueOf(accepted, x) = t}
  <2> HIDE DEF E
  <2> QED BY <1>2, <1>3, <1>4
<1>6. ReadyAt(accepted \cup E, t) = ReadyAt(accepted, t)
  BY <1>5 DEF ReadyAt
<1> QED BY <1>1, <1>6 DEF Complete

\* An accepted launch leaves every boundary complete (accept in
\* control_electronics.cpp).
LEMMA AcceptKeepsBoundaries ==
  ASSUME TimeInv, ActionInv, BoundaryInv, OnEdge, NEW core \in Cores, core \notin launched,
         NEW batch \in Batches[core], NEW A,
         ResolvedAs(A, batch, core), AcceptBatch(core, batch, A)
  PROVE  BoundaryInv'
<1> DEFINE new == {ReadoutOf(A[i], A) : i \in Acquisitions(A)}
           all == {A[i] : i \in 1..Len(A)}
           ticks == {a.start : a \in all} \cup {a.end : a \in all} \cup {r.ready : r \in new}
<1>0. /\ accepted' = accepted \cup Elements(A) /\ now' = now /\ processed_tick' = processed_tick
      /\ boundaries' = BoundariesWith(A, new)
  BY DEF AcceptBatch
<1>1. \A t : Closed(t)' = Closed(t)
  BY <1>0 DEF Closed
<1>2. now \in Nat /\ \A t \in Nat : now <= t => ~Closed(t)
  BY LaunchOpen DEF TimeInv, Closed
<1>3. ASSUME NEW i \in 1..Len(A)
      PROVE  /\ A[i].start \in Nat /\ A[i].end \in Nat /\ A[i].delay \in Nat
             /\ now <= A[i].start /\ A[i].start < A[i].end
  BY DEF ResolvedAs
<1>4. ASSUME NEW i \in Acquisitions(A)
      PROVE  ReadoutOf(A[i], A).ready \in Nat /\ now <= ReadoutOf(A[i], A).ready
  <2>1. i \in 1..Len(A)
    BY DEF Acquisitions
  <2>2. \A x \in accepted \cup Elements(A) : x.start \in Nat
    BY <1>3 DEF Elements, ActionInv, ActionOk
  <2>3. DueOf(accepted \cup Elements(A), A[i]) \in Nat /\ A[i].end <= DueOf(accepted \cup Elements(A), A[i])
    BY <1>3, <2>1, <2>2, DueNat
  <2>4. DueOf(accepted \cup Elements(A), A[i]) = ReadoutOf(A[i], A).ready
    BY DueNew
  <2>5. now \in Nat /\ now <= A[i].end /\ A[i].end \in Nat
    BY <1>2, <1>3, <2>1
  <2> DEFINE d == DueOf(accepted \cup Elements(A), A[i])
             n == A[i].end
  <2>6. d \in Nat /\ now <= d
    <3>1. d \in Nat /\ n <= d /\ n \in Nat /\ now <= n /\ now \in Nat
      BY <2>3, <2>5
    <3> HIDE DEF d, n
    <3> QED BY <3>1
  <2> QED BY <2>4, <2>6
<1>5. ASSUME NEW t \in ticks PROVE t \in Nat /\ now <= t
  <2>1. CASE t \in {a.start : a \in all}
    BY <1>3, <2>1
  <2>2. CASE t \in {a.end : a \in all}
    BY <1>2, <1>3, <2>2
  <2>3. CASE t \in {r.ready : r \in new}
    BY <1>4, <2>3
  <2> QED BY <2>1, <2>2, <2>3
<1>6. DOMAIN boundaries' = DOMAIN boundaries \cup ticks
  BY <1>0 DEF BoundariesWith
<1>7. ASSUME NEW t \in DOMAIN boundaries'
      PROVE  /\ boundaries'[t].starts = BoundaryAt(t).starts \o NewStarts(A, t)
             /\ boundaries'[t].ends = BoundaryAt(t).ends \o NewEnds(A, t)
             /\ boundaries'[t].ready = BoundaryAt(t).ready \o NewReady(A, t)
  BY <1>0, <1>6 DEF BoundariesWith, NewStarts, NewEnds, NewReady
<1>8. \A t \in DOMAIN boundaries' : t \in Nat /\ now <= t /\ ~Closed(t)
  <2> HIDE DEF ticks
  <2> QED BY <1>2, <1>5, <1>6 DEF BoundaryInv
<1>9. ASSUME NEW t \in Nat, ~Closed(t) PROVE Complete(BoundaryAt(t)', accepted \cup Elements(A), t)
  <2>0. Complete(BoundaryAt(t), accepted, t)
    BY <1>9 DEF BoundaryInv
  <2>1. CASE t \in DOMAIN boundaries'
    <3>1. BoundaryAt(t)' = boundaries'[t]
      BY <2>1 DEF BoundaryAt
    <3> QED BY <1>7, <2>0, <2>1, <3>1, CompleteWith
  <2>2. CASE t \notin DOMAIN boundaries'
    <3>1. BoundaryAt(t)' = BoundaryAt(t)
      BY <1>6, <2>2 DEF BoundaryAt
    <3>2. \A i \in 1..Len(A) : A[i].start # t /\ A[i].end # t
      BY <1>6, <2>2
    <3>3. \A i \in Acquisitions(A) : ReadoutOf(A[i], A).ready # t
      BY <1>6, <2>2
    <3> QED BY <2>0, <3>1, <3>2, <3>3, CompleteWithout
  <2> QED BY <2>1, <2>2
<1>10. ASSUME NEW b, NEW acts, NEW t PROVE Complete(b, acts, t)' = Complete(b, acts, t)
  OBVIOUS
<1> QED BY <1>0, <1>1, <1>8, <1>9 DEF BoundaryInv

\* Nothing becomes active at a launch.
LEMMA AcceptKeepsActive ==
  ASSUME TimeInv, ActionInv, ActiveInv, OnEdge, NEW core \in Cores, core \notin launched,
         NEW batch \in Batches[core], NEW A,
         ResolvedAs(A, batch, core), AcceptBatch(core, batch, A)
  PROVE  ActiveInv'
<1>0. /\ accepted' = accepted \cup Elements(A) /\ processed_tick' = processed_tick /\ active' = active
      /\ reservations' = reservations \cup Elements(A)
  BY DEF AcceptBatch, ReserveActions, Elements
<1>1. \A t : Closed(t)' = Closed(t)
  BY <1>0 DEF Closed
<1>2. \A t \in Nat : now <= t => ~Closed(t)
  BY LaunchOpen DEF TimeInv, Closed
<1>3. \A a \in Elements(A) : a.start \in Nat /\ now <= a.start
  BY DEF ResolvedAs, Elements
<1> QED BY <1>0, <1>1, <1>2, <1>3 DEF ActiveInv

\* An accepted launch opens a readout for each of its acquisitions.
LEMMA AcceptKeepsReadouts ==
  ASSUME TimeInv, ActionInv, ReadoutInv, OnEdge, NEW core \in Cores, core \notin launched,
         NEW batch \in Batches[core], NEW A,
         ResolvedAs(A, batch, core), AcceptBatch(core, batch, A)
  PROVE  /\ ReadoutInv'
         /\ \A a \in Acquired : Due(a)' = Due(a)
         /\ {x \in Acquired' : Closed(Due(x)')} = {x \in Acquired : Closed(Due(x))}
<1> DEFINE new == {ReadoutOf(A[i], A) : i \in Acquisitions(A)}
           E == Elements(A)
<1>0. /\ accepted' = accepted \cup E /\ now' = now /\ processed_tick' = processed_tick
      /\ readouts' = Insert(readouts, new) /\ sampled' = sampled
  BY DEF AcceptBatch
<1>1. \A t : Closed(t)' = Closed(t)
  BY <1>0 DEF Closed
<1>2. now \in Nat /\ \A t \in Nat : now <= t => ~Closed(t)
  BY LaunchOpen DEF TimeInv, Closed
<1>3. ASSUME NEW a \in Acquired
      PROVE  /\ Due(a)' = Due(a) /\ ArmOf(accepted', a) = ArmOf(accepted, a)
             /\ a \in Acquired' /\ IsReadout(a) /\ a \in accepted /\ ActionOk(a)
  <2>1. a \in accepted /\ a.kind = "Acquire" /\ ActionOk(a)
    BY DEF Acquired, AcquiredIn, ActionInv
  <2>2. DueOf(accepted \cup E, a) = DueOf(accepted, a) /\ ArmOf(accepted \cup E, a) = ArmOf(accepted, a)
    BY <2>1, DueStable
  <2>3. Due(a)' = DueOf(accepted', a)
    BY DEF Due
  <2> HIDE DEF E
  <2> QED BY <1>0, <2>1, <2>2, <2>3 DEF Due, Acquired, AcquiredIn, IsReadout
<1>4. ASSUME NEW i \in Acquisitions(A)
      PROVE  /\ Due(A[i])' = ReadoutOf(A[i], A).ready /\ ArmOf(accepted', A[i]) = ArmTick(A[i], A)
             /\ ~Closed(A[i].end) /\ ~Closed(Due(A[i])') /\ A[i] \in Acquired'
             /\ i \in 1..Len(A) /\ A[i].kind = "Acquire"
             /\ A[i].end \in Nat /\ Due(A[i])' \in Nat
  <2>1. i \in 1..Len(A) /\ A[i].kind = "Acquire"
    BY DEF Acquisitions
  <2>2. DueOf(accepted \cup E, A[i]) = ReadoutOf(A[i], A).ready /\ ArmOf(accepted \cup E, A[i]) = ArmTick(A[i], A)
    BY DueNew
  <2>3. /\ A[i].start \in Nat /\ A[i].end \in Nat /\ A[i].delay \in Nat
        /\ now <= A[i].start /\ A[i].start < A[i].end
    BY <2>1 DEF ResolvedAs
  <2>4. \A x \in accepted \cup E : x.start \in Nat
    BY DEF Elements, ActionInv, ActionOk, ResolvedAs
  <2>5. DueOf(accepted \cup E, A[i]) \in Nat /\ A[i].end <= DueOf(accepted \cup E, A[i])
    BY <2>3, <2>4, DueNat
  <2>6. A[i] \in E
    BY <2>1 DEF Elements
  <2>7. Due(A[i])' = DueOf(accepted', A[i])
    BY DEF Due
  <2> HIDE DEF E
  <2>8. ~Closed(A[i].end) /\ ~Closed(DueOf(accepted \cup E, A[i]))
    BY <1>2, <2>3, <2>5
  <2> QED BY <1>0, <2>1, <2>2, <2>3, <2>5, <2>6, <2>7, <2>8 DEF Acquired, AcquiredIn
<1>5. ASSUME NEW a \in Acquired' PROVE a \in Acquired \/ \E i \in Acquisitions(A) : a = A[i]
  <2>1. a \in accepted \cup E /\ a.kind = "Acquire"
    BY <1>0 DEF Acquired, AcquiredIn
  <2> QED BY <2>1 DEF Acquired, AcquiredIn, Elements, Acquisitions
<1>6. ASSUME NEW a \in Acquired, NEW i \in Acquisitions(A) PROVE MeasurementOf(a) # MeasurementOf(A[i])
  BY <1>3, <1>4, NewIds DEF IsReadout
<1>7. ASSUME NEW i \in Acquisitions(A), NEW j \in Acquisitions(A), MeasurementOf(A[i]) = MeasurementOf(A[j])
      PROVE  i = j
  <2>1. i \in Acquisitions(batch) /\ j \in Acquisitions(batch) /\ i \in ReadoutsIn(batch) /\ j \in ReadoutsIn(batch)
    BY SameKinds
  <2>2. SameReadout(batch[i], batch[j])
    BY <1>7, <2>1, SameMeasurement
  <2>3. PICK k \in Acquisitions(batch) : \A l \in Acquisitions(batch) : SameReadout(batch[l], batch[i]) => l = k
    BY <2>1, OneAcquisition
  <2> QED BY <2>1, <2>2, <2>3 DEF SameReadout
<1>8. ASSUME NEW i \in Acquisitions(A)
      PROVE  /\ ReadoutOf(A[i], A).reference.measurement = MeasurementOf(A[i])
             /\ ReadoutOf(A[i], A) = ReadoutFor(A[i])'
  BY <1>1, <1>4 DEF ReadoutOf, MeasurementOf, ReadoutFor
<1>9. DOMAIN readouts' = DOMAIN readouts \cup {MeasurementOf(A[i]) : i \in Acquisitions(A)}
  <2>1. DOMAIN readouts' = DOMAIN readouts \cup {r.reference.measurement : r \in new}
    BY <1>0 DEF Insert
  <2>2. {r.reference.measurement : r \in new} = {MeasurementOf(A[i]) : i \in Acquisitions(A)}
    BY <1>8
  <2> QED BY <2>1, <2>2
<1> DEFINE Open == {x \in Acquired : ~Closed(Due(x))}
           OpenNext == {x \in Acquired' : ~Closed(Due(x)')}
<1>10. OpenNext = Open \cup {A[i] : i \in Acquisitions(A)}
  BY <1>3, <1>4, <1>5
<1>11. DOMAIN readouts' = {MeasurementOf(a) : a \in OpenNext}
  <2>1. DOMAIN readouts = {MeasurementOf(a) : a \in Open}
    BY DEF ReadoutInv
  <2> HIDE DEF Open, OpenNext
  <2> QED BY <1>9, <1>10, <2>1
<1>12. ASSUME NEW a \in OpenNext PROVE readouts'[MeasurementOf(a)] = ReadoutFor(a)'
  <2>1. CASE a \in Open
    <3>1. MeasurementOf(a) \in DOMAIN readouts /\ MeasurementOf(a) \in DOMAIN readouts' /\ readouts[MeasurementOf(a)] = ReadoutFor(a)
      <4>1. MeasurementOf(a) \in DOMAIN readouts'
        BY <1>11
      <4> QED BY <2>1, <4>1 DEF ReadoutInv
    <3>2. readouts'[MeasurementOf(a)] = readouts[MeasurementOf(a)]
      BY <1>0, <3>1 DEF Insert
    <3>3. ReadoutFor(a)' = ReadoutFor(a)
      BY <1>0, <1>1, <1>3, <2>1 DEF ReadoutFor, MeasurementOf
    <3> QED BY <3>1, <3>2, <3>3
  <2>2. ASSUME NEW i \in Acquisitions(A), a = A[i] PROVE readouts'[MeasurementOf(a)] = ReadoutFor(a)'
    <3>1. MeasurementOf(a) \notin DOMAIN readouts
      BY <1>6, <2>2 DEF ReadoutInv
    <3>2. MeasurementOf(a) \in DOMAIN readouts'
      BY <1>9, <2>2
    <3> DEFINE id == MeasurementOf(a)
    <3>3. readouts'[id] = CHOOSE r \in new : r.reference.measurement = id
      <4>1. id \in DOMAIN readouts \cup {r.reference.measurement : r \in new}
        BY <1>0, <3>2 DEF Insert
      <4> HIDE DEF id, new
      <4> QED BY <1>0, <3>1, <4>1 DEF Insert, id
    <3>4. \A r \in new : r.reference.measurement = id <=> r = ReadoutOf(A[i], A)
      BY <1>7, <1>8, <2>2
    <3>5. ReadoutOf(A[i], A) \in new
      OBVIOUS
    <3>6. (CHOOSE r \in new : r.reference.measurement = id) = ReadoutOf(A[i], A)
      <4> HIDE DEF new, id
      <4> QED BY <3>4, <3>5
    <3> QED BY <1>8, <2>2, <3>3, <3>6
  <2> QED BY <1>10, <2>1, <2>2
<1>13. DOMAIN sampled' = {MeasurementOf(a) : a \in {x \in Acquired' : Closed(x.end)}}
  <2>1. {x \in Acquired' : Closed(x.end)} = {x \in Acquired : Closed(x.end)}
    BY <1>3, <1>4, <1>5
  <2>2. DOMAIN sampled = {MeasurementOf(a) : a \in {x \in Acquired : Closed(x.end)}}
    BY DEF ReadoutInv
  <2> QED BY <1>0, <2>1, <2>2
<1>14. ReadoutInv'
  BY <1>1, <1>11, <1>12, <1>13 DEF ReadoutInv, MeasurementOf
<1>15. {x \in Acquired' : Closed(Due(x)')} = {x \in Acquired : Closed(Due(x))}
  BY <1>3, <1>4, <1>5
<1> QED BY <1>3, <1>14, <1>15

\* A launch delivers nothing.
LEMMA AcceptKeepsDelivery ==
  ASSUME TimeInv, ActionInv, ReadoutInv, DeliveryInv, OnEdge, NEW core \in Cores, core \notin launched,
         NEW batch \in Batches[core], NEW A,
         ResolvedAs(A, batch, core), AcceptBatch(core, batch, A)
  PROVE  DeliveryInv'
<1> DEFINE done == {a \in Acquired : Closed(Due(a))}
           doneNext == {a \in Acquired' : Closed(Due(a))'}
<1>0. delivered' = delivered /\ sampled' = sampled /\ processed_tick' = processed_tick
  BY DEF AcceptBatch
<1>1. \A t : Closed(t)' = Closed(t)
  BY <1>0 DEF Closed
<1>2. doneNext = done /\ \A a \in done : Due(a)' = Due(a)
  <2>1. \A a : Closed(Due(a))' = Closed(Due(a)')
    BY <1>0 DEF Closed
  <2> QED BY <2>1, AcceptKeepsReadouts
<1>3. \A a \in done : AnswerTo(a)' = AnswerTo(a)
  BY <1>0, <1>2 DEF AnswerTo, MeasurementOf
<1>4. {AnswerTo(a)' : a \in doneNext} = {AnswerTo(a) : a \in done}
  <2> HIDE DEF done, doneNext
  <2> QED BY <1>2, <1>3
<1>5. /\ IsFiniteSet(done)
      /\ delivered \in Seq({AnswerTo(a) : a \in done})
      /\ \A a \in done : \E i \in 1..Len(delivered) : delivered[i] = AnswerTo(a)
      /\ Len(delivered) = Cardinality(done)
  BY DEF DeliveryInv
<1> HIDE DEF done
<1>6. /\ IsFiniteSet(doneNext)
      /\ delivered' \in Seq({AnswerTo(a)' : a \in doneNext})
      /\ \A a \in doneNext : \E i \in 1..Len(delivered') : delivered'[i] = AnswerTo(a)'
      /\ Len(delivered') = Cardinality(doneNext)
  <2> HIDE DEF doneNext
  <2> QED BY <1>0, <1>2, <1>3, <1>4, <1>5
<1> QED BY <1>6 DEF DeliveryInv

\* A later action changes no past evolution.
LEMMA DrivenLater ==
  ASSUME NEW ev, NEW acts, NEW E, DrivenBy(ev, acts),
         ev.tick \in Nat, \A a \in E : a.start \in Nat /\ ev.tick <= a.start
  PROVE  DrivenBy(ev, acts \cup E)
<1>1. {x \in acts \cup E : x.kind = "Pulse" /\ x.start < ev.tick /\ ev.start < x.end}
        = {x \in acts : x.kind = "Pulse" /\ x.start < ev.tick /\ ev.start < x.end}
  <2>1. \A x \in E : ~(x.start < ev.tick)
    OBVIOUS
  <2> QED BY <2>1
<1> QED BY <1>1 DEF DrivenBy

\* Nor any log that has not reached it.
LEMMA LogLater ==
  ASSUME NEW log, NEW o, NEW acts, NEW E, LogOk(log, o, acts),
         \A a \in E : a.start \in Nat /\ LastTick(log, o) <= a.start
  PROVE  LogOk(log, o, acts \cup E)
<1>1. EvolutionsOk(log, o, acts \cup E)
  <2> SUFFICES ASSUME NEW i \in 1..Len(EvolutionsOf(log))
               PROVE  DrivenBy(EvolutionsOf(log)[i], acts \cup E)
    BY DEF LogOk, EvolutionsOk
  <2> DEFINE ev == EvolutionsOf(log)[i]
             l == LastTick(log, o)
  <2>1. ev.tick \in Nat /\ ev.tick <= l /\ DrivenBy(ev, acts) /\ l \in Nat
    BY DEF LogOk, EvolutionsOk
  <2>2. \A a \in E : a.start \in Nat /\ ev.tick <= a.start
    <3> HIDE DEF ev
    <3>1. ASSUME NEW a \in E PROVE a.start \in Nat /\ l <= a.start
      OBVIOUS
    <3> HIDE DEF l
    <3> QED BY <2>1, <3>1
  <2> HIDE DEF ev
  <2> QED BY <2>1, <2>2, DrivenLater DEF ev
<1> QED BY <1>1 DEF LogOk

\* A launch asks nothing of the backend.
LEMMA AcceptKeepsLog ==
  ASSUME TimeInv, LogInv, fault = "None", ~stopped, OnEdge, NEW core \in Cores, core \notin launched,
         NEW batch \in Batches[core], NEW A,
         ResolvedAs(A, batch, core), AcceptBatch(core, batch, A)
  PROVE  LogInv'
<1>0. /\ accepted' = accepted \cup Elements(A) /\ sampled' = sampled /\ backend' = backend
      /\ fault' = fault /\ stopped' = stopped /\ summary' = summary /\ origin' = origin /\ last_tick' = last_tick
  BY DEF AcceptBatch
<1>1. last_tick \in Nat /\ now \in Nat /\ last_tick <= now /\ last_tick = LastTick(backend.committed, origin)
  BY DEF TimeInv, LogInv
<1>2. \A a \in Elements(A) : a.start \in Nat /\ LastTick(backend.committed, origin) <= a.start
  <2>1. ASSUME NEW a \in Elements(A) PROVE a.start \in Nat /\ now <= a.start
    BY DEF ResolvedAs, Elements
  <2>2. ASSUME NEW a \in Elements(A) PROVE last_tick <= a.start
    BY <1>1, <2>1
  <2> QED BY <1>1, <2>1, <2>2
<1>3. LogOk(backend.committed, origin, accepted \cup Elements(A))
  BY <1>2, LogLater DEF LogInv
<1>4. LogOk(backend.committed, origin, accepted)'
  BY <1>0, <1>3
<1>5. Shape(backend)' /\ Batched(backend)' /\ DOMAIN sampled' = MeasuredIn(backend.executed)'
  BY <1>0 DEF LogInv
<1> QED BY <1>0, <1>1, <1>4, <1>5 DEF LogInv

\* The edge of a core keeps the invariant: it launches nothing, a batch that is
\* refused, or one that is accepted.
LEMMA LaunchStep ==
  ASSUME Inv, NEW core \in Cores, Launch(core)
  PROVE  Inv'
<1>0. fault = "None" /\ ~stopped /\ OnEdge /\ core \notin launched /\ Core /\ LogInv
  BY DEF Launch, Running, Inv
<1>a. /\ TimeInv /\ ActionInv /\ BoundaryInv /\ ActiveInv /\ ReadoutInv /\ DeliveryInv /\ BackendOk
  BY <1>0 DEF Core
<1>1. CASE UNCHANGED <<reservations, boundaries, readouts, next_id, fault, accepted>>
  <2>1. UNCHANGED <<reservations, boundaries, readouts, next_id, fault, accepted,
                    active, last_tick, processed_tick, backend, now, epoch, stopped, summary,
                    origin, sampled, delivered>>
    BY <1>1 DEF Launch
  <2>2. \A t : Closed(t)' = Closed(t)
    BY <2>1 DEF Closed
  <2>3. TimeInv'
    <3>1. ~EdgeRan
      BY <1>0 DEF EdgeRan
    <3> QED BY <1>a, <2>1, <3>1 DEF TimeInv
  <2>4. ActionInv'
    BY <1>a, <2>1 DEF ActionInv, ActionOk, Acquired
  <2>5. BoundaryInv'
    BY <1>a, <2>1, <2>2 DEF BoundaryInv, BoundaryAt
  <2>6. ActiveInv'
    BY <1>a, <2>1, <2>2 DEF ActiveInv
  <2>7. ReadoutInv'
    BY <1>a, <2>1 DEF ReadoutInv, ReadoutFor, Acquired, Due, Closed
  <2>8. DeliveryInv'
    BY <1>a, <2>1 DEF DeliveryInv, AnswerTo, Acquired, Due, Closed
  <2>9. BackendOk' /\ LogInv' /\ AcceptedWorkNeverFails'
    BY <1>0, <1>a, <2>1 DEF BackendOk, LogInv, Inv, AcceptedWorkNeverFails
  <2> QED BY <2>3, <2>4, <2>5, <2>6, <2>7, <2>8, <2>9 DEF Inv, Core
<1>2. ASSUME NEW batch \in Batches[core], NEW A, A = Resolve(core, batch),
             LaunchFault(A) # "None", fault' = LaunchFault(A),
             UNCHANGED <<reservations, boundaries, readouts, next_id, accepted>>
      PROVE  Inv'
  <2>1. ResolvedAs(A, batch, core)
    BY <1>2, <1>a, ResolveIs
  <2>2. LaunchFault(A) \in {"GateInputMismatch", "ResourceConflict", "None"}
    BY <1>0, <1>a, <2>1, LaunchFaultKinds
  <2>3. fault' \in {"GateInputMismatch", "ResourceConflict"}
    BY <1>2, <2>2
  <2>4. LogInv'
    <3>1. UNCHANGED <<boundaries, accepted, last_tick, backend, stopped, summary, origin, sampled>>
      BY <1>2 DEF Launch
    <3> QED BY <1>0, <2>3, <3>1 DEF LogInv
  <2> QED BY <2>3, <2>4 DEF Inv, AcceptedWorkNeverFails, LaunchRefusals
<1>3. ASSUME NEW batch \in Batches[core], NEW A, A = Resolve(core, batch),
             LaunchFault(A) = "None", AcceptBatch(core, batch, A)
      PROVE  Inv'
  <2>1. ResolvedAs(A, batch, core)
    BY <1>3, <1>a, ResolveIs
  <2>2. TimeInv'
    BY <1>0, <1>3, <1>a, <2>1, AcceptKeepsTime
  <2>3. ActionInv'
    BY <1>0, <1>3, <1>a, <2>1, AcceptKeepsActions
  <2>4. BoundaryInv'
    BY <1>0, <1>3, <1>a, <2>1, AcceptKeepsBoundaries
  <2>5. ActiveInv'
    BY <1>0, <1>3, <1>a, <2>1, AcceptKeepsActive
  <2>6. ReadoutInv'
    BY <1>0, <1>3, <1>a, <2>1, AcceptKeepsReadouts
  <2>7. DeliveryInv'
    BY <1>0, <1>3, <1>a, <2>1, AcceptKeepsDelivery
  <2>8. LogInv'
    BY <1>0, <1>3, <1>a, <2>1, AcceptKeepsLog
  <2>9. BackendOk' /\ AcceptedWorkNeverFails'
    BY <1>0, <1>3, <1>a DEF AcceptBatch, BackendOk, Inv, AcceptedWorkNeverFails
  <2> QED BY <2>2, <2>3, <2>4, <2>5, <2>6, <2>7, <2>8, <2>9 DEF Inv, Core
<1>4. ASSUME NEW batch \in Batches[core], NEW A, A = Resolve(core, batch), LaunchFault(A) = "None",
             reservations' = ReserveActions(reservations, A),
             readouts' = Insert(readouts, {ReadoutOf(A[i], A) : i \in Acquisitions(A)}),
             boundaries' = BoundariesWith(A, {ReadoutOf(A[i], A) : i \in Acquisitions(A)}),
             next_id' = [next_id EXCEPT
                           ![core].event = @ + Len(batch),
                           ![core].measurement = @ + Cardinality(Acquisitions(batch))],
             accepted' = accepted \cup {A[i] : i \in 1..Len(A)},
             UNCHANGED fault
      PROVE  AcceptBatch(core, batch, A)
  BY <1>4 DEF AcceptBatch, Elements, Launch
<1> QED BY <1>1, <1>2, <1>3, <1>4 DEF Launch

-----------------------------------------------------------------------------
(* The log of the backend.                                                 *)

\* The operation op continues a log that has reached the tick t.
Continues(op, t, acts) ==
  \/ op.kind = "Evolution" /\ op.start = t /\ op.tick \in Nat /\ t < op.tick /\ DrivenBy(op, acts)
  \/ op.kind # "Evolution" /\ op.tick = t

\* The evolutions of a log form a list.
LEMMA EvolutionsSeq ==
  ASSUME NEW log, IsSeq(log)
  PROVE  IsSeq(EvolutionsOf(log))
BY AtSeq DEF EvolutionsOf

\* The evolutions of a longer log.
LEMMA EvolutionsAppend ==
  ASSUME NEW log, IsSeq(log), NEW op
  PROVE  EvolutionsOf(Append(log, op)) =
           IF op.kind = "Evolution" THEN Append(EvolutionsOf(log), op) ELSE EvolutionsOf(log)
<1> DEFINE u == Append(log, op)
           P == {i \in 1..Len(log) : log[i].kind = "Evolution"}
           Q == {i \in 1..Len(u) : u[i].kind = "Evolution"}
<1>1. /\ IsSeq(u) /\ Len(u) = Len(log) + 1 /\ u[Len(log) + 1] = op
      /\ \A i \in 1..Len(log) : u[i] = log[i]
  BY IsSeqAppend
<1>2. Len(log) \in Nat
  BY IsSeqLen
<1>3. \A i \in 1..Len(log) : i \in Q <=> i \in P
  <2> SUFFICES ASSUME NEW i \in 1..Len(log) PROVE i \in Q <=> i \in P
    OBVIOUS
  <2>1. i \in 1..Len(u) /\ u[i] = log[i]
    BY <1>1, <1>2
  <2> HIDE DEF u
  <2> QED BY <2>1
<1>4. Len(log) + 1 \in Q <=> op.kind = "Evolution"
  <2>1. Len(log) + 1 \in 1..Len(u)
    BY <1>1, <1>2
  <2> HIDE DEF u
  <2> QED BY <1>1, <2>1
<1>5. EvolutionsOf(u) = At(u, Q) /\ EvolutionsOf(log) = At(log, P)
  BY DEF EvolutionsOf
<1> HIDE DEF P, Q
<1>6. At(Append(log, op), Q) = IF Len(log) + 1 \in Q THEN Append(At(log, P), op) ELSE At(log, P)
  BY <1>3, AtAppend
<1> QED BY <1>4, <1>5, <1>6

\* A log ends at the tick of its last operation.
LEMMA LastTickAppend ==
  ASSUME NEW log, IsSeq(log), NEW op, NEW o
  PROVE  LastTick(Append(log, op), o) = op.tick
BY IsSeqAppend DEF LastTick

\* An operation that continues a log leaves no gap between its evolutions.
LEMMA EvolutionsContinue ==
  ASSUME NEW log, NEW o, NEW acts, NEW op, LogOk(log, o, acts), Continues(op, LastTick(log, o), acts)
  PROVE  /\ EvolutionsOk(Append(log, op), o, acts)
         /\ LastEvolved(Append(log, op), o) = op.tick
<1> DEFINE u == Append(log, op)
           ev == EvolutionsOf(log)
           evu == EvolutionsOf(u)
           l == LastTick(log, o)
<1>0. /\ IsSeq(log) /\ l \in Nat /\ LastEvolved(log, o) = l /\ EvolutionsOk(log, o, acts)
  BY DEF LogOk
<1>1. IsSeq(ev) /\ Len(ev) \in Nat /\ (Len(ev) = 0 <=> ev = <<>>)
  BY <1>0, EvolutionsSeq, IsSeqLen
<1>2. LastTick(u, o) = op.tick /\ op.tick \in Nat /\ l <= op.tick
  BY <1>0, LastTickAppend DEF Continues
<1>3. evu = IF op.kind = "Evolution" THEN Append(ev, op) ELSE ev
  BY <1>0, EvolutionsAppend
<1>4. \A i \in 1..Len(ev) : /\ ev[i].start = IF i = 1 THEN o ELSE ev[i - 1].tick
                            /\ ev[i].tick \in Nat /\ ev[i].tick <= l /\ DrivenBy(ev[i], acts)
  BY <1>0 DEF EvolutionsOk
<1>5. \A i \in 1..Len(ev) : ev[i].tick <= op.tick
  <2> HIDE DEF ev, l
  <2>1. ASSUME NEW i \in 1..Len(ev) PROVE ev[i].tick <= op.tick
    <3>1. ev[i].tick \in Nat /\ ev[i].tick <= l
      BY <1>4
    <3> QED BY <1>0, <1>2, <3>1
  <2> QED BY <2>1
<1>6. LastEvolved(log, o) = IF ev = <<>> THEN o ELSE ev[Len(ev)].tick
  BY DEF LastEvolved
<1>7. LastEvolved(u, o) = IF evu = <<>> THEN o ELSE evu[Len(evu)].tick
  BY DEF LastEvolved
<1>8. EvolutionsOk(u, o, acts) <=>
        \A i \in 1..Len(evu) : /\ evu[i].start = IF i = 1 THEN o ELSE evu[i - 1].tick
                               /\ evu[i].tick \in Nat /\ evu[i].tick <= LastTick(u, o)
                               /\ DrivenBy(evu[i], acts)
  BY DEF EvolutionsOk
<1> HIDE DEF ev, evu, l, u
<1>9. CASE op.kind # "Evolution"
  <2>1. evu = ev /\ op.tick = l
    BY <1>3, <1>9 DEF Continues, l
  <2>2. EvolutionsOk(u, o, acts)
    BY <1>2, <1>4, <1>5, <1>8, <2>1
  <2>3. LastEvolved(u, o) = op.tick
    BY <1>0, <1>6, <1>7, <2>1
  <2> QED BY <2>2, <2>3 DEF u
<1>10. CASE op.kind = "Evolution"
  <2>1. evu = Append(ev, op) /\ op.start = l /\ DrivenBy(op, acts)
    BY <1>3, <1>10 DEF Continues, l
  <2>2. /\ Len(evu) = Len(ev) + 1 /\ evu[Len(ev) + 1] = op /\ \A i \in 1..Len(ev) : evu[i] = ev[i]
        /\ evu # <<>>
    BY <1>1, <2>1, IsSeqAppend
  <2>3. LastEvolved(u, o) = op.tick
    BY <1>7, <2>2
  <2>4. ASSUME NEW i \in 1..Len(evu)
        PROVE  /\ evu[i].start = IF i = 1 THEN o ELSE evu[i - 1].tick
               /\ evu[i].tick \in Nat /\ evu[i].tick <= LastTick(u, o)
               /\ DrivenBy(evu[i], acts)
    <3>1. CASE i \in 1..Len(ev)
      <4>1. evu[i] = ev[i] /\ (i # 1 => i - 1 \in 1..Len(ev))
        BY <1>1, <2>2, <3>1
      <4>2. i # 1 => evu[i - 1] = ev[i - 1]
        BY <2>2, <4>1
      <4> QED BY <1>2, <1>4, <1>5, <3>1, <4>1, <4>2
    <3>2. CASE i = Len(ev) + 1
      <4>1. evu[i] = op
        BY <2>2, <3>2
      <4>2. op.start = IF i = 1 THEN o ELSE evu[i - 1].tick
        <5>1. CASE Len(ev) = 0
          <6>1. i = 1
            BY <3>2, <5>1
          <6>2. l = o
            BY <1>0, <1>1, <1>6, <5>1
          <6> QED BY <2>1, <6>1, <6>2
        <5>2. CASE Len(ev) # 0
          <6>1. i # 1 /\ i - 1 = Len(ev) /\ Len(ev) \in 1..Len(ev)
            BY <1>1, <3>2, <5>2
          <6>2. l = ev[Len(ev)].tick
            BY <1>0, <1>1, <1>6, <5>2
          <6> QED BY <2>1, <2>2, <6>1, <6>2
        <5> QED BY <5>1, <5>2
      <4>3. op.tick <= op.tick
        BY <1>2
      <4> QED BY <1>2, <2>1, <4>1, <4>2, <4>3
    <3> QED BY <1>1, <2>2, <3>1, <3>2
  <2> QED BY <1>8, <2>3, <2>4 DEF u
<1> QED BY <1>9, <1>10

\* So the longer log has no gap either.
LEMMA LogContinues ==
  ASSUME NEW log, NEW o, NEW acts, NEW op, LogOk(log, o, acts), Continues(op, LastTick(log, o), acts)
  PROVE  LogOk(Append(log, op), o, acts) /\ LastTick(Append(log, op), o) = op.tick
<1> DEFINE u == Append(log, op)
<1>0. IsSeq(log) /\ LastTick(log, o) \in Nat /\ InstantsOk(log, o)
  BY DEF LogOk
<1>1. /\ IsSeq(u) /\ Len(u) = Len(log) + 1 /\ u[Len(log) + 1] = op
      /\ \A i \in 1..Len(log) : u[i] = log[i]
  BY <1>0, IsSeqAppend
<1>2. Len(log) \in Nat /\ (Len(log) = 0 <=> log = <<>>)
  BY <1>0, IsSeqLen
<1>3. LastTick(u, o) = op.tick /\ op.tick \in Nat
  BY <1>0, LastTickAppend DEF Continues
<1>4. InstantsOk(u, o)
  <2> SUFFICES ASSUME NEW i \in 1..Len(u), u[i].kind # "Evolution"
               PROVE  u[i].tick = IF i = 1 THEN o ELSE u[i - 1].tick
    BY DEF InstantsOk
  <2> HIDE DEF u
  <2>1. CASE i \in 1..Len(log)
    <3>1. u[i] = log[i] /\ (i # 1 => i - 1 \in 1..Len(log))
      BY <1>1, <1>2, <2>1
    <3>2. i # 1 => u[i - 1] = log[i - 1]
      BY <1>1, <3>1
    <3> QED BY <1>0, <2>1, <3>1, <3>2 DEF InstantsOk
  <2>2. CASE i = Len(log) + 1
    <3>1. u[i] = op /\ op.kind # "Evolution"
      BY <1>1, <2>2
    <3>2. op.tick = LastTick(log, o)
      BY <3>1 DEF Continues
    <3>3. CASE Len(log) = 0
      BY <1>2, <2>2, <3>1, <3>2, <3>3 DEF LastTick
    <3>4. CASE Len(log) # 0
      <4>1. i # 1 /\ i - 1 = Len(log) /\ Len(log) \in 1..Len(log)
        BY <1>2, <2>2, <3>4
      <4>2. LastTick(log, o) = log[Len(log)].tick
        BY <1>2, <3>4 DEF LastTick
      <4> QED BY <1>1, <3>1, <3>2, <4>1, <4>2
    <3> QED BY <3>3, <3>4
  <2> QED BY <1>1, <1>2, <2>1, <2>2
<1>5. EvolutionsOk(u, o, acts) /\ LastEvolved(u, o) = op.tick
  BY EvolutionsContinue
<1> QED BY <1>1, <1>3, <1>4, <1>5 DEF LogOk

\* The measurements of two logs, one after the other.
LEMMA MeasuredConcat ==
  ASSUME NEW s, NEW t, IsSeq(s), IsSeq(t)
  PROVE  MeasuredIn(s \o t) = MeasuredIn(s) \cup MeasuredIn(t)
<1> DEFINE ids(x) == {x.references[k].measurement : k \in 1..Len(x.references)}
           u == s \o t
<1>1. /\ Len(u) = Len(s) + Len(t)
      /\ \A i \in 1..Len(s) : u[i] = s[i]
      /\ \A i \in 1..Len(t) : u[Len(s) + i] = t[i]
      /\ \A i \in 1..Len(u) : \/ i \in 1..Len(s)
                              \/ i - Len(s) \in 1..Len(t) /\ u[i] = t[i - Len(s)]
      /\ Len(s) \in Nat /\ Len(t) \in Nat
  BY IsSeqConcat, IsSeqLen
<1>2. \A m, log : m \in MeasuredIn(log) <=> \E i \in 1..Len(log) : log[i].kind = "Measurement" /\ m \in ids(log[i])
  BY DEF MeasuredIn
<1> HIDE DEF ids, u
<1>3. ASSUME NEW m, m \in MeasuredIn(u) PROVE m \in MeasuredIn(s) \cup MeasuredIn(t)
  <2>1. PICK i \in 1..Len(u) : u[i].kind = "Measurement" /\ m \in ids(u[i])
    BY <1>2, <1>3
  <2> QED BY <1>1, <1>2, <2>1
<1>4. ASSUME NEW m, m \in MeasuredIn(s) PROVE m \in MeasuredIn(u)
  <2>1. PICK i \in 1..Len(s) : s[i].kind = "Measurement" /\ m \in ids(s[i])
    BY <1>2, <1>4
  <2>2. i \in 1..Len(u) /\ u[i] = s[i]
    BY <1>1
  <2> QED BY <1>2, <2>1, <2>2
<1>5. ASSUME NEW m, m \in MeasuredIn(t) PROVE m \in MeasuredIn(u)
  <2>1. PICK i \in 1..Len(t) : t[i].kind = "Measurement" /\ m \in ids(t[i])
    BY <1>2, <1>5
  <2>2. Len(s) + i \in 1..Len(u) /\ u[Len(s) + i] = t[i]
    BY <1>1
  <2> QED BY <1>2, <2>1, <2>2
<1> QED BY <1>3, <1>4, <1>5 DEF u

\* Without a measurement nothing is measured.
LEMMA MeasuredNone ==
  ASSUME NEW s, \A i \in 1..Len(s) : s[i].kind # "Measurement"
  PROVE  MeasuredIn(s) = {}
BY DEF MeasuredIn

\* A measurement at the end of a log without any.
LEMMA MeasuredAppend ==
  ASSUME NEW s, IsSeq(s), \A i \in 1..Len(s) : s[i].kind # "Measurement", NEW x, x.kind = "Measurement"
  PROVE  MeasuredIn(Append(s, x)) = {x.references[k].measurement : k \in 1..Len(x.references)}
<1> DEFINE ids(y) == {y.references[k].measurement : k \in 1..Len(y.references)}
           u == Append(s, x)
<1>1. /\ Len(u) = Len(s) + 1 /\ u[Len(s) + 1] = x /\ Len(s) \in Nat
      /\ \A i \in 1..Len(s) : u[i] = s[i]
  BY IsSeqAppend, IsSeqLen
<1>2. \A m, log : m \in MeasuredIn(log) <=> \E i \in 1..Len(log) : log[i].kind = "Measurement" /\ m \in ids(log[i])
  BY DEF MeasuredIn
<1> HIDE DEF ids, u
<1>3. \A i \in 1..Len(u) : u[i].kind = "Measurement" <=> i = Len(s) + 1
  BY <1>1
<1>4. Len(s) + 1 \in 1..Len(u)
  BY <1>1
<1>5. \A m : m \in MeasuredIn(u) <=> m \in ids(x)
  BY <1>1, <1>2, <1>3, <1>4
<1>6. MeasuredIn(u) = ids(x)
  BY <1>5
<1> QED BY <1>6 DEF u, ids

-----------------------------------------------------------------------------
(* Calls of the backend.                                                   *)

\* The backend in the course of a call: up to the tick t nothing has failed.
Going(b, t, o, acts) ==
  /\ Shape(b) /\ Batched(b) /\ LogOk(b.committed, o, acts)
  /\ b.fault = "None" /\ b.failed = <<>> /\ b.fails_in \in Nat
  /\ b.committed_tick = t /\ LastTick(b.committed, o) = t

\* The backend has failed in this call.
Broken(b, o, acts) ==
  /\ Shape(b) /\ Batched(b) /\ LogOk(b.committed, o, acts) /\ b.fault = "BackendFailure"

\* Choosing the execution that fails changes nothing else of the backend.
LEMMA ProneIs ==
  ASSUME NEW b, Shape(b), NEW n
  PROVE  /\ Shape(Prone(b, n))
         /\ Prone(b, n).pending = b.pending /\ Prone(b, n).executed = b.executed
         /\ Prone(b, n).failed = b.failed /\ Prone(b, n).committed = b.committed
         /\ Prone(b, n).fault = b.fault /\ Prone(b, n).epoch = b.epoch
         /\ Prone(b, n).committed_tick = b.committed_tick /\ Prone(b, n).fails_in = n
BY DEF Shape, Prone

\* What queueing an operation does to the backend (commit in
\* backend_execution.cpp).
LEMMA PushIs ==
  ASSUME NEW b, Shape(b), NEW op
  PROVE  /\ Shape(Push(b, op))
         /\ Push(b, op).pending = Append(b.pending, op) /\ Push(b, op).executed = b.executed
         /\ Push(b, op).failed = b.failed /\ Push(b, op).committed = Append(b.committed, op)
         /\ Push(b, op).fault = b.fault /\ Push(b, op).epoch = b.epoch
         /\ Push(b, op).committed_tick = op.tick /\ Push(b, op).fails_in = b.fails_in
<1> DEFINE p == Append(b.pending, op)
           c == Append(b.committed, op)
           t == op.tick
           x == [b EXCEPT !.pending = p]
           y == [x EXCEPT !.committed = c]
           z == [y EXCEPT !.committed_tick = t]
<1>0. Push(b, op) = z
  BY DEF Shape, Push
<1> HIDE DEF p, c, t
<1>1. /\ Shape(x) /\ x.pending = p /\ x.executed = b.executed /\ x.failed = b.failed /\ x.committed = b.committed
      /\ x.fault = b.fault /\ x.epoch = b.epoch /\ x.fails_in = b.fails_in
  BY DEF Shape
<1> HIDE DEF x
<1>2. /\ Shape(y) /\ y.pending = x.pending /\ y.executed = x.executed /\ y.failed = x.failed /\ y.committed = c
      /\ y.fault = x.fault /\ y.epoch = x.epoch /\ y.fails_in = x.fails_in
  BY <1>1 DEF Shape
<1> HIDE DEF y
<1>3. /\ Shape(z) /\ z.pending = y.pending /\ z.executed = y.executed /\ z.failed = y.failed /\ z.committed = y.committed
      /\ z.fault = y.fault /\ z.epoch = y.epoch /\ z.fails_in = y.fails_in /\ z.committed_tick = t
  BY <1>2 DEF Shape
<1> HIDE DEF z
<1> QED BY <1>0, <1>1, <1>2, <1>3 DEF p, c, t

\* What the execution of the batch of b leaves.
Executed(b, f) ==
  /\ Shape(f) /\ f.executed = b.executed \o b.pending /\ f.pending = <<>>
  /\ f.failed = b.failed /\ f.committed = b.committed /\ f.fault = b.fault /\ f.epoch = b.epoch
  /\ f.committed_tick = b.committed_tick /\ f.fails_in \in Nat
GivenUp(b, f) ==
  /\ Shape(f) /\ f.executed = b.executed /\ f.pending = <<>> /\ f.failed = b.pending
  /\ f.committed = b.committed /\ f.fault = "BackendFailure" /\ f.epoch = b.epoch

\* flush executes the batch or gives it up.
LEMMA FlushIs ==
  ASSUME NEW b, Shape(b), b.pending # <<>>, b.fails_in \in Nat
  PROVE  Executed(b, Flush(b)) \/ GivenUp(b, Flush(b))
<1>1. CASE b.fails_in = 1
  <2> DEFINE p == b.pending
             x == [b EXCEPT !.failed = p]
             y == [x EXCEPT !.pending = <<>>]
             z == [y EXCEPT !.fault = "BackendFailure"]
  <2>0. Flush(b) = z
    BY <1>1 DEF Flush, Reject, Shape
  <2> HIDE DEF p
  <2>1. /\ Shape(x) /\ x.executed = b.executed /\ x.failed = p /\ x.committed = b.committed /\ x.epoch = b.epoch
    BY DEF Shape
  <2> HIDE DEF x
  <2>2. /\ Shape(y) /\ y.executed = x.executed /\ y.failed = x.failed /\ y.committed = x.committed
        /\ y.epoch = x.epoch /\ y.pending = <<>>
    BY <2>1 DEF Shape
  <2> HIDE DEF y
  <2>3. /\ Shape(z) /\ z.executed = y.executed /\ z.failed = y.failed /\ z.committed = y.committed
        /\ z.epoch = y.epoch /\ z.pending = y.pending /\ z.fault = "BackendFailure"
    BY <2>2 DEF Shape
  <2> HIDE DEF z
  <2> QED BY <2>0, <2>1, <2>2, <2>3 DEF p, GivenUp
<1>2. CASE b.fails_in # 1
  <2> DEFINE e == b.executed \o b.pending
             n == IF b.fails_in > 0 THEN b.fails_in - 1 ELSE 0
             x == [b EXCEPT !.executed = e]
             y == [x EXCEPT !.pending = <<>>]
             z == [y EXCEPT !.fails_in = n]
  <2>0. Flush(b) = z
    BY <1>2 DEF Flush, Shape
  <2>n. n \in Nat
    OBVIOUS
  <2> HIDE DEF e, n
  <2>1. /\ Shape(x) /\ x.executed = e /\ x.failed = b.failed /\ x.committed = b.committed /\ x.epoch = b.epoch
        /\ x.fault = b.fault /\ x.committed_tick = b.committed_tick
    BY DEF Shape
  <2> HIDE DEF x
  <2>2. /\ Shape(y) /\ y.executed = x.executed /\ y.failed = x.failed /\ y.committed = x.committed
        /\ y.epoch = x.epoch /\ y.pending = <<>> /\ y.fault = x.fault /\ y.committed_tick = x.committed_tick
    BY <2>1 DEF Shape
  <2> HIDE DEF y
  <2>3. /\ Shape(z) /\ z.executed = y.executed /\ z.failed = y.failed /\ z.committed = y.committed
        /\ z.epoch = y.epoch /\ z.pending = y.pending /\ z.fault = y.fault
        /\ z.committed_tick = y.committed_tick /\ z.fails_in = n
    BY <2>2 DEF Shape
  <2> HIDE DEF z
  <2> QED BY <2>0, <2>n, <2>1, <2>2, <2>3 DEF e, Executed
<1> QED BY <1>1, <1>2

\* The empty list is neutral.
LEMMA ConcatEmpty ==
  ASSUME NEW s, IsSeq(s)
  PROVE  s \o <<>> = s /\ <<>> \o s = s
<1> PICK S : s \in Seq(S)
  BY DEF IsSeq
<1> QED OBVIOUS

\* Append after a concatenation.
LEMMA AppendConcat ==
  ASSUME NEW s, NEW t, IsSeq(s), IsSeq(t), NEW x
  PROVE  s \o Append(t, x) = Append(s \o t, x)
<1>0. PICK S : s \in Seq(S)
  BY DEF IsSeq
<1>1. PICK T : t \in Seq(T)
  BY DEF IsSeq
<1> DEFINE U == S \cup T \cup {x}
<1>2. s \in Seq(U) /\ t \in Seq(U) /\ x \in U
  <2>1. \A i \in 1..Len(s) : s[i] \in U
    BY <1>0
  <2>2. \A i \in 1..Len(t) : t[i] \in U
    BY <1>1
  <2> HIDE DEF U
  <2>3. x \in U
    BY DEF U
  <2> QED BY <2>1, <2>2, <2>3, SeqIn
<1> HIDE DEF U
<1> QED BY <1>2

\* A batch that is executed or given up leaves a well-batched backend.
LEMMA FlushBatched ==
  ASSUME NEW b, Shape(b), b.pending # <<>>, b.fails_in \in Nat, b.failed = <<>>,
         IsSeq(b.executed), IsSeq(b.pending), b.executed \o b.pending = b.committed
  PROVE  \/ Executed(b, Flush(b)) /\ Batched(Flush(b))
         \/ GivenUp(b, Flush(b)) /\ Batched(Flush(b))
<1> DEFINE f == Flush(b)
<1>0. IsSeq(<<>>) /\ Len(<<>>) = 0 /\ 0 < MaxBatch
  BY IsSeqEmpty, BatchAssumption
<1>1. CASE Executed(b, f)
  <2>1. f.executed = b.executed \o b.pending /\ f.pending = <<>> /\ f.failed = <<>> /\ f.committed = b.committed
    BY <1>1 DEF Executed
  <2>2. IsSeq(f.executed)
    <3>1. IsSeq(b.executed \o b.pending)
      BY IsSeqConcat
    <3> QED BY <2>1, <3>1, Zenon
  <2>3. f.executed \o <<>> \o <<>> = f.executed
    BY <2>2, ConcatEmpty, Zenon
  <2>4. f.executed \o f.failed \o f.pending = f.committed
    BY <2>1, <2>3, Zenon
  <2> HIDE DEF f
  <2> QED BY <1>0, <1>1, <2>1, <2>2, <2>4 DEF Batched, f
<1>2. CASE GivenUp(b, f)
  <2>1. f.executed = b.executed /\ f.pending = <<>> /\ f.failed = b.pending /\ f.committed = b.committed
    BY <1>2 DEF GivenUp
  <2>2. IsSeq(b.executed \o b.pending)
    BY IsSeqConcat
  <2>3. (b.executed \o b.pending) \o <<>> = b.executed \o b.pending
    BY <2>2, ConcatEmpty
  <2>4. f.executed \o f.failed \o f.pending = f.committed
    BY <2>1, <2>3, Zenon
  <2>5. IsSeq(f.executed) /\ IsSeq(f.failed) /\ IsSeq(f.pending)
    BY <1>0, <2>1, Zenon
  <2> HIDE DEF f
  <2>6. Batched(f)
    <3>1. Len(f.pending) = 0 /\ Len(f.pending) < MaxBatch
      BY <1>0, <2>1
    <3>2. \A i \in 1..Len(f.pending) : f.pending[i].kind # "Measurement"
      BY <3>1
    <3> QED BY <2>1, <2>4, <2>5, <3>1, <3>2, Zenon DEF Batched
  <2> QED BY <1>2, <2>6 DEF f
<1> QED BY <1>1, <1>2, FlushIs

\* An operation queued in a backend that has not failed.
LEMMA PushBatched ==
  ASSUME NEW b, Shape(b), Batched(b), b.failed = <<>>, NEW op
  PROVE  /\ IsSeq(Push(b, op).pending) /\ Push(b, op).pending # <<>>
         /\ Push(b, op).executed \o Push(b, op).pending = Push(b, op).committed
         /\ Len(Push(b, op).pending) = Len(b.pending) + 1
<1>0. IsSeq(b.executed) /\ IsSeq(b.pending) /\ b.executed \o b.failed \o b.pending = b.committed
  BY DEF Batched
<1>1. b.executed \o b.pending = b.committed
  <2>1. b.executed \o <<>> = b.executed
    BY <1>0, ConcatEmpty
  <2> QED BY <1>0, <2>1, Zenon
<1>2. b.executed \o Append(b.pending, op) = Append(b.committed, op)
  <2>1. b.executed \o Append(b.pending, op) = Append(b.executed \o b.pending, op)
    <3> DEFINE e == b.executed
               p == b.pending
    <3>1. IsSeq(e) /\ IsSeq(p)
      BY <1>0
    <3> HIDE DEF e, p
    <3>2. e \o Append(p, op) = Append(e \o p, op)
      BY <3>1, AppendConcat
    <3> QED BY <3>2 DEF e, p
  <2> QED BY <1>1, <2>1, Zenon
<1>3. /\ Push(b, op).pending = Append(b.pending, op) /\ Push(b, op).executed = b.executed
      /\ Push(b, op).committed = Append(b.committed, op)
  BY PushIs
<1>4. /\ IsSeq(Append(b.pending, op)) /\ Append(b.pending, op) # <<>>
      /\ Len(Append(b.pending, op)) = Len(b.pending) + 1
  BY <1>0, IsSeqAppend
<1>5. Push(b, op).executed \o Push(b, op).pending = Push(b, op).committed
  BY <1>2, <1>3, Zenon
<1> QED BY <1>3, <1>4, <1>5, Zenon

\* The same measurements are executed, in the same epoch.
Alike(b, c) == c.epoch = b.epoch /\ MeasuredIn(c.executed) = MeasuredIn(b.executed)

\* p is b with the operation op pushed; f is p with its batch executed or given up.
Pushed(b, op, p, o, acts) ==
  /\ Shape(p) /\ LogOk(p.committed, o, acts) /\ LastTick(p.committed, o) = op.tick
  /\ p.committed_tick = op.tick /\ p.fault = "None" /\ p.failed = <<>> /\ p.fails_in \in Nat
  /\ p.epoch = b.epoch /\ p.executed = b.executed /\ p.pending = Append(b.pending, op)
  /\ IsSeq(p.executed) /\ IsSeq(p.pending) /\ p.pending # <<>>
  /\ p.executed \o p.pending = p.committed
  /\ Len(p.pending) = Len(b.pending) + 1
Flushed(b, op, f, o, acts) ==
  /\ f.epoch = b.epoch
  /\ \/ Going(f, op.tick, o, acts) /\ f.executed = b.executed \o Append(b.pending, op)
     \/ Broken(f, o, acts) /\ f.executed = b.executed

\* Queueing an operation that continues the log.
LEMMA PushGoing ==
  ASSUME NEW b, NEW t, NEW o, NEW acts, Going(b, t, o, acts), NEW op, Continues(op, t, acts)
  PROVE  Pushed(b, op, Push(b, op), o, acts)
<1> DEFINE p == Push(b, op)
<1>0. /\ Shape(b) /\ Batched(b) /\ LogOk(b.committed, o, acts)
      /\ b.fault = "None" /\ b.failed = <<>> /\ b.fails_in \in Nat
      /\ LastTick(b.committed, o) = t
  BY DEF Going
<1>1. /\ Shape(p) /\ p.pending = Append(b.pending, op) /\ p.executed = b.executed
      /\ p.failed = b.failed /\ p.committed = Append(b.committed, op)
      /\ p.fault = b.fault /\ p.epoch = b.epoch
      /\ p.committed_tick = op.tick /\ p.fails_in = b.fails_in
  BY <1>0, PushIs
<1>2. /\ IsSeq(p.pending) /\ p.pending # <<>>
      /\ p.executed \o p.pending = p.committed
      /\ Len(p.pending) = Len(b.pending) + 1
  BY <1>0, PushBatched
<1>3. Continues(op, LastTick(b.committed, o), acts)
  BY <1>0, Zenon
<1>4. LogOk(Append(b.committed, op), o, acts) /\ LastTick(Append(b.committed, op), o) = op.tick
  BY <1>0, <1>3, LogContinues
<1>5. LogOk(p.committed, o, acts) /\ LastTick(p.committed, o) = op.tick
  BY <1>1, <1>4, Zenon
<1>6. IsSeq(b.executed)
  BY <1>0 DEF Batched
<1>7. IsSeq(p.executed)
  BY <1>1, <1>6, Zenon
<1> HIDE DEF p
<1> QED BY <1>0, <1>1, <1>2, <1>5, <1>7, Zenon DEF Pushed, p

\* Queueing it and executing the batch at once.
LEMMA PushFlush ==
  ASSUME NEW b, NEW t, NEW o, NEW acts, Going(b, t, o, acts), NEW op, Continues(op, t, acts)
  PROVE  Flushed(b, op, Flush(Push(b, op)), o, acts)
<1> DEFINE p == Push(b, op)
           f == Flush(p)
<1>1. /\ Shape(p) /\ LogOk(p.committed, o, acts) /\ LastTick(p.committed, o) = op.tick
      /\ p.committed_tick = op.tick /\ p.fault = "None" /\ p.failed = <<>> /\ p.fails_in \in Nat
      /\ p.epoch = b.epoch /\ p.executed = b.executed /\ p.pending = Append(b.pending, op)
      /\ IsSeq(p.executed) /\ IsSeq(p.pending) /\ p.pending # <<>>
      /\ p.executed \o p.pending = p.committed
  <2>1. Pushed(b, op, p, o, acts)
    BY PushGoing
  <2> HIDE DEF p
  <2> QED BY <2>1 DEF Pushed
<1>2. \/ Executed(p, f) /\ Batched(f)
      \/ GivenUp(p, f) /\ Batched(f)
  <2> HIDE DEF p
  <2> QED BY <1>1, FlushBatched
<1> HIDE DEF p, f
<1>3. CASE Executed(p, f) /\ Batched(f)
  <2>1. /\ Shape(f) /\ f.executed = p.executed \o p.pending /\ f.committed = p.committed /\ f.fault = "None"
        /\ f.failed = <<>> /\ f.committed_tick = op.tick /\ f.fails_in \in Nat /\ f.epoch = b.epoch
    BY <1>1, <1>3 DEF Executed
  <2>2. f.executed = b.executed \o Append(b.pending, op)
    BY <1>1, <2>1, Zenon
  <2>3. LogOk(f.committed, o, acts) /\ LastTick(f.committed, o) = op.tick
    BY <1>1, <2>1, Zenon
  <2>4. Going(f, op.tick, o, acts)
    BY <1>3, <2>1, <2>3 DEF Going
  <2> QED BY <2>1, <2>2, <2>4, Zenon DEF p, f, Flushed
<1>4. CASE GivenUp(p, f) /\ Batched(f)
  <2>1. /\ Shape(f) /\ f.executed = b.executed /\ f.committed = p.committed /\ f.fault = "BackendFailure"
        /\ f.epoch = b.epoch
    BY <1>1, <1>4 DEF GivenUp
  <2>3. LogOk(f.committed, o, acts)
    BY <1>1, <2>1, Zenon
  <2>4. Broken(f, o, acts)
    BY <1>4, <2>1, <2>3 DEF Broken
  <2> QED BY <2>1, <2>4, Zenon DEF p, f, Flushed
<1> QED BY <1>2, <1>3, <1>4

\* commit queues an operation and executes the batch when it is full; either
\* the backend goes on from the tick of the operation or it has failed.
LEMMA CommitStep ==
  ASSUME NEW b, NEW t \in Nat, NEW o, NEW acts, Going(b, t, o, acts), NEW op, Continues(op, t, acts),
         op.kind # "Measurement"
  PROVE  /\ Alike(b, Commit(b, op))
         /\ Going(Commit(b, op), op.tick, o, acts) \/ Broken(Commit(b, op), o, acts)
<1> DEFINE p == Push(b, op)
           f == Flush(p)
<1>0. /\ IsSeq(b.executed) /\ IsSeq(b.pending) /\ \A i \in 1..Len(b.pending) : b.pending[i].kind # "Measurement"
      /\ Len(b.pending) \in Nat /\ Len(b.pending) < MaxBatch /\ b.committed_tick = t
  BY IsSeqLen DEF Going, Batched
<1>1. ~(op.tick < b.committed_tick)
  BY <1>0 DEF Continues
<1>2. Commit(b, op) = IF Len(p.pending) = MaxBatch THEN f ELSE p
  BY <1>1 DEF Commit
<1>3. /\ Shape(p) /\ LogOk(p.committed, o, acts) /\ LastTick(p.committed, o) = op.tick
      /\ p.committed_tick = op.tick /\ p.fault = "None" /\ p.failed = <<>> /\ p.fails_in \in Nat
      /\ p.epoch = b.epoch /\ p.executed = b.executed /\ p.pending = Append(b.pending, op)
      /\ IsSeq(p.executed) /\ IsSeq(p.pending) /\ p.pending # <<>>
      /\ p.executed \o p.pending = p.committed
      /\ Len(p.pending) = Len(b.pending) + 1
  <2>1. Pushed(b, op, p, o, acts)
    BY PushGoing
  <2> HIDE DEF p
  <2> QED BY <2>1 DEF Pushed
<1>4. \A i \in 1..Len(p.pending) : p.pending[i].kind # "Measurement"
  <2> DEFINE q == b.pending
             u == Append(q, op)
  <2>1. /\ Len(u) = Len(q) + 1 /\ u[Len(q) + 1] = op
        /\ \A i \in 1..Len(q) : u[i] = q[i]
        /\ Len(q) \in Nat /\ p.pending = u /\ \A i \in 1..Len(q) : q[i].kind # "Measurement"
    BY <1>0, <1>3, IsSeqAppend
  <2> HIDE DEF q, u, p
  <2>2. \A i \in 1..Len(u) : u[i].kind # "Measurement"
    BY <2>1
  <2> QED BY <2>1, <2>2
<1>5. CASE Len(p.pending) # MaxBatch
  <2>0. Commit(b, op) = p
    BY <1>2, <1>5
  <2>1. Batched(p)
    <3>1. p.executed \o <<>> = p.executed
      BY <1>3, ConcatEmpty
    <3>2. p.executed \o p.failed \o p.pending = p.committed
      BY <1>3, <3>1, Zenon
    <3>3. Len(p.pending) < MaxBatch
      BY <1>0, <1>3, <1>5, BatchAssumption
    <3>4. IsSeq(p.failed)
      BY <1>3, IsSeqEmpty, Zenon
    <3> HIDE DEF p
    <3> QED BY <1>3, <1>4, <3>2, <3>3, <3>4, Zenon DEF Batched
  <2> HIDE DEF p
  <2>2. Going(p, op.tick, o, acts)
    BY <1>3, <2>1 DEF Going
  <2>3. Alike(b, p)
    BY <1>3 DEF Alike
  <2> QED BY <2>0, <2>2, <2>3
<1>6. CASE Len(p.pending) = MaxBatch
  <2>0. Commit(b, op) = f
    BY <1>2, <1>6
  <2>1. /\ f.epoch = b.epoch
        /\ \/ Going(f, op.tick, o, acts) /\ f.executed = b.executed \o Append(b.pending, op)
           \/ Broken(f, o, acts) /\ f.executed = b.executed
    <3>1. Flushed(b, op, f, o, acts)
      BY PushFlush
    <3> HIDE DEF f
    <3> QED BY <3>1 DEF Flushed
  <2>2. MeasuredIn(b.executed \o Append(b.pending, op)) = MeasuredIn(b.executed)
    <3> DEFINE e == b.executed
               q == Append(b.pending, op)
    <3>1. IsSeq(e) /\ IsSeq(q) /\ \A i \in 1..Len(q) : q[i].kind # "Measurement"
      BY <1>0, <1>3, <1>4, Zenon
    <3> HIDE DEF e, q
    <3>2. MeasuredIn(e \o q) = MeasuredIn(e) \cup MeasuredIn(q) /\ MeasuredIn(q) = {}
      BY <3>1, MeasuredConcat, MeasuredNone
    <3> QED BY <3>2 DEF e, q
  <2> HIDE DEF f
  <2>3. Alike(b, f)
    <3>1. CASE f.executed = b.executed \o Append(b.pending, op)
      BY <2>1, <2>2, <3>1, Zenon DEF Alike
    <3>2. CASE f.executed = b.executed
      BY <2>1, <3>2, Zenon DEF Alike
    <3> QED BY <2>1, <3>1, <3>2
  <2> QED BY <2>0, <2>1, <2>3
<1> QED BY <1>5, <1>6

\* evolve to the tick n, which is nothing at all when n has been reached.
LEMMA EvolveStep ==
  ASSUME NEW b, NEW t \in Nat, NEW o, NEW acts, Going(b, t, o, acts), NEW n \in Nat, t <= n,
         NEW drives, NEW acquisitions, t < n => DrivenBy(Evolution(t, n, drives, acquisitions), acts)
  PROVE  LET e == Evolve(b, t, n, drives, acquisitions)
         IN  Alike(b, e) /\ (Going(e, n, o, acts) \/ Broken(e, o, acts))
<1> DEFINE op == Evolution(t, n, drives, acquisitions)
           e == Evolve(b, t, n, drives, acquisitions)
<1>1. b.committed_tick = t
  BY DEF Going
<1>2. op.kind = "Evolution" /\ op.start = t /\ op.tick = n
  BY DEF Evolution
<1>3. CASE n = t
  <2>1. e = b
    BY <1>1, <1>3 DEF Evolve
  <2> QED BY <1>3, <2>1, Zenon DEF Alike
<1>4. CASE n # t
  <2>1. e = Commit(b, op)
    BY <1>1, <1>4 DEF Evolve
  <2>2. Continues(op, t, acts)
    BY <1>2, <1>4 DEF Continues
  <2> HIDE DEF op
  <2>3. Alike(b, Commit(b, op)) /\ (Going(Commit(b, op), op.tick, o, acts) \/ Broken(Commit(b, op), o, acts))
    BY <1>2, <2>2, CommitStep
  <2> QED BY <1>2, <2>1, <2>3, Zenon
<1> QED BY <1>3, <1>4

\* apply the gates of a tick.
LEMMA ApplyStep ==
  ASSUME NEW b, NEW t \in Nat, NEW o, NEW acts, Going(b, t, o, acts), NEW gates
  PROVE  Alike(b, Apply(b, t, gates)) /\ (Going(Apply(b, t, gates), t, o, acts) \/ Broken(Apply(b, t, gates), o, acts))
<1> DEFINE op == Gates(t, gates)
<1>1. CASE gates = <<>>
  BY <1>1 DEF Apply, Alike
<1>2. CASE gates # <<>>
  <2>1. op.kind = "Gates" /\ op.tick = t
    BY DEF Gates
  <2>2. Continues(op, t, acts)
    BY <2>1 DEF Continues
  <2>3. Apply(b, t, gates) = Commit(b, op)
    BY <1>2 DEF Apply
  <2> HIDE DEF op
  <2>4. Alike(b, Commit(b, op)) /\ (Going(Commit(b, op), op.tick, o, acts) \/ Broken(Commit(b, op), o, acts))
    BY <2>1, <2>2, CommitStep
  <2> QED BY <2>1, <2>3, <2>4, Zenon
<1> QED BY <1>1, <1>2

\* The measurements of a list of references.
MeasurementsOf(refs) == {refs[k].measurement : k \in 1..Len(refs)}

\* measure executes the whole batch, so that its outcomes are known, or fails
\* without any outcome.
LEMMA MeasureStep ==
  ASSUME NEW b, NEW t \in Nat, NEW o, NEW acts, Going(b, t, o, acts), NEW refs, Len(refs) \in Nat,
         \A i \in 1..Len(refs) : refs[i].epoch = b.epoch,
         \A i, j \in 1..Len(refs) : refs[i].target = refs[j].target => i = j
  PROVE  LET m == Measure(b, t, refs)
         IN  \/ /\ Going(m, t, o, acts) /\ m.epoch = b.epoch
                /\ MeasuredIn(m.executed) = MeasuredIn(b.executed) \cup MeasurementsOf(refs)
             \/ Broken(m, o, acts) /\ Alike(b, m)
<1> DEFINE op == Measurement(t, refs)
           m == Measure(b, t, refs)
<1>1. CASE refs = <<>>
  <2>1. m = b
    BY <1>1 DEF Measure
  <2>2. MeasurementsOf(refs) = {}
    BY <1>1 DEF MeasurementsOf
  <2> QED BY <2>1, <2>2
<1>2. CASE refs # <<>>
  <2>0. /\ IsSeq(b.executed) /\ IsSeq(b.pending) /\ \A i \in 1..Len(b.pending) : b.pending[i].kind # "Measurement"
        /\ b.committed_tick = t
    BY DEF Going, Batched
  <2>1. m = Flush(Push(b, op))
    BY <1>2, <2>0 DEF Measure
  <2>2. op.kind = "Measurement" /\ op.tick = t /\ op.references = refs
    BY DEF Measurement
  <2>3. Continues(op, t, acts)
    BY <2>2 DEF Continues
  <2> HIDE DEF op
  <2> DEFINE f == Flush(Push(b, op))
  <2>4. /\ f.epoch = b.epoch
        /\ \/ Going(f, op.tick, o, acts) /\ f.executed = b.executed \o Append(b.pending, op)
           \/ Broken(f, o, acts) /\ f.executed = b.executed
    <3>1. Flushed(b, op, f, o, acts)
      BY <2>3, PushFlush
    <3> HIDE DEF f
    <3> QED BY <3>1 DEF Flushed
  <2>5. MeasuredIn(b.executed \o Append(b.pending, op)) = MeasuredIn(b.executed) \cup MeasurementsOf(refs)
    <3> DEFINE e == b.executed
               q == b.pending
               u == Append(q, op)
    <3>1. IsSeq(e) /\ IsSeq(q) /\ \A i \in 1..Len(q) : q[i].kind # "Measurement"
      BY <2>0
    <3> HIDE DEF e, q
    <3>2. MeasuredIn(u) = {op.references[k].measurement : k \in 1..Len(op.references)}
      BY <2>2, <3>1, MeasuredAppend
    <3>3. IsSeq(u)
      BY <3>1, IsSeqAppend
    <3> HIDE DEF u
    <3>4. MeasuredIn(e \o u) = MeasuredIn(e) \cup MeasuredIn(u)
      BY <3>1, <3>3, MeasuredConcat
    <3>5. MeasuredIn(u) = MeasurementsOf(refs)
      BY <2>2, <3>2 DEF MeasurementsOf
    <3>6. MeasuredIn(e \o u) = MeasuredIn(e) \cup MeasurementsOf(refs)
      BY <3>4, <3>5
    <3> QED BY <3>6 DEF e, u, q
  <2> HIDE DEF f, m
  <2>6. m = f
    BY <2>1 DEF f, m
  <2>7. CASE Going(f, op.tick, o, acts) /\ f.executed = b.executed \o Append(b.pending, op)
    BY <2>2, <2>4, <2>5, <2>6, <2>7, Zenon DEF m
  <2>8. CASE Broken(f, o, acts) /\ f.executed = b.executed
    BY <2>4, <2>6, <2>8, Zenon DEF Alike, m
  <2> QED BY <2>4, <2>7, <2>8
<1> QED BY <1>1, <1>2

-----------------------------------------------------------------------------
(* A boundary: what it lists and what its checks find.                     *)

\* The boundary b of the current tick is about to be processed.
AtBoundary(b) == Core /\ ~stopped /\ now \in DOMAIN boundaries /\ b = boundaries[now]

\* The acquisitions that end at the current tick.
EndingNow == {a \in Acquired : a.end = now}

\* The ticks of an accepted action.
LEMMA ActionTicks ==
  ASSUME Core, NEW a \in accepted
  PROVE  /\ a.start \in Nat /\ a.end \in Nat /\ a.delay \in Nat /\ a.start < a.end /\ origin <= a.start
         /\ Due(a) \in Nat /\ a.end <= Due(a) /\ now \in Nat /\ a.epoch = epoch
<1>1. \A x \in accepted : x.start \in Nat
  BY DEF Core, ActionInv, ActionOk
<1>2. ActionOk(a) /\ now \in Nat
  BY DEF Core, ActionInv, TimeInv
<1>3. a.start \in Nat /\ a.end \in Nat /\ a.delay \in Nat /\ a.start < a.end /\ origin <= a.start /\ a.epoch = epoch
  BY <1>2 DEF ActionOk
<1>4. DueOf(accepted, a) \in Nat /\ a.end <= DueOf(accepted, a)
  BY <1>1, <1>3, DueNat
<1> QED BY <1>2, <1>3, <1>4 DEF Due

\* What has not been processed of an accepted action waits at a boundary that
\* is not in the past.
LEMMA OpenPending ==
  ASSUME Core, NEW a \in accepted
  PROVE  /\ ~Closed(a.start) => a.start \in DOMAIN boundaries /\ now <= a.start
         /\ ~Closed(a.end) => a.end \in DOMAIN boundaries /\ now <= a.end
         /\ a \in Acquired /\ ~Closed(Due(a)) => Due(a) \in DOMAIN boundaries /\ now <= Due(a)
<1>0. /\ \A t \in DOMAIN boundaries : now <= t
      /\ \A t \in Nat : ~Closed(t) => Complete(BoundaryAt(t), accepted, t)
  BY DEF Core, BoundaryInv
<1>1. ASSUME NEW t \in Nat, ~Closed(t), t \notin DOMAIN boundaries
      PROVE  StartsAt(accepted, t) = {} /\ EndsAt(accepted, t) = {} /\ ReadyAt(accepted, t) = {}
  <2>1. BoundaryAt(t) = NoBoundary
    BY <1>1 DEF BoundaryAt
  <2>2. Complete(NoBoundary, accepted, t)
    BY <1>0, <1>1, <2>1
  <2>3. /\ Lists(<<>>, StartsAt(accepted, t)) /\ Lists(<<>>, EndsAt(accepted, t))
        /\ Lists(<<>>, ReadyAt(accepted, t))
    BY <2>2 DEF Complete, NoBoundary
  <2> QED BY <2>3, ListsNothing
<1>2. a.start \in Nat /\ a.end \in Nat /\ Due(a) \in Nat
  BY ActionTicks
<1>3. ASSUME ~Closed(a.start) PROVE a.start \in DOMAIN boundaries
  <2>1. a \in StartsAt(accepted, a.start)
    BY DEF StartsAt
  <2> QED BY <1>1, <1>2, <1>3, <2>1
<1>4. ASSUME ~Closed(a.end) PROVE a.end \in DOMAIN boundaries
  <2>1. a.id \in EndsAt(accepted, a.end)
    BY DEF EndsAt
  <2> QED BY <1>1, <1>2, <1>4, <2>1
<1>5. ASSUME a \in Acquired, ~Closed(Due(a)) PROVE Due(a) \in DOMAIN boundaries
  <2>1. MeasurementOf(a) \in ReadyAt(accepted, Due(a))
    BY <1>5 DEF ReadyAt, Due, Acquired
  <2> QED BY <1>1, <1>2, <1>5, <2>1
<1> QED BY <1>0, <1>3, <1>4, <1>5

\* At a boundary exactly the ticks before it are closed.
LEMMA ClosedBefore ==
  ASSUME NEW b, AtBoundary(b)
  PROVE  /\ Complete(b, accepted, now) /\ now \in Nat /\ last_tick \in Nat /\ last_tick <= now
         /\ ~Closed(now) /\ \A t \in Nat : now <= t => ~Closed(t)
         /\ processed_tick # <<>> => processed_tick = <<last_tick>> /\ last_tick < now
         /\ \A t : Closed(t) <=> processed_tick # <<>> /\ t <= last_tick
<1>0. Core /\ ~stopped /\ now \in DOMAIN boundaries /\ b = boundaries[now]
  BY DEF AtBoundary
<1>1. now \in Nat /\ ~Closed(now) /\ Complete(BoundaryAt(now), accepted, now)
  BY <1>0 DEF Core, BoundaryInv
<1>2. BoundaryAt(now) = b
  BY <1>0 DEF BoundaryAt
<1>3. last_tick \in Nat /\ last_tick <= now /\ (processed_tick # <<>> => processed_tick = <<last_tick>>)
  BY <1>0 DEF Core, TimeInv
<1>4. \A t : Closed(t) <=> processed_tick # <<>> /\ t <= last_tick
  BY <1>3 DEF Closed
<1>5. \A t \in Nat : now <= t => ~Closed(t)
  BY <1>1, <1>3, <1>4
<1>6. processed_tick # <<>> => last_tick < now
  BY <1>1, <1>3, <1>4
<1> QED BY <1>1, <1>2, <1>3, <1>4, <1>5, <1>6

\* An action that ends at this boundary has started, at an earlier one.
LEMMA EndedStarted ==
  ASSUME NEW b, AtBoundary(b), NEW a \in accepted, a.end = now
  PROVE  a \in active /\ Closed(a.start)
<1>0. Core /\ ActiveInv
  BY DEF AtBoundary, Core
<1>1. a.start \in Nat /\ a.start < now /\ now \in Nat
  BY <1>0, ActionTicks
<1>2. Closed(a.start)
  BY <1>0, <1>1, OpenPending
<1>3. ~Closed(a.end)
  BY ClosedBefore
<1> QED BY <1>0, <1>2, <1>3 DEF ActiveInv

\* An active action is found under its identity.
LEMMA StartedIs ==
  ASSUME NEW b, AtBoundary(b), NEW a \in active
  PROVE  Started(a.id) = {a} /\ a \in accepted /\ (CHOOSE x \in active : x.id = a.id) = a
<1>1. active \subseteq accepted /\ \A x, y \in accepted : x.id = y.id => x = y
  BY DEF AtBoundary, Core, ActiveInv, ActionInv
<1>2. \A x \in active : x.id = a.id <=> x = a
  BY <1>1
<1> QED BY <1>1, <1>2 DEF Started

\* The actions that the boundary ends are those whose last tick is now.
LEMMA EndingIs ==
  ASSUME NEW b, AtBoundary(b)
  PROVE  /\ Ending(b) = {a \in accepted : a.end = now}
         /\ \A i \in 1..Len(b.ends) : \E a \in active : a.end = now /\ b.ends[i] = a.id
<1>0. Lists(b.ends, EndsAt(accepted, now))
  BY ClosedBefore DEF Complete
<1>1. /\ \A i \in 1..Len(b.ends) : b.ends[i] \in EndsAt(accepted, now)
      /\ \A x \in EndsAt(accepted, now) : \E i \in 1..Len(b.ends) : b.ends[i] = x
  BY <1>0, ListsSeq DEF Lists
<1>2. \A i \in 1..Len(b.ends) : \E a \in active : a.end = now /\ b.ends[i] = a.id
  BY <1>1, EndedStarted DEF EndsAt
<1>3. active \subseteq accepted /\ \A x, y \in accepted : x.id = y.id => x = y
  BY DEF AtBoundary, Core, ActiveInv, ActionInv
<1>4. ASSUME NEW a \in Ending(b) PROVE a \in accepted /\ a.end = now
  <2>1. PICK i \in 1..Len(b.ends) : a \in active /\ b.ends[i] = a.id
    BY DEF Ending
  <2>2. PICK c \in active : c.end = now /\ b.ends[i] = c.id
    BY <1>2
  <2> QED BY <1>3, <2>1, <2>2
<1>5. ASSUME NEW a \in accepted, a.end = now PROVE a \in Ending(b)
  <2>1. a \in active /\ a.id \in EndsAt(accepted, now)
    BY <1>5, EndedStarted DEF EndsAt
  <2> QED BY <1>1, <2>1 DEF Ending
<1> QED BY <1>2, <1>4, <1>5

\* The reference of an accepted acquisition.
LEMMA ReadoutIs ==
  ASSUME Core, NEW a \in Acquired
  PROVE  \E m \in Nat \ {0} : \E q \in a.targets :
           /\ a.targets = {q} /\ a.core \in Cores
           /\ a.reference = <<[epoch |-> epoch, measurement |-> GlobalId(m, a.core), target |-> q]>>
<1>1. a \in accepted /\ ActionOk(a) /\ IsReadout(a) /\ next_id \in [Cores -> [event : Nat \ {0}, measurement : Nat \ {0}]]
  BY DEF Core, ActionInv, Acquired, AcquiredIn, IsReadout, TimeInv
<1>2. a.core \in Cores
  BY <1>1 DEF ActionOk
<1>3. PICK m \in 1..(next_id[a.core].measurement - 1) : \E q \in a.targets :
         /\ a.targets = {q}
         /\ a.reference = <<[epoch |-> epoch, measurement |-> GlobalId(m, a.core), target |-> q]>>
  BY <1>1 DEF ActionOk
<1>4. next_id[a.core].measurement \in Nat
  BY <1>1, <1>2
<1>5. m \in Nat \ {0}
  <2> DEFINE n == next_id[a.core].measurement
  <2>1. n \in Nat /\ m \in 1..(n - 1)
    BY <1>4
  <2> HIDE DEF n
  <2> QED BY <2>1
<1> QED BY <1>2, <1>3, <1>5

\* Its fields.
LEMMA ReferenceFields ==
  ASSUME Core, NEW a \in Acquired
  PROVE  /\ a.targets = {a.reference[1].target} /\ a.reference[1].epoch = epoch
         /\ a.reference[1].measurement = MeasurementOf(a)
         /\ LocalCore(MeasurementOf(a)) = a.core
         /\ a.reference = <<a.reference[1]>>
<1>1. PICK m \in Nat \ {0} : \E q \in a.targets :
           /\ a.targets = {q} /\ a.core \in Cores
           /\ a.reference = <<[epoch |-> epoch, measurement |-> GlobalId(m, a.core), target |-> q]>>
  BY ReadoutIs
<1>2. PICK q \in a.targets :
           /\ a.targets = {q} /\ a.core \in Cores
           /\ a.reference = <<[epoch |-> epoch, measurement |-> GlobalId(m, a.core), target |-> q]>>
  BY <1>1
<1>3. /\ a.reference[1].target = q /\ a.reference[1].epoch = epoch
      /\ a.reference[1].measurement = GlobalId(m, a.core) /\ a.reference = <<a.reference[1]>>
  BY <1>2
<1>4. LocalCore(GlobalId(m, a.core)) = a.core
  BY <1>2, GlobalIdLocal
<1> QED BY <1>2, <1>3, <1>4 DEF MeasurementOf

\* Two acquisitions that end together have different targets, for they have
\* been reserved against each other.
LEMMA SampleTargets ==
  ASSUME NEW b, AtBoundary(b), NEW x \in EndingNow, NEW y \in EndingNow, x.reference[1].target = y.reference[1].target
  PROVE  x = y
<1>0. Core /\ x \in Acquired /\ y \in Acquired /\ x \in accepted /\ y \in accepted
      /\ x.kind = "Acquire" /\ y.kind = "Acquire" /\ x.end = now /\ y.end = now
  BY DEF AtBoundary, EndingNow, Acquired, AcquiredIn
<1>1. CommonTarget(x, y)
  <2>1. x.targets = {x.reference[1].target} /\ y.targets = {y.reference[1].target}
    BY <1>0, ReferenceFields
  <2> QED BY <2>1 DEF CommonTarget
<1>2. Overlap(x, y)
  BY <1>0, ActionTicks DEF Overlap
<1>3. Incompatible(x, y) /\ ~SameGate(x, y)
  BY <1>0, <1>1 DEF Incompatible, IsArm, SameGate
<1>4. PairFault(x, y) # "None"
  BY <1>2, <1>3 DEF PairFault
<1> QED BY <1>0, <1>4 DEF Core, ActionInv

\* The boundary samples exactly the acquisitions that end now.
LEMMA SamplesAre ==
  ASSUME NEW b, AtBoundary(b)
  PROVE  Lists(Samples(b), {a.reference[1] : a \in EndingNow})
<1> DEFINE P == {i \in 1..Len(b.ends) : \E a \in Started(b.ends[i]) : a.kind = "Acquire"}
           acquire == At(b.ends, P)
           I == {a.id : a \in EndingNow}
           f == [id \in I |-> (CHOOSE a \in active : a.id = id).reference[1]]
<1>0. Lists(b.ends, EndsAt(accepted, now))
  BY ClosedBefore DEF Complete
<1>1. ASSUME NEW a \in EndingNow
      PROVE  /\ a \in active /\ a \in accepted /\ a.kind = "Acquire" /\ a.end = now /\ Started(a.id) = {a}
             /\ f[a.id] = a.reference[1]
  <2>1. a \in accepted /\ a.kind = "Acquire" /\ a.end = now
    BY DEF EndingNow, Acquired, AcquiredIn
  <2>2. a \in active
    BY <2>1, EndedStarted
  <2>3. Started(a.id) = {a} /\ (CHOOSE x \in active : x.id = a.id) = a
    BY <2>2, StartedIs
  <2> QED BY <2>1, <2>2, <2>3
<1>2. {b.ends[i] : i \in {j \in 1..Len(b.ends) : j \in P}} = I
  <2>1. ASSUME NEW i \in 1..Len(b.ends), i \in P PROVE b.ends[i] \in I
    <3>1. PICK a \in active : a.end = now /\ b.ends[i] = a.id
      BY EndingIs
    <3>2. Started(a.id) = {a} /\ a \in accepted
      BY <3>1, StartedIs
    <3>3. a.kind = "Acquire"
      BY <2>1, <3>1, <3>2
    <3>4. a \in EndingNow
      BY <3>1, <3>2, <3>3 DEF EndingNow, Acquired, AcquiredIn
    <3> QED BY <3>1, <3>4
  <2>2. ASSUME NEW a \in EndingNow PROVE \E i \in 1..Len(b.ends) : i \in P /\ b.ends[i] = a.id
    <3>1. a.id \in EndsAt(accepted, now)
      BY <1>1 DEF EndsAt
    <3>2. PICK i \in 1..Len(b.ends) : b.ends[i] = a.id
      BY <1>0, <3>1 DEF Lists
    <3>3. i \in P
      BY <1>1, <3>2
    <3> QED BY <3>2, <3>3
  <2> HIDE DEF P
  <2> QED BY <2>1, <2>2
<1>3. Lists(acquire, I)
  <2>1. Lists(acquire, {b.ends[i] : i \in {j \in 1..Len(b.ends) : j \in P}})
    <3> HIDE DEF P
    <3> QED BY <1>0, AtLists
  <2> HIDE DEF P, I, acquire
  <2> QED BY <1>2, <2>1
<1>4. \A x, y \in I : f[x] = f[y] => x = y
  <2> SUFFICES ASSUME NEW a \in EndingNow, NEW c \in EndingNow, f[a.id] = f[c.id] PROVE a = c
    OBVIOUS
  <2>1. a.reference[1] = c.reference[1]
    BY <1>1
  <2> QED BY <2>1, SampleTargets
<1>5. {f[x] : x \in I} = {a.reference[1] : a \in EndingNow}
  <2> HIDE DEF f
  <2> QED BY <1>1
<1>6. Samples(b) = [i \in 1..Len(acquire) |-> f[acquire[i]]]
  <2>1. Samples(b) = [i \in 1..Len(acquire) |-> (CHOOSE a \in active : a.id = acquire[i]).reference[1]]
    BY DEF Samples
  <2>2. \A i \in 1..Len(acquire) : acquire[i] \in I
    BY <1>3, ListsSeq
  <2> HIDE DEF acquire, I
  <2>3. \A i \in 1..Len(acquire) : f[acquire[i]] = (CHOOSE a \in active : a.id = acquire[i]).reference[1]
    BY <2>2
  <2> HIDE DEF f
  <2> QED BY <2>1, <2>3
<1> HIDE DEF f, I, acquire
<1>7. Lists([i \in 1..Len(acquire) |-> f[acquire[i]]], {f[x] : x \in I})
  BY <1>3, <1>4, ListsMap
<1> QED BY <1>5, <1>6, <1>7

\* The references that the backend is asked to measure.
LEMMA SampleSequence ==
  ASSUME NEW b, AtBoundary(b)
  PROVE  /\ Len(Samples(b)) \in Nat
         /\ \A i \in 1..Len(Samples(b)) : \E a \in EndingNow : Samples(b)[i] = a.reference[1]
         /\ \A i \in 1..Len(Samples(b)) : Samples(b)[i].epoch = epoch
         /\ \A i, j \in 1..Len(Samples(b)) : Samples(b)[i].target = Samples(b)[j].target => i = j
         /\ MeasurementsOf(Samples(b)) = {MeasurementOf(a) : a \in EndingNow}
<1> DEFINE s == Samples(b)
           S == {a.reference[1] : a \in EndingNow}
<1>0. Lists(s, S)
  BY SamplesAre
<1>c. Core /\ \A a \in EndingNow : a \in Acquired
  BY DEF AtBoundary, EndingNow
<1> HIDE DEF s
<1>1. Len(s) \in Nat /\ \A i \in 1..Len(s) : s[i] \in S
  BY <1>0, ListsSeq
<1>2. \A i \in 1..Len(s) : \E a \in EndingNow : s[i] = a.reference[1]
  BY <1>1
<1>3. \A i \in 1..Len(s) : s[i].epoch = epoch
  <2> SUFFICES ASSUME NEW i \in 1..Len(s) PROVE s[i].epoch = epoch
    OBVIOUS
  <2>1. PICK a \in EndingNow : s[i] = a.reference[1]
    BY <1>2
  <2> QED BY <1>c, <2>1, ReferenceFields
<1>4. ASSUME NEW i \in 1..Len(s), NEW j \in 1..Len(s), s[i].target = s[j].target PROVE i = j
  <2>1. PICK x \in EndingNow : s[i] = x.reference[1]
    BY <1>2
  <2>2. PICK y \in EndingNow : s[j] = y.reference[1]
    BY <1>2
  <2>3. x = y
    BY <1>4, <2>1, <2>2, SampleTargets
  <2> QED BY <1>0, <2>1, <2>2, <2>3 DEF Lists
<1>5. MeasurementsOf(s) = {MeasurementOf(a) : a \in EndingNow}
  <2>1. \A a \in EndingNow : \E i \in 1..Len(s) : s[i] = a.reference[1]
    BY <1>0 DEF Lists
  <2> QED BY <1>2, <2>1, SMTT(30) DEF MeasurementsOf, MeasurementOf
<1> QED BY <1>1, <1>2, <1>3, <1>4, <1>5 DEF s

\* No target is sampled twice.
LEMMA TargetsCounted ==
  ASSUME NEW b, AtBoundary(b)
  PROVE  Cardinality({Samples(b)[i].target : i \in 1..Len(Samples(b))}) = Len(Samples(b))
<1> DEFINE s == Samples(b)
           T == {s[i].target : i \in 1..Len(s)}
           u == [i \in 1..Len(s) |-> s[i].target]
<1>1. Len(s) \in Nat /\ \A i, j \in 1..Len(s) : s[i].target = s[j].target => i = j
  BY SampleSequence
<1> HIDE DEF s
<1>2. IsSeq(u) /\ Len(u) = Len(s)
  <2>1. u \in Seq(T)
    BY <1>1
  <2>2. Len(u) = Len(s)
    BY <1>1
  <2> QED BY <2>1, <2>2 DEF IsSeq
<1>3. \A i \in 1..Len(u) : u[i] \in T
  BY <1>2
<1>4. \A i, j \in 1..Len(u) : u[i] = u[j] => i = j
  BY <1>1, <1>2
<1>5. \A x \in T : \E i \in 1..Len(u) : u[i] = x
  BY <1>2
<1> HIDE DEF u, T
<1>6. Lists(u, T)
  BY <1>2, <1>3, <1>4, <1>5, ListsIntro
<1> QED BY <1>2, <1>6, ListsCard DEF T, s

\* The boundary starts exactly the actions that start now.
LEMMA StartsAre ==
  ASSUME NEW b, AtBoundary(b)
  PROVE  {b.starts[i] : i \in 1..Len(b.starts)} = {a \in accepted : a.start = now}
<1>1. Lists(b.starts, StartsAt(accepted, now))
  BY ClosedBefore DEF Complete
<1>2. /\ \A i \in 1..Len(b.starts) : b.starts[i] \in StartsAt(accepted, now)
      /\ \A x \in StartsAt(accepted, now) : \E i \in 1..Len(b.starts) : b.starts[i] = x
  BY <1>1, ListsSeq DEF Lists
<1> QED BY <1>2 DEF StartsAt

\* The boundary completes exactly the readouts that are due now.
LEMMA ReadyAre ==
  ASSUME NEW b, AtBoundary(b)
  PROVE  /\ Lists(b.ready, {MeasurementOf(a) : a \in {x \in Acquired : Due(x) = now}})
         /\ \A i \in 1..Len(b.ready) : \E a \in Acquired : Due(a) = now /\ b.ready[i] = MeasurementOf(a)
<1>1. Lists(b.ready, ReadyAt(accepted, now))
  BY ClosedBefore DEF Complete
<1>2. ReadyAt(accepted, now) = {MeasurementOf(a) : a \in {x \in Acquired : Due(x) = now}}
  BY DEF ReadyAt, Due, Acquired
<1>3. \A i \in 1..Len(b.ready) : b.ready[i] \in ReadyAt(accepted, now)
  BY <1>1, ListsSeq
<1> QED BY <1>1, <1>2, <1>3

\* A readout that becomes ready has been sampled, at this boundary at the latest.
LEMMA ReadySampled ==
  ASSUME NEW b, AtBoundary(b), NEW outcome, DOMAIN outcome = {MeasurementOf(a) : a \in EndingNow},
         NEW a \in Acquired, ~Closed(Due(a))
  PROVE  LET id == MeasurementOf(a)
             taken == Sample(readouts, outcome)
         IN  /\ id \in DOMAIN taken /\ id \in DOMAIN readouts
             /\ a \in accepted /\ a.end \in Nat /\ Due(a) \in Nat
             /\ id \in DOMAIN outcome <=> a.end = now
             /\ taken[id] = [reference |-> a.reference[1], end |-> a.end, arm |-> ArmOf(accepted, a),
                             ready |-> Due(a),
                             sample |-> IF Closed(a.end) THEN <<sampled[id]>>
                                        ELSE IF a.end = now THEN <<outcome[id]>> ELSE <<>>,
                             core |-> a.core]
<1> DEFINE id == MeasurementOf(a)
           taken == Sample(readouts, outcome)
<1>0. Core /\ a \in accepted /\ now \in Nat
  BY ClosedBefore DEF AtBoundary, Acquired, AcquiredIn
<1>1. a.end \in Nat /\ Due(a) \in Nat
  BY <1>0, ActionTicks
<1>2. id \in DOMAIN readouts /\ readouts[id] = ReadoutFor(a)
  BY <1>0 DEF Core, ReadoutInv
<1>3. id \in DOMAIN outcome <=> a.end = now
  <2>1. \A x, y \in Acquired : MeasurementOf(x) = MeasurementOf(y) => x = y
    BY <1>0 DEF Core, ActionInv
  <2> QED BY <2>1 DEF EndingNow
<1>4. a.end = now => ~Closed(a.end)
  BY ClosedBefore
<1>5. DOMAIN taken = DOMAIN readouts
  BY DEF Sample
<1> HIDE DEF id
<1>6. taken[id] = IF id \in DOMAIN outcome THEN [readouts[id] EXCEPT !.sample = <<outcome[id]>>] ELSE readouts[id]
  BY <1>2 DEF Sample
<1> HIDE DEF taken
<1>7. readouts[id] = [reference |-> a.reference[1], end |-> a.end, arm |-> ArmOf(accepted, a),
                      ready |-> Due(a),
                      sample |-> IF Closed(a.end) THEN <<sampled[id]>> ELSE <<>>,
                      core |-> a.core]
  BY <1>2 DEF ReadoutFor, id
<1>8. CASE a.end = now
  <2>1. taken[id] = [readouts[id] EXCEPT !.sample = <<outcome[id]>>] /\ ~Closed(a.end)
    BY <1>3, <1>4, <1>6, <1>8
  <2> DEFINE r == readouts[id]
             o == <<outcome[id]>>
             v == IF Closed(a.end) THEN <<sampled[id]>> ELSE <<>>
  <2>2. r = [reference |-> a.reference[1], end |-> a.end, arm |-> ArmOf(accepted, a), ready |-> Due(a),
             sample |-> v, core |-> a.core] /\ taken[id] = [r EXCEPT !.sample = o]
    BY <1>7, <2>1
  <2>3. o = IF Closed(a.end) THEN <<sampled[id]>>
            ELSE IF a.end = now THEN <<outcome[id]>> ELSE <<>>
    BY <1>8, <2>1
  <2> HIDE DEF r, o, v
  <2>4. taken[id] = [reference |-> a.reference[1], end |-> a.end, arm |-> ArmOf(accepted, a), ready |-> Due(a),
                     sample |-> o, core |-> a.core]
    BY <2>2
  <2> QED BY <1>0, <1>1, <1>2, <1>3, <1>5, <2>3, <2>4 DEF id, taken
<1>9. CASE a.end # now
  <2>1. taken[id] = readouts[id]
    BY <1>3, <1>6, <1>9
  <2> QED BY <1>0, <1>1, <1>2, <1>3, <1>5, <1>7, <1>9, <2>1 DEF id, taken
<1> QED BY <1>8, <1>9

\* process meets no fault but the missing half of a two-qubit gate: no boundary
\* is replayed, no end comes without its start, no target is sampled twice or
\* meets a gate, nothing starts twice and no result is due before its sample.
LEMMA ProcessFaultKinds ==
  ASSUME NEW b, AtBoundary(b), NEW outcome, DOMAIN outcome = {MeasurementOf(a) : a \in EndingNow}
  PROVE  ProcessFault(b, outcome) \in {"GateInputMismatch", "None"}
<1> DEFINE refs == Samples(b)
           targets == {refs[i].target : i \in 1..Len(refs)}
           taken == Sample(readouts, outcome)
<1>c. Core
  BY DEF AtBoundary
<1>1. ~(now < last_tick \/ (processed_tick # <<>> /\ now <= processed_tick[1]))
  BY ClosedBefore
<1>2. ~\E i \in 1..Len(b.ends) : Started(b.ends[i]) = {}
  <2> SUFFICES ASSUME NEW i \in 1..Len(b.ends) PROVE Started(b.ends[i]) # {}
    OBVIOUS
  <2> QED BY EndingIs DEF Started
<1>3. Cardinality(targets) = Len(refs)
  BY TargetsCounted
<1>4. \A i \in 1..Len(b.starts) : b.starts[i] \in accepted /\ b.starts[i].start = now
  BY StartsAre
<1>5. ~\E i \in 1..Len(b.starts) : b.starts[i].epoch # epoch
  BY <1>c, <1>4, ActionTicks
<1>6. ~\E i \in 1..Len(b.starts) : IsGate(b.starts[i]) /\ b.starts[i].targets \cap targets # {}
  <2> SUFFICES ASSUME NEW i \in 1..Len(b.starts), IsGate(b.starts[i]), b.starts[i].targets \cap targets # {}
               PROVE  FALSE
    OBVIOUS
  <2>1. PICK k \in 1..Len(refs) : refs[k].target \in b.starts[i].targets
    OBVIOUS
  <2>2. PICK a \in EndingNow : refs[k] = a.reference[1]
    BY SampleSequence
  <2> DEFINE g == b.starts[i]
  <2>3. a \in Acquired /\ a \in accepted /\ a.kind = "Acquire" /\ a.end = now
    BY DEF EndingNow, Acquired, AcquiredIn
  <2>4. a.targets = {a.reference[1].target}
    BY <1>c, <2>3, ReferenceFields
  <2>5. g \in accepted /\ g.start = now /\ IsGate(g) /\ refs[k].target \in g.targets
    BY <1>4, <2>1
  <2> HIDE DEF g, refs
  <2>6. SampleMeetsGate(a, g) /\ a # g
    BY <2>2, <2>3, <2>4, <2>5 DEF SampleMeetsGate, CommonTarget, IsGate
  <2>7. ~Overlap(a, g)
    <3>1. now \in Nat
      BY ClosedBefore
    <3> QED BY <2>3, <2>5, <3>1 DEF Overlap
  <2>8. PairFault(a, g) # "None"
    BY <2>6, <2>7 DEF PairFault
  <2> QED BY <1>c, <2>3, <2>5, <2>6, <2>8 DEF Core, ActionInv
<1>7. ~\E i \in 1..Len(b.starts) : Started(b.starts[i].id) \ Ending(b) # {}
  <2> SUFFICES ASSUME NEW i \in 1..Len(b.starts), NEW a \in active, a.id = b.starts[i].id PROVE FALSE
    BY DEF Started
  <2>1. a \in accepted /\ Closed(a.start)
    BY <1>c DEF Core, ActiveInv
  <2>2. a = b.starts[i]
    BY <1>c, <1>4, <2>1 DEF Core, ActionInv
  <2> QED BY <1>4, <2>1, <2>2, ClosedBefore
<1>8. ~\E i \in 1..Len(b.ready) : b.ready[i] \notin DOMAIN taken \/ taken[b.ready[i]].sample = <<>>
  <2> SUFFICES ASSUME NEW i \in 1..Len(b.ready)
               PROVE  b.ready[i] \in DOMAIN taken /\ taken[b.ready[i]].sample # <<>>
    OBVIOUS
  <2>1. PICK a \in Acquired : Due(a) = now /\ b.ready[i] = MeasurementOf(a)
    BY ReadyAre
  <2>2. ~Closed(Due(a)) /\ a \in accepted
    BY <2>1, ClosedBefore DEF Acquired, AcquiredIn
  <2> DEFINE id == MeasurementOf(a)
             v == IF Closed(a.end) THEN <<sampled[id]>>
                  ELSE IF a.end = now THEN <<outcome[id]>> ELSE <<>>
  <2>3. id \in DOMAIN taken /\ a.end \in Nat /\ Due(a) \in Nat
        /\ taken[id] = [reference |-> a.reference[1], end |-> a.end, arm |-> ArmOf(accepted, a),
                             ready |-> Due(a), sample |-> v, core |-> a.core]
    BY <2>2, ReadySampled, ZenonT(30)
  <2>4. a.end <= now
    BY <1>c, <2>1, <2>2, ActionTicks
  <2>5. ~Closed(a.end) => now <= a.end
    BY <1>c, <2>2, OpenPending
  <2>6. Closed(a.end) \/ a.end = now
    BY <2>3, <2>4, <2>5, ClosedBefore
  <2>7. v # <<>>
    BY <2>6
  <2> HIDE DEF v, taken
  <2> QED BY <2>1, <2>3, <2>7
<1>9. ProcessFault(b, outcome) =
        IF \E g \in StartedGates(b) : ~GatePaired(b, g) THEN "GateInputMismatch" ELSE "None"
  BY <1>1, <1>2, <1>3, <1>5, <1>6, <1>7, <1>8, Zenon DEF ProcessFault
<1> QED BY <1>9

-----------------------------------------------------------------------------
(* A boundary: the calls of the backend.                                   *)

\* The active actions are those that span the time since the last boundary.
LEMMA ActiveSpan ==
  ASSUME Core, ~stopped, last_tick < now, NEW x \in accepted
  PROVE  /\ x \in active <=> x.start < now /\ last_tick < x.end
         /\ x \in active => x.start <= last_tick /\ now <= x.end
<1>0. /\ now \in Nat /\ last_tick \in Nat /\ (processed_tick # <<>> => processed_tick = <<last_tick>>)
  BY DEF Core, TimeInv
<1>1. \A t : Closed(t) <=> processed_tick # <<>> /\ t <= last_tick
  BY <1>0 DEF Closed
<1>2. x \in active <=> Closed(x.start) /\ ~Closed(x.end)
  BY DEF Core, ActiveInv
<1>3. x.start \in Nat /\ x.end \in Nat /\ x.start < x.end
  BY ActionTicks
<1>4. (~Closed(x.start) => now <= x.start) /\ (~Closed(x.end) => now <= x.end)
  BY OpenPending
<1>5. x \in active => x.start <= last_tick /\ now <= x.end
  BY <1>1, <1>2, <1>4
<1>6. x.start < now => Closed(x.start)
  BY <1>0, <1>3, <1>4
<1>7. last_tick < x.end => ~Closed(x.end)
  BY <1>0, <1>1, <1>3
<1>8. x \in active => x.start < now /\ last_tick < x.end
  BY <1>0, <1>3, <1>5
<1> QED BY <1>2, <1>5, <1>6, <1>7, <1>8

\* So the evolution up to now is driven by exactly the pulses that span it.
LEMMA ActiveDrives ==
  ASSUME Core, ~stopped, last_tick < now, NEW acquisitions
  PROVE  DrivenBy(Evolution(last_tick, now,
                    {[id |-> a.id, start |-> a.start, end |-> a.end] : a \in {x \in active : x.kind = "Pulse"}},
                    acquisitions), accepted)
<1> DEFINE D == {[id |-> a.id, start |-> a.start, end |-> a.end] : a \in {x \in active : x.kind = "Pulse"}}
           ev == Evolution(last_tick, now, D, acquisitions)
<1>0. active \subseteq accepted
  BY DEF Core, ActiveInv
<1>1. ev.drives = D /\ ev.start = last_tick /\ ev.tick = now
  BY DEF Evolution
<1>2. {x \in active : x.kind = "Pulse"} =
        {x \in accepted : x.kind = "Pulse" /\ x.start < now /\ last_tick < x.end}
  BY <1>0, ActiveSpan
<1>3. \A d \in D : d.start <= last_tick /\ now <= d.end
  BY <1>0, ActiveSpan
<1>4. D = {[id |-> a.id, start |-> a.start, end |-> a.end] :
            a \in {x \in accepted : x.kind = "Pulse" /\ x.start < now /\ last_tick < x.end}}
  BY <1>2
<1> HIDE DEF D, ev
<1>5. DrivenBy(ev, accepted)
  BY <1>1, <1>3, <1>4 DEF DrivenBy
<1> QED BY <1>5 DEF ev, D

\* The backend is ready for the calls of a boundary.
LEMMA BackendReady ==
  ASSUME Core, LogInv, fault = "None", NEW n \in Nat
  PROVE  /\ Going(Prone(backend, n), last_tick, origin, accepted)
         /\ Prone(backend, n).epoch = epoch /\ Prone(backend, n).executed = backend.executed
<1> DEFINE p == Prone(backend, n)
<1>0. /\ Shape(backend) /\ Batched(backend) /\ LogOk(backend.committed, origin, accepted)
      /\ last_tick = LastTick(backend.committed, origin)
      /\ backend.fault = "None" /\ backend.failed = <<>> /\ backend.committed_tick = last_tick
      /\ backend.epoch = epoch
  BY DEF LogInv, Core, BackendOk
<1>1. /\ Shape(p) /\ p.pending = backend.pending /\ p.executed = backend.executed
      /\ p.failed = backend.failed /\ p.committed = backend.committed
      /\ p.fault = backend.fault /\ p.epoch = backend.epoch
      /\ p.committed_tick = backend.committed_tick /\ p.fails_in = n
  BY <1>0, ProneIs
<1> HIDE DEF p
<1>2. Batched(p)
  BY <1>0, <1>1, Zenon DEF Batched
<1>3. LogOk(p.committed, origin, accepted) /\ last_tick = LastTick(p.committed, origin)
  BY <1>0, <1>1, Zenon
<1>4. Going(p, last_tick, origin, accepted)
  BY <1>0, <1>1, <1>2, <1>3 DEF Going
<1> QED BY <1>0, <1>1, <1>4 DEF p

\* The end of a call in which nothing failed.
LEMMA ProneGoing ==
  ASSUME NEW b, NEW t, NEW o, NEW acts, Going(b, t, o, acts)
  PROVE  /\ Going(Prone(b, 0), t, o, acts) /\ Prone(b, 0).fails_in = 0
         /\ Prone(b, 0).epoch = b.epoch /\ Prone(b, 0).executed = b.executed
<1> DEFINE p == Prone(b, 0)
<1>0. /\ Shape(b) /\ Batched(b) /\ LogOk(b.committed, o, acts)
      /\ b.fault = "None" /\ b.failed = <<>>
      /\ b.committed_tick = t /\ LastTick(b.committed, o) = t
  BY DEF Going
<1>1. /\ Shape(p) /\ p.pending = b.pending /\ p.executed = b.executed
      /\ p.failed = b.failed /\ p.committed = b.committed
      /\ p.fault = b.fault /\ p.epoch = b.epoch
      /\ p.committed_tick = b.committed_tick /\ p.fails_in = 0
  BY <1>0, ProneIs
<1> HIDE DEF p
<1>2. Batched(p)
  BY <1>0, <1>1, Zenon DEF Batched
<1>3. LogOk(p.committed, o, acts) /\ LastTick(p.committed, o) = t
  BY <1>0, <1>1, Zenon
<1>4. Going(p, t, o, acts)
  BY <1>0, <1>1, <1>2, <1>3 DEF Going
<1> QED BY <1>1, <1>4 DEF p

\* The end of a call that failed.
LEMMA ProneBroken ==
  ASSUME NEW b, NEW o, NEW acts, Broken(b, o, acts)
  PROVE  Broken(Prone(b, 0), o, acts) /\ Prone(b, 0).executed = b.executed
<1> DEFINE p == Prone(b, 0)
<1>0. Shape(b) /\ Batched(b) /\ LogOk(b.committed, o, acts) /\ b.fault = "BackendFailure"
  BY DEF Broken
<1>1. /\ Shape(p) /\ p.pending = b.pending /\ p.executed = b.executed
      /\ p.failed = b.failed /\ p.committed = b.committed /\ p.fault = b.fault
  BY <1>0, ProneIs
<1> HIDE DEF p
<1>2. Batched(p)
  BY <1>0, <1>1, Zenon DEF Batched
<1>3. LogOk(p.committed, o, acts)
  BY <1>0, <1>1, Zenon
<1>4. Broken(p, o, acts)
  BY <1>0, <1>1, <1>2, <1>3 DEF Broken
<1> QED BY <1>1, <1>4 DEF p

\* The backend after the calls of a boundary: they fail before the outcomes are
\* known, on the gates, or not at all.
NoOutcome(m, a) ==
  /\ a = m /\ m.fault # "None" /\ Broken(m, origin, accepted)
  /\ MeasuredIn(m.executed) = MeasuredIn(backend.executed)
NoGates(b, m, a) ==
  /\ m.fault = "None" /\ Broken(a, origin, accepted)
  /\ MeasuredIn(a.executed) = MeasuredIn(backend.executed) \cup MeasurementsOf(Samples(b))
Complied(b, m, a) ==
  /\ m.fault = "None" /\ Going(a, now, origin, accepted) /\ a.epoch = epoch
  /\ MeasuredIn(a.executed) = MeasuredIn(backend.executed) \cup MeasurementsOf(Samples(b))

\* Those are all the outcomes of the calls of a boundary.
LEMMA BoundaryCalls ==
  ASSUME NEW b, AtBoundary(b), LogInv, fault = "None", NEW n \in Nat
  PROVE  \/ NoOutcome(Measured(b, n), Applied(b, n))
         \/ NoGates(b, Measured(b, n), Applied(b, n))
         \/ Complied(b, Measured(b, n), Applied(b, n))
<1> DEFINE p == Prone(backend, n)
           e == Evolved(b, n)
           m == Measured(b, n)
           a == Applied(b, n)
           refs == Samples(b)
<1>0. Core /\ ~stopped /\ last_tick \in Nat /\ now \in Nat /\ last_tick <= now
  BY ClosedBefore DEF AtBoundary
<1>1. Going(p, last_tick, origin, accepted) /\ p.epoch = epoch /\ p.executed = backend.executed
  BY <1>0, BackendReady
<1>2. last_tick < now =>
        DrivenBy(Evolution(last_tick, now, Activity(b, "Pulse"), Activity(b, "Acquire")), accepted)
  <2>1. Activity(b, "Pulse") =
          {[id |-> x.id, start |-> x.start, end |-> x.end] : x \in {y \in active : y.kind = "Pulse"}}
    BY DEF Activity
  <2> QED BY <1>0, <2>1, ActiveDrives
<1>3. Alike(p, e) /\ (Going(e, now, origin, accepted) \/ Broken(e, origin, accepted))
  <2> DEFINE d == Activity(b, "Pulse")
             q == Activity(b, "Acquire")
  <2>1. e = Evolve(p, last_tick, now, d, q)
    BY DEF Evolved
  <2>2. last_tick < now => DrivenBy(Evolution(last_tick, now, d, q), accepted)
    BY <1>2
  <2> HIDE DEF d, q, e, p
  <2> QED BY <1>0, <1>1, <2>1, <2>2, EvolveStep
<1> HIDE DEF p
<1>4. e.epoch = epoch /\ MeasuredIn(e.executed) = MeasuredIn(backend.executed)
  BY <1>1, <1>3, Zenon DEF Alike
<1>5. m = IF e.fault # "None" THEN e ELSE Measure(e, now, refs)
  BY DEF Measured
<1>6. a = IF m.fault # "None" THEN m ELSE Apply(m, now, AppliedGates(b))
  BY DEF Applied
<1>7. /\ Len(refs) \in Nat /\ \A i \in 1..Len(refs) : refs[i].epoch = epoch
      /\ \A i, j \in 1..Len(refs) : refs[i].target = refs[j].target => i = j
  BY SampleSequence
<1> HIDE DEF e, m, a, refs
<1>8. CASE Broken(e, origin, accepted)
  <2>1. e.fault = "BackendFailure"
    BY <1>8 DEF Broken
  <2>2. m = e
    BY <1>5, <2>1
  <2>3. a = m
    BY <1>6, <2>1, <2>2
  <2>4. NoOutcome(m, a)
    BY <1>4, <1>8, <2>1, <2>2, <2>3 DEF NoOutcome
  <2> QED BY <2>4 DEF m, a
<1>9. CASE Going(e, now, origin, accepted)
  <2>1. m = Measure(e, now, refs)
    BY <1>5, <1>9 DEF Going
  <2>2. \/ /\ Going(m, now, origin, accepted) /\ m.epoch = e.epoch
           /\ MeasuredIn(m.executed) = MeasuredIn(e.executed) \cup MeasurementsOf(refs)
        \/ Broken(m, origin, accepted) /\ Alike(e, m)
    <3>1. \A i \in 1..Len(refs) : refs[i].epoch = e.epoch
      BY <1>4, <1>7
    <3> QED BY <1>0, <1>7, <1>9, <2>1, <3>1, MeasureStep
  <2>3. CASE Broken(m, origin, accepted) /\ Alike(e, m)
    <3>1. m.fault = "BackendFailure"
      BY <2>3 DEF Broken
    <3>2. a = m
      BY <1>6, <3>1
    <3>3. NoOutcome(m, a)
      BY <1>4, <2>3, <3>1, <3>2 DEF NoOutcome, Alike
    <3> QED BY <3>3 DEF m, a
  <2>4. CASE /\ Going(m, now, origin, accepted) /\ m.epoch = e.epoch
             /\ MeasuredIn(m.executed) = MeasuredIn(e.executed) \cup MeasurementsOf(refs)
    <3>1. m.fault = "None"
      BY <2>4 DEF Going
    <3>2. a = Apply(m, now, AppliedGates(b))
      BY <1>6, <3>1
    <3>3. Alike(m, a) /\ (Going(a, now, origin, accepted) \/ Broken(a, origin, accepted))
      BY <1>0, <2>4, <3>2, ApplyStep
    <3>4. a.epoch = epoch
          /\ MeasuredIn(a.executed) = MeasuredIn(backend.executed) \cup MeasurementsOf(refs)
      BY <1>4, <2>4, <3>3, Zenon DEF Alike
    <3>5. NoGates(b, m, a) \/ Complied(b, m, a)
      BY <3>1, <3>3, <3>4 DEF NoGates, Complied, refs
    <3> QED BY <3>5 DEF m, a
  <2> QED BY <2>2, <2>3, <2>4
<1> QED BY <1>3, <1>8, <1>9

-----------------------------------------------------------------------------
(* A boundary: the device after it.                                        *)

\* The boundary b is processed to its end.
Finishes(b, outcome) ==
  /\ AtBoundary(b) /\ EdgeRan /\ DOMAIN outcome = {MeasurementOf(a) : a \in EndingNow}
  /\ FinishBoundary(b, outcome)
  /\ UNCHANGED <<now, epoch, launched, next_id, stopped, summary, origin, accepted>>

\* What such a boundary does to the device.
LEMMA FinishIs ==
  ASSUME NEW b, NEW outcome, Finishes(b, outcome)
  PROVE  /\ AtBoundary(b) /\ Core /\ EdgeRan /\ DOMAIN outcome = {MeasurementOf(a) : a \in EndingNow}
         /\ UNCHANGED <<now, epoch, launched, next_id, stopped, summary, origin, accepted>>
         /\ active' = (active \ Ending(b)) \cup {b.starts[i] : i \in 1..Len(b.starts)}
         /\ readouts' = Erase(Sample(readouts, outcome), {b.ready[i] : i \in 1..Len(b.ready)})
         /\ last_tick' = now /\ processed_tick' = <<now>>
         /\ boundaries' = [t \in DOMAIN boundaries \ {now} |-> boundaries[t]]
         /\ reservations' = DiscardBefore(reservations, now)
         /\ sampled' = SampledWith(outcome)
         /\ delivered' = delivered \o [i \in 1..Len(b.ready) |->
                                         CompletionFor(Sample(readouts, outcome)[b.ready[i]], now)]
         /\ Acquired' = Acquired
         /\ \A a : Due(a)' = Due(a)
         /\ \A t : Closed(t)' <=> t <= now
<1>1. UNCHANGED <<now, epoch, launched, next_id, stopped, summary, origin, accepted>>
  BY DEF Finishes
<1>2. Acquired' = Acquired /\ \A a : Due(a)' = Due(a)
  BY <1>1 DEF Acquired, Due
<1>3. processed_tick' = <<now>>
  BY DEF Finishes, FinishBoundary
<1>4. \A t : Closed(t)' <=> t <= now
  BY <1>3 DEF Closed
<1> QED BY <1>1, <1>2, <1>4 DEF Finishes, FinishBoundary, AtBoundary

\* It closes the current tick; what comes later stays as it was.
LEMMA FinishKeepsTime ==
  ASSUME NEW b, NEW outcome, Finishes(b, outcome)
  PROVE  TimeInv' /\ ActionInv' /\ BoundaryInv'
<1>0. /\ AtBoundary(b) /\ Core /\ EdgeRan
      /\ UNCHANGED <<now, epoch, launched, next_id, stopped, summary, origin, accepted>>
      /\ last_tick' = now /\ processed_tick' = <<now>>
      /\ boundaries' = [t \in DOMAIN boundaries \ {now} |-> boundaries[t]]
      /\ Acquired' = Acquired
      /\ \A t : Closed(t)' <=> t <= now
  BY FinishIs
<1>a. TimeInv /\ ActionInv /\ BoundaryInv
  BY <1>0 DEF Core
<1>1. now \in Nat /\ last_tick <= now /\ ~Closed(now) /\ \A t \in Nat : now <= t => ~Closed(t)
  BY <1>0, ClosedBefore
<1>2. TimeInv'
  <2>1. EdgeRan'
    BY <1>0 DEF EdgeRan, OnEdge
  <2>2. origin <= now /\ origin \in Nat
    BY <1>a, <1>1 DEF TimeInv
  <2>3. now' = now /\ last_tick' = now /\ origin' = origin /\ epoch' = epoch /\ next_id' = next_id
    BY <1>0
  <2>4. \E p \in 0..last_tick' : /\ processed_tick' = <<p>> /\ (~stopped' => p = last_tick') /\ (p = now' => EdgeRan')
    BY <1>0, <1>1, <2>1
  <2>5. now \in Nat /\ epoch \in Nat /\ next_id \in [Cores -> [event : Nat \ {0}, measurement : Nat \ {0}]]
    BY <1>a DEF TimeInv
  <2>6. now <= now
    BY <1>1
  <2> QED BY <2>2, <2>3, <2>4, <2>5, <2>6 DEF TimeInv
<1>3. ActionInv'
  BY <1>0, <1>a DEF ActionInv, ActionOk
<1>4. DOMAIN boundaries' = DOMAIN boundaries \ {now}
  BY <1>0
<1>5. \A t \in DOMAIN boundaries' : t \in Nat /\ now <= t /\ ~(t <= now)
  BY <1>a, <1>1, <1>4 DEF BoundaryInv
<1>6. ASSUME NEW t \in Nat, ~(t <= now) PROVE Complete(BoundaryAt(t), accepted, t) /\ BoundaryAt(t)' = BoundaryAt(t)
  <2>1. now <= t /\ t # now
    BY <1>1, <1>6
  <2>2. Complete(BoundaryAt(t), accepted, t)
    BY <1>a, <1>1, <2>1 DEF BoundaryInv
  <2>3. BoundaryAt(t)' = BoundaryAt(t)
    BY <1>0, <1>4, <2>1 DEF BoundaryAt
  <2> QED BY <2>2, <2>3
<1>7. ASSUME NEW t \in Nat, ~(t <= now) PROVE Complete(BoundaryAt(t), accepted, t)'
  <2>1. BoundaryAt(t)' = BoundaryAt(t) /\ accepted' = accepted /\ Complete(BoundaryAt(t), accepted, t)
    BY <1>0, <1>6, <1>7
  <2> QED BY <2>1
<1>8. BoundaryInv'
  BY <1>0, <1>5, <1>7 DEF BoundaryInv
<1> QED BY <1>2, <1>3, <1>8

\* The actions that ended have left the active set, those that started have
\* entered it, and no reservation is forgotten too early.
LEMMA FinishKeepsActive ==
  ASSUME NEW b, NEW outcome, Finishes(b, outcome)
  PROVE  ActiveInv'
<1>0. /\ AtBoundary(b) /\ Core
      /\ accepted' = accepted
      /\ active' = (active \ Ending(b)) \cup {b.starts[i] : i \in 1..Len(b.starts)}
      /\ processed_tick' = <<now>>
      /\ reservations' = DiscardBefore(reservations, now)
      /\ \A t : Closed(t)' <=> t <= now
  BY FinishIs
<1>a. ActiveInv
  BY <1>0 DEF Core
<1>1. /\ now \in Nat /\ last_tick \in Nat /\ last_tick <= now /\ \A t \in Nat : now <= t => ~Closed(t)
      /\ processed_tick # <<>> => processed_tick = <<last_tick>> /\ last_tick < now
      /\ \A t : Closed(t) <=> processed_tick # <<>> /\ t <= last_tick
  BY <1>0, ClosedBefore
<1>2. Ending(b) = {a \in accepted : a.end = now}
  BY <1>0, EndingIs
<1>3. {b.starts[i] : i \in 1..Len(b.starts)} = {a \in accepted : a.start = now}
  BY <1>0, StartsAre
<1>4. ASSUME NEW a \in accepted
      PROVE  /\ a.start \in Nat /\ a.end \in Nat /\ a.start < a.end
             /\ Closed(a.start) <=> a.start < now
             /\ Closed(a.end) <=> a.end < now
  <2>1. a.start \in Nat /\ a.end \in Nat /\ a.start < a.end
    BY <1>0, ActionTicks
  <2>2. (~Closed(a.start) => now <= a.start) /\ (~Closed(a.end) => now <= a.end)
    BY <1>0, OpenPending
  <2>3. Closed(a.start) => a.start < now
    BY <1>1, <2>1
  <2>4. Closed(a.end) => a.end < now
    BY <1>1, <2>1
  <2> QED BY <1>1, <2>1, <2>2, <2>3, <2>4
<1>5. active = {a \in accepted : a.start < now /\ ~(a.end < now)}
  BY <1>a, <1>4 DEF ActiveInv
<1>6. active' = {a \in accepted : a.start <= now /\ ~(a.end <= now)}
  <2>1. ASSUME NEW a \in active' PROVE a \in accepted /\ a.start <= now /\ ~(a.end <= now)
    <3>1. a \in accepted
      BY <1>0, <1>3, <1>5
    <3>2. CASE a \in active \ Ending(b)
      BY <1>1, <1>2, <1>4, <1>5, <3>1, <3>2
    <3>3. CASE a.start = now
      BY <1>1, <1>4, <3>1, <3>3
    <3> QED BY <1>0, <1>3, <3>1, <3>2, <3>3
  <2>2. ASSUME NEW a \in accepted, a.start <= now, ~(a.end <= now) PROVE a \in active'
    <3>1. a.start \in Nat /\ a.end \in Nat
      BY <1>4
    <3>2. a.start = now \/ a.start < now
      BY <1>1, <2>2, <3>1
    <3>3. ~(a.end < now) /\ a.end # now
      BY <1>1, <2>2, <3>1
    <3> QED BY <1>0, <1>2, <1>3, <1>5, <2>2, <3>2, <3>3
  <2> QED BY <2>1, <2>2
<1>7. reservations' \subseteq accepted
  BY <1>0, <1>a DEF ActiveInv, DiscardBefore
<1>8. ASSUME NEW a \in accepted, a \notin reservations' PROVE a.end < now
  <2>1. CASE a \in reservations
    BY <1>0, <1>1, <1>4, <1>8, <2>1 DEF DiscardBefore
  <2>2. CASE a \notin reservations
    <3>1. processed_tick # <<>> /\ a.end < processed_tick[1]
      BY <1>a, <2>2 DEF ActiveInv
    <3>2. processed_tick[1] = last_tick /\ last_tick < now
      BY <1>1, <3>1
    <3> QED BY <1>1, <1>4, <3>1, <3>2
  <2> QED BY <2>1, <2>2
<1>9. processed_tick' # <<>> /\ processed_tick'[1] = now
  BY <1>0
<1> QED BY <1>0, <1>6, <1>7, <1>8, <1>9 DEF ActiveInv

\* The outcome of an acquisition is recorded when it ends and never changes.
LEMMA SampledIs ==
  ASSUME NEW b, NEW outcome, Finishes(b, outcome), NEW a \in Acquired
  PROVE  /\ a \in accepted /\ a.end \in Nat /\ Due(a) \in Nat /\ now \in Nat /\ a.end <= Due(a)
         /\ Closed(a.end) <=> a.end < now
         /\ Closed(Due(a)) <=> Due(a) < now
         /\ a.end = now => sampled'[MeasurementOf(a)] = outcome[MeasurementOf(a)]
         /\ a.end < now => sampled'[MeasurementOf(a)] = sampled[MeasurementOf(a)]
<1>0. /\ AtBoundary(b) /\ Core /\ sampled' = SampledWith(outcome)
      /\ DOMAIN outcome = {MeasurementOf(x) : x \in EndingNow}
  BY FinishIs
<1>1. a \in accepted
  BY DEF Acquired, AcquiredIn
<1>2. a.end \in Nat /\ Due(a) \in Nat /\ now \in Nat /\ a.end <= Due(a)
  BY <1>0, <1>1, ActionTicks
<1>3. (~Closed(a.end) => now <= a.end) /\ (~Closed(Due(a)) => now <= Due(a))
  BY <1>0, <1>1, OpenPending
<1>4. \A t \in Nat : now <= t => ~Closed(t)
  BY <1>0, ClosedBefore
<1>5. (Closed(a.end) <=> a.end < now) /\ (Closed(Due(a)) <=> Due(a) < now)
  BY <1>2, <1>3, <1>4
<1>6. \A x, y \in Acquired : MeasurementOf(x) = MeasurementOf(y) => x = y
  BY <1>0 DEF Core, ActionInv
<1>7. MeasurementOf(a) \in DOMAIN outcome <=> a.end = now
  BY <1>0, <1>6 DEF EndingNow
<1>8. a.end < now => MeasurementOf(a) \in DOMAIN sampled
  BY <1>0, <1>5 DEF Core, ReadoutInv
<1> DEFINE id == MeasurementOf(a)
<1> HIDE DEF id
<1>9. a.end = now => sampled'[id] = outcome[id]
  BY <1>0, <1>7 DEF SampledWith, id
<1>10. a.end < now => sampled'[id] = sampled[id]
  <2> SUFFICES ASSUME a.end < now PROVE sampled'[id] = sampled[id]
    OBVIOUS
  <2>1. id \notin DOMAIN outcome /\ id \in DOMAIN sampled
    BY <1>2, <1>7, <1>8 DEF id
  <2> QED BY <1>0, <2>1 DEF SampledWith
<1> QED BY <1>1, <1>2, <1>5, <1>9, <1>10 DEF id

\* A readout gets its sample when its acquisition ends and is closed when its
\* result is due.
LEMMA FinishKeepsReadouts ==
  ASSUME NEW b, NEW outcome, Finishes(b, outcome)
  PROVE  ReadoutInv' /\ DOMAIN sampled' = DOMAIN sampled \cup DOMAIN outcome
<1> DEFINE taken == Sample(readouts, outcome)
           ids == {b.ready[i] : i \in 1..Len(b.ready)}
<1>0. /\ AtBoundary(b) /\ Core /\ DOMAIN outcome = {MeasurementOf(a) : a \in EndingNow}
      /\ accepted' = accepted
      /\ readouts' = Erase(taken, ids)
      /\ sampled' = SampledWith(outcome)
      /\ Acquired' = Acquired /\ \A a : Due(a)' = Due(a) /\ \A t : Closed(t)' <=> t <= now
  BY FinishIs, ZenonT(30)
<1>a. ReadoutInv /\ \A x, y \in Acquired : MeasurementOf(x) = MeasurementOf(y) => x = y
  BY <1>0 DEF Core, ActionInv
<1>1. ASSUME NEW a \in Acquired
      PROVE  /\ a.end \in Nat /\ Due(a) \in Nat /\ now \in Nat /\ a.end <= Due(a)
             /\ Closed(a.end) <=> a.end < now
             /\ Closed(Due(a)) <=> Due(a) < now
             /\ a.end = now => sampled'[MeasurementOf(a)] = outcome[MeasurementOf(a)]
             /\ a.end < now => sampled'[MeasurementOf(a)] = sampled[MeasurementOf(a)]
  BY SampledIs
<1>2. ids = {MeasurementOf(a) : a \in {x \in Acquired : Due(x) = now}}
  <2>1. Lists(b.ready, {MeasurementOf(a) : a \in {x \in Acquired : Due(x) = now}})
    BY <1>0, ReadyAre
  <2>2. /\ \A i \in 1..Len(b.ready) : b.ready[i] \in {MeasurementOf(a) : a \in {x \in Acquired : Due(x) = now}}
        /\ \A y \in {MeasurementOf(a) : a \in {x \in Acquired : Due(x) = now}} :
             \E i \in 1..Len(b.ready) : b.ready[i] = y
    BY <2>1, ListsSeq DEF Lists
  <2> QED BY <2>2
<1>3. DOMAIN readouts' = DOMAIN readouts \ ids
  BY <1>0 DEF Erase, Sample
<1>4. DOMAIN readouts = {MeasurementOf(a) : a \in {x \in Acquired : ~(Due(x) < now)}}
  <2>1. {x \in Acquired : ~Closed(Due(x))} = {x \in Acquired : ~(Due(x) < now)}
    BY <1>1
  <2>2. DOMAIN readouts = {MeasurementOf(a) : a \in {x \in Acquired : ~Closed(Due(x))}}
    BY <1>a DEF ReadoutInv
  <2> QED BY <2>1, <2>2
<1>5. DOMAIN readouts' = {MeasurementOf(a) : a \in {x \in Acquired : ~(Due(x) <= now)}}
  <2>1. \A x \in Acquired : ~(Due(x) <= now) <=> ~(Due(x) < now) /\ Due(x) # now
    <3> SUFFICES ASSUME NEW x \in Acquired PROVE ~(Due(x) <= now) <=> ~(Due(x) < now) /\ Due(x) # now
      OBVIOUS
    <3>1. Due(x) \in Nat /\ now \in Nat
      BY <1>1
    <3> QED BY <3>1
  <2> HIDE DEF ids
  <2> QED BY <1>a, <1>2, <1>3, <1>4, <2>1
<1>6. ASSUME NEW a \in Acquired, ~(Due(a) <= now) PROVE readouts'[MeasurementOf(a)] = ReadoutFor(a)'
  <2> DEFINE id == MeasurementOf(a)
             v == IF Closed(a.end) THEN <<sampled[id]>> ELSE IF a.end = now THEN <<outcome[id]>> ELSE <<>>
             w == IF Closed(a.end)' THEN <<sampled'[id]>> ELSE <<>>
  <2>0. ~Closed(Due(a))
    BY <1>1, <1>6
  <2>1. taken[id] = [reference |-> a.reference[1], end |-> a.end, arm |-> ArmOf(accepted, a),
                     ready |-> Due(a), sample |-> v, core |-> a.core]
        /\ id \in DOMAIN taken
    BY <1>0, <2>0, ReadySampled
  <2>2. id \in DOMAIN readouts'
    BY <1>5, <1>6
  <2>3. readouts'[id] = taken[id]
    <3> HIDE DEF taken, ids, id
    <3> QED BY <1>0, <2>1, <2>2 DEF Erase
  <2>4. v = w
    <3>0. a.end \in Nat /\ now \in Nat
      BY <1>1
    <3>1. CASE a.end < now
      <4>1. Closed(a.end) /\ Closed(a.end)' /\ sampled'[id] = sampled[id]
        BY <1>0, <1>1, <3>0, <3>1
      <4> QED BY <4>1
    <3>2. CASE a.end = now
      <4>1. ~Closed(a.end) /\ Closed(a.end)' /\ sampled'[id] = outcome[id]
        BY <1>0, <1>1, <3>0, <3>2
      <4> QED BY <3>2, <4>1
    <3>3. CASE ~(a.end <= now)
      <4>1. ~Closed(a.end) /\ ~Closed(a.end)' /\ a.end # now
        BY <1>0, <1>1, <3>0, <3>3
      <4> QED BY <4>1
    <3> QED BY <3>0, <3>1, <3>2, <3>3
  <2>5. ReadoutFor(a)' = [reference |-> a.reference[1], end |-> a.end, arm |-> ArmOf(accepted, a),
                          ready |-> Due(a), sample |-> w, core |-> a.core]
    BY <1>0 DEF ReadoutFor, MeasurementOf
  <2> HIDE DEF v, w, taken, id
  <2> QED BY <2>1, <2>3, <2>4, <2>5 DEF id
<1>7. DOMAIN sampled' = DOMAIN sampled \cup DOMAIN outcome
  BY <1>0 DEF SampledWith
<1>8. DOMAIN sampled' = {MeasurementOf(a) : a \in {x \in Acquired : x.end <= now}}
  <2>1. DOMAIN sampled = {MeasurementOf(a) : a \in {x \in Acquired : x.end < now}}
    <3>1. {x \in Acquired : Closed(x.end)} = {x \in Acquired : x.end < now}
      BY <1>1
    <3>2. DOMAIN sampled = {MeasurementOf(a) : a \in {x \in Acquired : Closed(x.end)}}
      BY <1>a DEF ReadoutInv
    <3> QED BY <3>1, <3>2
  <2>2. \A x \in Acquired : x.end <= now <=> x.end < now \/ x.end = now
    <3> SUFFICES ASSUME NEW x \in Acquired PROVE x.end <= now <=> x.end < now \/ x.end = now
      OBVIOUS
    <3>1. x.end \in Nat /\ now \in Nat
      BY <1>1
    <3> QED BY <3>1
  <2>3. DOMAIN outcome = {MeasurementOf(a) : a \in {x \in Acquired : x.end = now}}
    BY <1>0 DEF EndingNow
  <2> QED BY <1>7, <2>1, <2>2, <2>3
<1>9. ReadoutInv'
  <2>1. DOMAIN readouts' = {MeasurementOf(a)' : a \in {x \in Acquired' : ~Closed(Due(x))'}}
    <3>1. {x \in Acquired' : ~Closed(Due(x))'} = {x \in Acquired : ~(Due(x) <= now)}
      <4>1. \A x : Closed(Due(x))' <=> Due(x) <= now
        <5> SUFFICES ASSUME NEW x PROVE Closed(Due(x))' <=> Due(x) <= now
          OBVIOUS
        <5>1. Due(x)' = Due(x) /\ processed_tick' = <<now>>
          BY <1>0, FinishIs
        <5> QED BY <5>1 DEF Closed
      <4> QED BY <1>0, <4>1
    <3> QED BY <1>5, <3>1 DEF MeasurementOf
  <2>2. \A a \in Acquired' : ~Closed(Due(a))' => readouts'[MeasurementOf(a)] = ReadoutFor(a)'
    <3> SUFFICES ASSUME NEW a \in Acquired, ~Closed(Due(a))' PROVE readouts'[MeasurementOf(a)] = ReadoutFor(a)'
      BY <1>0
    <3>1. Due(a)' = Due(a) /\ processed_tick' = <<now>>
      BY <1>0, FinishIs
    <3>2. ~(Due(a) <= now)
      BY <3>1 DEF Closed
    <3> QED BY <1>6, <3>2
  <2>3. DOMAIN sampled' = {MeasurementOf(a)' : a \in {x \in Acquired' : Closed(x.end)'}}
    BY <1>0, <1>8 DEF MeasurementOf
  <2> QED BY <2>1, <2>2, <2>3 DEF ReadoutInv, MeasurementOf
<1> QED BY <1>7, <1>9

\* The completion that the core receives answers its own acquisition.
LEMMA CompletionIs ==
  ASSUME NEW b, NEW outcome, Finishes(b, outcome), NEW a \in Acquired, Due(a) = now
  PROVE  CompletionFor(Sample(readouts, outcome)[MeasurementOf(a)], now) = AnswerTo(a)'
<1> DEFINE id == MeasurementOf(a)
           t == Sample(readouts, outcome)[id]
           v == IF Closed(a.end) THEN <<sampled[id]>> ELSE IF a.end = now THEN <<outcome[id]>> ELSE <<>>
<1>0. /\ AtBoundary(b) /\ Core /\ DOMAIN outcome = {MeasurementOf(x) : x \in EndingNow}
      /\ Due(a)' = Due(a)
  BY FinishIs
<1>1. /\ a.end \in Nat /\ Due(a) \in Nat /\ now \in Nat /\ a.end <= Due(a)
      /\ Closed(a.end) <=> a.end < now
      /\ Closed(Due(a)) <=> Due(a) < now
      /\ a.end = now => sampled'[id] = outcome[id]
      /\ a.end < now => sampled'[id] = sampled[id]
  BY SampledIs
<1>2. t = [reference |-> a.reference[1], end |-> a.end, arm |-> ArmOf(accepted, a),
           ready |-> Due(a), sample |-> v, core |-> a.core]
  <2>1. ~Closed(Due(a))
    BY <1>1
  <2> QED BY <1>0, <2>1, ReadySampled
<1>3. v = <<sampled'[id]>>
  <2>1. CASE a.end < now
    BY <1>1, <2>1
  <2>2. CASE a.end = now
    BY <1>1, <2>2
  <2> QED BY <1>1, <2>1, <2>2
<1>4. LocalCore(id) = a.core /\ a.reference[1].measurement = id
  BY <1>0, ReferenceFields
<1> HIDE DEF t, v, id
<1>5. t.reference = a.reference[1] /\ t.sample = v /\ t.sample[1] = sampled'[id]
  BY <1>2, <1>3
<1>6. CompletionFor(t, now) =
        [core |-> a.core, measurement |-> LocalId(id), target |-> a.reference[1].target,
         value |-> sampled'[id], tick |-> now]
  BY <1>4, <1>5 DEF CompletionFor, ResultOf
<1>7. AnswerTo(a)' =
        [core |-> a.core, measurement |-> LocalId(id), target |-> a.reference[1].target,
         value |-> sampled'[id], tick |-> now]
  BY <1>0 DEF AnswerTo, MeasurementOf, id, LocalId
<1> QED BY <1>6, <1>7 DEF t, id

\* The boundary delivers the results that are due now, each once.
LEMMA FinishKeepsDelivery ==
  ASSUME NEW b, NEW outcome, Finishes(b, outcome)
  PROVE  DeliveryInv'
<1> DEFINE done == {a \in Acquired : Closed(Due(a))}
           fresh == {a \in Acquired : Due(a) = now}
           doneNext == {a \in Acquired' : Closed(Due(a))'}
           taken == Sample(readouts, outcome)
           u == [i \in 1..Len(b.ready) |-> CompletionFor(taken[b.ready[i]], now)]
           f == [id \in {MeasurementOf(a) : a \in fresh} |-> CHOOSE a \in Acquired : MeasurementOf(a) = id]
           g == [i \in 1..Len(b.ready) |-> f[b.ready[i]]]
<1>0. /\ AtBoundary(b) /\ Core
      /\ delivered' = delivered \o u
      /\ Acquired' = Acquired /\ \A a : Due(a)' = Due(a) /\ \A t : Closed(t)' <=> t <= now
      /\ processed_tick' = <<now>>
  BY FinishIs
<1>a. DeliveryInv /\ \A x, y \in Acquired : MeasurementOf(x) = MeasurementOf(y) => x = y
  BY <1>0 DEF Core, ActionInv
<1>1. ASSUME NEW a \in Acquired
      PROVE  /\ a.end \in Nat /\ Due(a) \in Nat /\ now \in Nat /\ a.end <= Due(a)
             /\ Closed(a.end) <=> a.end < now
             /\ Closed(Due(a)) <=> Due(a) < now
             /\ a.end < now => sampled'[MeasurementOf(a)] = sampled[MeasurementOf(a)]
  BY SampledIs
<1>2. doneNext = done \cup fresh /\ done \cap fresh = {}
  <2>1. \A a : Closed(Due(a))' <=> Due(a) <= now
    <3> SUFFICES ASSUME NEW a PROVE Closed(Due(a))' <=> Due(a) <= now
      OBVIOUS
    <3>1. Due(a)' = Due(a)
      BY <1>0
    <3> QED BY <1>0, <3>1 DEF Closed
  <2>2. ASSUME NEW a \in Acquired PROVE (Due(a) <= now <=> Closed(Due(a)) \/ Due(a) = now) /\ ~(Closed(Due(a)) /\ Due(a) = now)
    BY <1>1
  <2> QED BY <1>0, <2>1, <2>2
<1>3. ASSUME NEW a \in done PROVE AnswerTo(a)' = AnswerTo(a)
  <2>1. a \in Acquired /\ Due(a) < now /\ a.end < now
    BY <1>1
  <2>2. sampled'[MeasurementOf(a)] = sampled[MeasurementOf(a)] /\ Due(a)' = Due(a)
    BY <1>0, <1>1, <2>1
  <2> QED BY <2>2 DEF AnswerTo, MeasurementOf, LocalId
<1>4. /\ Lists(b.ready, {MeasurementOf(a) : a \in fresh})
      /\ Len(b.ready) \in Nat
      /\ \A i \in 1..Len(b.ready) : b.ready[i] \in {MeasurementOf(a) : a \in fresh}
  BY <1>0, ReadyAre, ListsSeq
<1>5. \A a \in fresh : f[MeasurementOf(a)] = a
  <2> SUFFICES ASSUME NEW a \in fresh PROVE f[MeasurementOf(a)] = a
    OBVIOUS
  <2>1. \A x \in Acquired : MeasurementOf(x) = MeasurementOf(a) <=> x = a
    BY <1>a
  <2>2. (CHOOSE x \in Acquired : MeasurementOf(x) = MeasurementOf(a)) = a
    BY <2>1
  <2> QED BY <2>2
<1> HIDE DEF f
<1>6. Lists(g, fresh)
  <2> DEFINE M == {MeasurementOf(a) : a \in fresh}
  <2>1. \A x, y \in M : f[x] = f[y] => x = y
    BY <1>5
  <2>2. {f[x] : x \in M} = fresh
    BY <1>5
  <2> HIDE DEF M
  <2>3. Lists([i \in 1..Len(b.ready) |-> f[b.ready[i]]], {f[x] : x \in M})
    BY <1>4, <2>1, ListsMap DEF M
  <2> QED BY <2>2, <2>3
<1>7. Len(g) = Len(b.ready)
  BY <1>4
<1>8. IsFiniteSet(fresh) /\ Cardinality(fresh) = Len(b.ready)
  BY <1>6, <1>7, ListsCard
<1>9. \A i \in 1..Len(b.ready) : \E a \in fresh : b.ready[i] = MeasurementOf(a) /\ u[i] = AnswerTo(a)'
  <2> SUFFICES ASSUME NEW i \in 1..Len(b.ready)
               PROVE  \E a \in fresh : b.ready[i] = MeasurementOf(a) /\ u[i] = AnswerTo(a)'
    OBVIOUS
  <2>1. PICK a \in fresh : b.ready[i] = MeasurementOf(a)
    BY <1>4
  <2>2. CompletionFor(taken[MeasurementOf(a)], now) = AnswerTo(a)'
    BY CompletionIs
  <2>3. u[i] = CompletionFor(taken[b.ready[i]], now)
    OBVIOUS
  <2> HIDE DEF u, taken, fresh
  <2> QED BY <2>1, <2>2, <2>3
<1>10. \A a \in fresh : \E i \in 1..Len(b.ready) : u[i] = AnswerTo(a)'
  <2> SUFFICES ASSUME NEW a \in fresh PROVE \E i \in 1..Len(b.ready) : u[i] = AnswerTo(a)'
    OBVIOUS
  <2>1. PICK i \in 1..Len(b.ready) : b.ready[i] = MeasurementOf(a)
    BY <1>4 DEF Lists
  <2>2. PICK c \in fresh : b.ready[i] = MeasurementOf(c) /\ u[i] = AnswerTo(c)'
    BY <1>9
  <2>3. c = a
    BY <1>a, <2>1, <2>2
  <2> QED BY <2>2, <2>3
<1> DEFINE Y == {AnswerTo(a)' : a \in doneNext}
<1>11. IsSeq(u) /\ Len(u) = Len(b.ready)
  <2>1. u \in Seq({u[i] : i \in 1..Len(b.ready)}) /\ Len(u) = Len(b.ready)
    BY <1>4
  <2> HIDE DEF u
  <2> QED BY <2>1 DEF IsSeq
<1>12. /\ IsFiniteSet(done) /\ delivered \in Seq({AnswerTo(a) : a \in done})
       /\ \A a \in done : \E i \in 1..Len(delivered) : delivered[i] = AnswerTo(a)
       /\ Len(delivered) = Cardinality(done)
  BY <1>a DEF DeliveryInv
<1> HIDE DEF done, fresh, doneNext, u, g
<1>13. /\ IsSeq(delivered) /\ \A i \in 1..Len(delivered) : \E a \in done : delivered[i] = AnswerTo(a)
  BY <1>12 DEF IsSeq
<1> DEFINE v == delivered \o u
<1>14. /\ IsSeq(v) /\ Len(v) = Len(delivered) + Len(u)
       /\ \A i \in 1..Len(delivered) : v[i] = delivered[i]
       /\ \A i \in 1..Len(u) : v[Len(delivered) + i] = u[i]
       /\ \A i \in 1..Len(v) : \/ i \in 1..Len(delivered)
                               \/ i - Len(delivered) \in 1..Len(u) /\ v[i] = u[i - Len(delivered)]
       /\ Len(delivered) \in Nat /\ Len(u) \in Nat
  BY <1>11, <1>13, IsSeqConcat, IsSeqLen
<1> HIDE DEF v
<1>15. \A i \in 1..Len(v) : v[i] \in Y
  <2> SUFFICES ASSUME NEW i \in 1..Len(v) PROVE \E a \in doneNext : v[i] = AnswerTo(a)'
    OBVIOUS
  <2>1. CASE i \in 1..Len(delivered)
    <3>1. PICK a \in done : delivered[i] = AnswerTo(a)
      BY <1>13, <2>1
    <3> QED BY <1>2, <1>3, <1>14, <2>1, <3>1
  <2>2. CASE i - Len(delivered) \in 1..Len(u) /\ v[i] = u[i - Len(delivered)]
    <3>1. PICK a \in fresh : u[i - Len(delivered)] = AnswerTo(a)'
      BY <1>9, <1>11, <2>2
    <3> QED BY <1>2, <2>2, <3>1
  <2> QED BY <1>14, <2>1, <2>2
<1>16. v \in Seq(Y)
  <2> HIDE DEF Y
  <2> QED BY <1>14, <1>15, SeqIn
<1>17. \A a \in doneNext : \E i \in 1..Len(v) : v[i] = AnswerTo(a)'
  <2> SUFFICES ASSUME NEW a \in doneNext PROVE \E i \in 1..Len(v) : v[i] = AnswerTo(a)'
    OBVIOUS
  <2>1. CASE a \in done
    <3>1. PICK i \in 1..Len(delivered) : delivered[i] = AnswerTo(a)
      BY <1>12, <2>1
    <3>2. i \in 1..Len(v) /\ v[i] = delivered[i]
      BY <1>14
    <3> QED BY <1>3, <2>1, <3>1, <3>2
  <2>2. CASE a \in fresh
    <3>1. PICK i \in 1..Len(u) : u[i] = AnswerTo(a)'
      BY <1>10, <1>11, <2>2
    <3>2. Len(delivered) + i \in 1..Len(v) /\ v[Len(delivered) + i] = u[i]
      BY <1>14
    <3> QED BY <3>1, <3>2
  <2> QED BY <1>2, <2>1, <2>2
<1>18. IsFiniteSet(doneNext) /\ Len(v) = Cardinality(doneNext)
  <2>1. IsFiniteSet(done \cup fresh)
        /\ Cardinality(done \cup fresh) = Cardinality(done) + Cardinality(fresh) - Cardinality(done \cap fresh)
    BY <1>8, <1>12, FS_Union
  <2>2. Cardinality(done \cap fresh) = 0
    BY <1>2, FS_EmptySet
  <2>3. Cardinality(done \cup fresh) = Len(v)
    BY <1>8, <1>11, <1>12, <1>14, <2>1, <2>2
  <2> QED BY <1>2, <2>1, <2>3
<1>19. delivered' = v
  BY <1>0 DEF v
<1> QED BY <1>16, <1>17, <1>18, <1>19 DEF DeliveryInv, doneNext

-----------------------------------------------------------------------------
(* The rest of the barrier.                                                *)

\* Processing a boundary keeps the invariant, whether the backend fails or not.
LEMMA ProcessStep ==
  ASSUME Inv, Process
  PROVE  Inv'
<1>0. /\ fault = "None" /\ ~stopped /\ EdgeRan /\ now \in DOMAIN boundaries /\ Core /\ LogInv
      /\ UNCHANGED <<now, epoch, launched, next_id, stopped, summary, origin, accepted>>
  BY DEF Process, Running, Inv
<1> DEFINE b == boundaries[now]
<1>1. PICK outcome \in [{Samples(b)[i].measurement : i \in 1..Len(Samples(b))} -> BOOLEAN],
           n \in Failures \cup {0} :
       IF ProcessFault(b, outcome) # "None"
         THEN /\ fault' = ProcessFault(b, outcome)
              /\ UNCHANGED <<deviceVars, sampled, delivered>>
         ELSE /\ backend' = Prone(Applied(b, n), 0)
              /\ fault' = backend'.fault
              /\ CASE Measured(b, n).fault # "None" -> AbandonBoundary
                   [] Measured(b, n).fault = "None" /\ fault' # "None" ->
                        AbandonGates(b, outcome)
                   [] OTHER -> FinishBoundary(b, outcome)
  BY ZenonT(30) DEF Process
<1> HIDE DEF b
<1>2. AtBoundary(b)
  BY <1>0 DEF AtBoundary, b
<1>3. n \in Nat
  BY DeviceAssumption
<1>4. DOMAIN outcome = {MeasurementOf(a) : a \in EndingNow} /\ DOMAIN outcome = MeasurementsOf(Samples(b))
  BY <1>2, SampleSequence DEF MeasurementsOf
<1>5. ~stopped' /\ summary = "None" /\ summary' = "None"
  BY <1>0 DEF LogInv
<1>6. CASE ProcessFault(b, outcome) # "None"
  <2>1. fault' = "GateInputMismatch"
    BY <1>1, <1>2, <1>4, <1>6, ProcessFaultKinds
  <2>2. UNCHANGED <<backend, last_tick, boundaries, sampled>>
    BY <1>1, <1>6 DEF deviceVars
  <2>3. LogInv'
    BY <1>0, <2>1, <2>2 DEF LogInv
  <2> QED BY <2>1, <2>3 DEF Inv, AcceptedWorkNeverFails, LaunchRefusals
<1>7. CASE ProcessFault(b, outcome) = "None"
  <2> DEFINE m == Measured(b, n)
             a == Applied(b, n)
             p == Prone(a, 0)
  <2>0. /\ backend' = p /\ fault' = p.fault
        /\ CASE m.fault # "None" -> AbandonBoundary
             [] m.fault = "None" /\ fault' # "None" -> AbandonGates(b, outcome)
             [] OTHER -> FinishBoundary(b, outcome)
    BY <1>1, <1>7
  <2>1. NoOutcome(m, a) \/ NoGates(b, m, a) \/ Complied(b, m, a)
    BY <1>0, <1>2, <1>3, BoundaryCalls
  <2>d. DOMAIN sampled = MeasuredIn(backend.executed)
    BY <1>0 DEF LogInv
  <2> HIDE DEF m, a
  <2>2. ASSUME Broken(a, origin, accepted), DOMAIN sampled' = MeasuredIn(a.executed) PROVE Inv'
    <3>1. Broken(p, origin, accepted) /\ p.executed = a.executed
      BY <2>2, ProneBroken
    <3> HIDE DEF p
    <3>2. fault' = "BackendFailure"
      BY <2>0, <3>1 DEF Broken
    <3>3. Shape(backend') /\ Batched(backend') /\ LogOk(backend'.committed, origin, accepted)
      BY <2>0, <3>1, Zenon DEF Broken
    <3>4. DOMAIN sampled' = MeasuredIn(backend'.executed)
      BY <2>0, <2>2, <3>1, Zenon
    <3>5. LogInv'
      BY <1>0, <1>5, <3>2, <3>3, <3>4 DEF LogInv
    <3> QED BY <3>2, <3>5 DEF Inv, AcceptedWorkNeverFails
  <2>3. CASE NoOutcome(m, a)
    <3>1. Broken(a, origin, accepted) /\ m.fault # "None" /\ MeasuredIn(a.executed) = MeasuredIn(backend.executed)
      BY <2>3, Zenon DEF NoOutcome
    <3>2. sampled' = sampled
      BY <2>0, <3>1 DEF AbandonBoundary
    <3> QED BY <2>2, <2>d, <3>1, <3>2
  <2>4. CASE NoGates(b, m, a)
    <3>1. /\ Broken(a, origin, accepted) /\ m.fault = "None"
          /\ MeasuredIn(a.executed) = MeasuredIn(backend.executed) \cup MeasurementsOf(Samples(b))
      BY <2>4 DEF NoGates
    <3>2. fault' = "BackendFailure"
      <4>1. Broken(p, origin, accepted)
        BY <3>1, ProneBroken
      <4> HIDE DEF p
      <4> QED BY <2>0, <4>1 DEF Broken
    <3>3. sampled' = SampledWith(outcome)
      BY <2>0, <3>1, <3>2 DEF AbandonGates
    <3>4. DOMAIN sampled' = DOMAIN sampled \cup DOMAIN outcome
      BY <3>3 DEF SampledWith
    <3> QED BY <1>4, <2>2, <2>d, <3>1, <3>4
  <2>5. CASE Complied(b, m, a)
    <3>1. /\ Going(a, now, origin, accepted) /\ m.fault = "None" /\ a.epoch = epoch
          /\ MeasuredIn(a.executed) = MeasuredIn(backend.executed) \cup MeasurementsOf(Samples(b))
      BY <2>5 DEF Complied
    <3>2. /\ Going(p, now, origin, accepted) /\ p.fails_in = 0 /\ p.epoch = a.epoch /\ p.executed = a.executed
      BY <3>1, ProneGoing
    <3> HIDE DEF p
    <3>3. /\ Shape(p) /\ Batched(p) /\ LogOk(p.committed, origin, accepted)
          /\ p.fault = "None" /\ p.failed = <<>>
          /\ p.committed_tick = now /\ LastTick(p.committed, origin) = now
      BY <3>2 DEF Going
    <3>4. fault' = "None"
      BY <2>0, <3>3
    <3>5. FinishBoundary(b, outcome)
      BY <2>0, <3>1, <3>4
    <3>6. Finishes(b, outcome)
      BY <1>0, <1>2, <1>4, <3>5 DEF Finishes
    <3>7. last_tick' = now
      BY <3>6, FinishIs
    <3>8. DOMAIN sampled' = DOMAIN sampled \cup DOMAIN outcome
      BY <3>6, FinishKeepsReadouts
    <3>9. DOMAIN sampled' = MeasuredIn(p.executed)
      BY <1>4, <2>d, <3>1, <3>2, <3>8
    <3>10. LogInv'
      <4>1. /\ Shape(backend') /\ Batched(backend') /\ LogOk(backend'.committed, origin, accepted)
            /\ LastTick(backend'.committed, origin) = now /\ backend'.failed = <<>>
            /\ DOMAIN sampled' = MeasuredIn(backend'.executed)
        BY <2>0, <3>3, <3>9, Zenon
      <4> QED BY <1>0, <1>5, <3>4, <3>7, <4>1 DEF LogInv
    <3>11. BackendOk'
      <4>1. /\ backend'.fault = "None" /\ backend'.fails_in = 0 /\ backend'.epoch = epoch
            /\ backend'.failed = <<>> /\ backend'.committed_tick = now
        BY <2>0, <3>1, <3>2, <3>3, Zenon
      <4> QED BY <1>0, <3>7, <4>1 DEF BackendOk
    <3>12. Core'
      BY <3>6, <3>11, FinishKeepsTime, FinishKeepsActive, FinishKeepsReadouts, FinishKeepsDelivery DEF Core
    <3> QED BY <3>4, <3>10, <3>12 DEF Inv, AcceptedWorkNeverFails
  <2> QED BY <2>1, <2>3, <2>4, <2>5
<1> QED BY <1>6, <1>7

\* A step that leaves the accepted work and the boundaries alone and moves time
\* on to a tick at which nothing has been missed keeps the core of the invariant.
LEMMA TickKeepsCore ==
  ASSUME Core, UNCHANGED <<reservations, boundaries, active, readouts, processed_tick, epoch, next_id,
                           origin, accepted, sampled, delivered>>,
         TimeInv', \A t \in DOMAIN boundaries : now' <= t
  PROVE  (TimeInv /\ ActionInv /\ BoundaryInv /\ ActiveInv /\ ReadoutInv /\ DeliveryInv)'
<1>a. /\ TimeInv /\ ActionInv /\ BoundaryInv /\ ActiveInv /\ ReadoutInv /\ DeliveryInv
  BY DEF Core
<1>1. \A t : Closed(t)' = Closed(t)
  BY DEF Closed
<1>2. ActionInv'
  BY <1>a DEF ActionInv, ActionOk, Acquired
<1>3. BoundaryInv'
  BY <1>a, <1>1 DEF BoundaryInv, BoundaryAt
<1>4. ActiveInv'
  BY <1>a, <1>1 DEF ActiveInv
<1>5. ReadoutInv'
  BY <1>a DEF ReadoutInv, ReadoutFor, Acquired, Due, Closed
<1>6. DeliveryInv'
  BY <1>a DEF DeliveryInv, AnswerTo, Acquired, Due, Closed
<1> QED BY <1>2, <1>3, <1>4, <1>5, <1>6

\* flush in a backend that has not failed executes all that was asked for, or
\* fails.
LEMMA FlushGoing ==
  ASSUME NEW b, NEW t, NEW o, NEW acts, Going(b, t, o, acts)
  PROVE  /\ Alike(b, Flush(b))
         /\ \/ Going(Flush(b), t, o, acts) /\ Flush(b).executed = Flush(b).committed
            \/ Broken(Flush(b), o, acts)
<1> DEFINE f == Flush(b)
<1>0. /\ Shape(b) /\ Batched(b) /\ LogOk(b.committed, o, acts)
      /\ b.fault = "None" /\ b.failed = <<>> /\ b.fails_in \in Nat
      /\ b.committed_tick = t /\ LastTick(b.committed, o) = t
      /\ IsSeq(b.executed) /\ IsSeq(b.pending)
      /\ \A i \in 1..Len(b.pending) : b.pending[i].kind # "Measurement"
  BY DEF Going, Batched
<1>1. b.executed \o b.pending = b.committed
  <2>1. b.executed \o b.failed \o b.pending = b.committed
    BY <1>0 DEF Batched
  <2>2. b.executed \o <<>> = b.executed
    BY <1>0, ConcatEmpty
  <2> QED BY <1>0, <2>1, <2>2, Zenon
<1>2. CASE b.pending = <<>>
  <2>1. f = b
    BY <1>2 DEF Flush
  <2>2. b.executed = b.committed
    <3>1. b.executed \o <<>> = b.executed
      BY <1>0, ConcatEmpty
    <3> QED BY <1>1, <1>2, <3>1, Zenon
  <2> QED BY <2>1, <2>2, Zenon DEF Alike
<1>3. CASE b.pending # <<>>
  <2>1. Batched(f) /\ (Executed(b, f) \/ GivenUp(b, f))
    BY <1>0, <1>1, <1>3, FlushBatched
  <2> HIDE DEF f
  <2>2. CASE Executed(b, f)
    <3>1. /\ Shape(f) /\ f.executed = b.executed \o b.pending /\ f.failed = b.failed /\ f.committed = b.committed
          /\ f.fault = b.fault /\ f.epoch = b.epoch /\ f.committed_tick = b.committed_tick /\ f.fails_in \in Nat
      BY <2>2 DEF Executed
    <3>2. LogOk(f.committed, o, acts) /\ LastTick(f.committed, o) = t
      BY <1>0, <3>1, Zenon
    <3>3. Going(f, t, o, acts)
      BY <1>0, <2>1, <3>1, <3>2 DEF Going
    <3>4. f.executed = f.committed
      BY <1>1, <3>1, Zenon
    <3>5. MeasuredIn(f.executed) = MeasuredIn(b.executed)
      <4> DEFINE e == b.executed
                 q == b.pending
      <4>1. IsSeq(e) /\ IsSeq(q) /\ \A i \in 1..Len(q) : q[i].kind # "Measurement"
        BY <1>0
      <4> HIDE DEF e, q
      <4>2. MeasuredIn(e \o q) = MeasuredIn(e) \cup MeasuredIn(q) /\ MeasuredIn(q) = {}
        BY <4>1, MeasuredConcat, MeasuredNone
      <4>3. MeasuredIn(e \o q) = MeasuredIn(e)
        BY <4>2
      <4> QED BY <3>1, <4>3, Zenon DEF e, q
    <3> QED BY <3>1, <3>3, <3>4, <3>5 DEF f, Alike
  <2>3. CASE GivenUp(b, f)
    <3>1. Shape(f) /\ f.executed = b.executed /\ f.committed = b.committed /\ f.fault = "BackendFailure" /\ f.epoch = b.epoch
      BY <2>3 DEF GivenUp
    <3>2. LogOk(f.committed, o, acts)
      BY <1>0, <3>1, Zenon
    <3>3. Broken(f, o, acts)
      BY <2>1, <3>1, <3>2 DEF Broken
    <3> QED BY <3>1, <3>3, Zenon DEF f, Alike
  <2> QED BY <2>1, <2>2, <2>3
<1> QED BY <1>2, <1>3

\* finalize keeps the invariant: the idle rest of the run has no pulses, since
\* the device is drained.
LEMMA FinalizeStep ==
  ASSUME Inv, Finalize
  PROVE  Inv'
<1>0. /\ fault = "None" /\ ~stopped /\ EdgeRan /\ Drained /\ Core /\ LogInv
      /\ fault' = backend'.fault /\ stopped' = (fault' = "None")
      /\ UNCHANGED <<reservations, boundaries, active, readouts, processed_tick,
                     now, epoch, launched, next_id, summary, origin, accepted, sampled, delivered>>
  BY DEF Finalize, Running, Inv, historyVars
<1>a. TimeInv /\ BoundaryInv /\ last_tick \in Nat /\ now \in Nat /\ last_tick <= now
  BY <1>0 DEF Core, TimeInv
<1>b. summary = "None" /\ DOMAIN sampled = MeasuredIn(backend.executed)
  BY <1>0 DEF LogInv
<1>c. DOMAIN boundaries = {} /\ active = {}
  BY <1>0 DEF Drained
<1>1. PICK n \in Failures \cup {0} :
        /\ backend' = Prone(IF Evolve(Prone(backend, n), last_tick, now, {}, {}).fault = "None"
                              THEN Flush(Evolve(Prone(backend, n), last_tick, now, {}, {}))
                              ELSE Evolve(Prone(backend, n), last_tick, now, {}, {}), 0)
        /\ last_tick' = IF Evolve(Prone(backend, n), last_tick, now, {}, {}).fault = "None" THEN now ELSE last_tick
  BY DEF Finalize
<1> DEFINE p == Prone(backend, n)
           e == Evolve(p, last_tick, now, {}, {})
           f == Flush(e)
<1>2. n \in Nat
  BY DeviceAssumption
<1>3. Going(p, last_tick, origin, accepted) /\ p.epoch = epoch /\ p.executed = backend.executed
  BY <1>0, <1>2, BackendReady
<1>4. last_tick < now => DrivenBy(Evolution(last_tick, now, {}, {}), accepted)
  <2>1. {[id |-> a.id, start |-> a.start, end |-> a.end] : a \in {x \in active : x.kind = "Pulse"}} = {}
    BY <1>c
  <2> QED BY <1>0, <2>1, ActiveDrives
<1>5. Alike(p, e) /\ (Going(e, now, origin, accepted) \/ Broken(e, origin, accepted))
  <2> HIDE DEF p
  <2> QED BY <1>a, <1>3, <1>4, EvolveStep
<1>6. /\ backend' = Prone(IF e.fault = "None" THEN f ELSE e, 0)
      /\ last_tick' = IF e.fault = "None" THEN now ELSE last_tick
  BY <1>1
<1> HIDE DEF p
<1>7. e.epoch = epoch /\ MeasuredIn(e.executed) = MeasuredIn(backend.executed)
  BY <1>3, <1>5, Zenon DEF Alike
<1> HIDE DEF e
<1>8. ASSUME NEW x, Broken(x, origin, accepted), backend' = Prone(x, 0),
             MeasuredIn(x.executed) = MeasuredIn(backend.executed)
      PROVE  Inv'
  <2> DEFINE q == Prone(x, 0)
  <2>1. Broken(q, origin, accepted) /\ q.executed = x.executed
    BY <1>8, ProneBroken
  <2>0. backend' = q
    BY <1>8
  <2> HIDE DEF q
  <2>2. fault' = "BackendFailure" /\ ~stopped'
    BY <1>0, <2>0, <2>1 DEF Broken
  <2>3. /\ Shape(backend') /\ Batched(backend') /\ LogOk(backend'.committed, origin, accepted)
        /\ DOMAIN sampled = MeasuredIn(backend'.executed)
    BY <1>b, <1>8, <2>0, <2>1, Zenon DEF Broken
  <2>4. LogInv'
    BY <1>0, <1>b, <2>2, <2>3 DEF LogInv
  <2> QED BY <2>2, <2>4 DEF Inv, AcceptedWorkNeverFails
<1>9. CASE Broken(e, origin, accepted)
  <2>1. e.fault # "None"
    BY <1>9 DEF Broken
  <2>2. backend' = Prone(e, 0)
    BY <1>6, <2>1
  <2> QED BY <1>7, <1>8, <1>9, <2>2
<1>10. CASE Going(e, now, origin, accepted)
  <2>1. e.fault = "None"
    BY <1>10 DEF Going
  <2>2. backend' = Prone(f, 0) /\ last_tick' = now
    BY <1>6, <2>1
  <2>3. /\ Alike(e, f)
        /\ \/ Going(f, now, origin, accepted) /\ f.executed = f.committed
           \/ Broken(f, origin, accepted)
    BY <1>10, FlushGoing
  <2> HIDE DEF f
  <2>4. MeasuredIn(f.executed) = MeasuredIn(backend.executed) /\ f.epoch = epoch
    BY <1>7, <2>3, Zenon DEF Alike
  <2>5. CASE Broken(f, origin, accepted)
    BY <1>8, <2>2, <2>4, <2>5
  <2>6. CASE Going(f, now, origin, accepted) /\ f.executed = f.committed
    <3> DEFINE q == Prone(f, 0)
    <3>1. Going(q, now, origin, accepted) /\ q.fails_in = 0 /\ q.epoch = f.epoch /\ q.executed = f.executed
      BY <2>6, ProneGoing
    <3>2. q.committed = f.committed
      BY <2>6, ProneIs DEF Going
    <3>0. backend' = q
      BY <2>2
    <3> HIDE DEF q
    <3>3. /\ Shape(q) /\ Batched(q) /\ LogOk(q.committed, origin, accepted)
          /\ q.fault = "None" /\ q.failed = <<>>
          /\ q.committed_tick = now /\ LastTick(q.committed, origin) = now
      BY <3>1 DEF Going
    <3>4. q.executed = q.committed /\ DOMAIN sampled = MeasuredIn(q.executed) /\ q.epoch = epoch
      BY <1>b, <2>4, <2>6, <3>1, <3>2, Zenon
    <3>5. fault' = "None" /\ stopped' = TRUE
      BY <1>0, <3>0, <3>3
    <3>6. LogInv'
      <4>1. /\ Shape(backend') /\ Batched(backend') /\ LogOk(backend'.committed, origin, accepted)
            /\ LastTick(backend'.committed, origin) = now /\ backend'.failed = <<>>
            /\ backend'.executed = backend'.committed
            /\ DOMAIN sampled = MeasuredIn(backend'.executed)
        BY <3>0, <3>3, <3>4, Zenon
      <4> QED BY <1>0, <1>b, <1>c, <2>2, <3>5, <4>1 DEF LogInv
    <3>7. BackendOk'
      <4>1. /\ backend'.fault = "None" /\ backend'.fails_in = 0 /\ backend'.epoch = epoch
            /\ backend'.failed = <<>> /\ backend'.committed_tick = now
        BY <3>0, <3>1, <3>3, <3>4, Zenon
      <4> QED BY <1>0, <2>2, <4>1 DEF BackendOk
    <3>8. TimeInv'
      <4>1. EdgeRan'
        BY <1>0 DEF EdgeRan, OnEdge
      <4>2. /\ now' = now /\ last_tick' = now /\ origin' = origin /\ epoch' = epoch /\ next_id' = next_id
            /\ processed_tick' = processed_tick
        BY <1>0, <2>2
      <4>3. origin <= now /\ now <= now
        BY <1>a DEF TimeInv
      <4>4. \/ processed_tick = <<>>
            \/ \E t \in 0..now : processed_tick = <<t>>
        BY <1>a DEF TimeInv
      <4> QED BY <1>a, <3>5, <4>1, <4>2, <4>3, <4>4 DEF TimeInv
    <3>9. Core'
      <4>1. \A t \in DOMAIN boundaries : now' <= t
        BY <1>c
      <4> QED BY <1>0, <3>7, <3>8, <4>1, TickKeepsCore DEF Core
    <3> QED BY <3>5, <3>6, <3>9 DEF Inv, AcceptedWorkNeverFails
  <2> QED BY <2>3, <2>5, <2>6
<1> QED BY <1>5, <1>9, <1>10

\* The next TCU edge is in the future.
LEMMA NextEdge ==
  ASSUME NEW n \in Nat
  PROVE  ((n \div TcuPeriod) + 1) * TcuPeriod \in Nat /\ n < ((n \div TcuPeriod) + 1) * TcuPeriod
<1> DEFINE P == TcuPeriod
           q == n \div P
           r == n % P
<1>0. P \in Nat \ {0}
  BY DeviceAssumption
<1> HIDE DEF P
<1>1. q \in Nat /\ r \in 0..(P - 1) /\ n = P * q + r
  BY <1>0
<1> HIDE DEF q, r
<1>2. (q + 1) * P = P * q + P
  BY <1>0, <1>1
<1> DEFINE m == P * q
<1>3. m \in Nat
  BY <1>0, <1>1
<1> HIDE DEF m
<1>4. n = m + r /\ (q + 1) * P = m + P
  BY <1>1, <1>2 DEF m
<1>5. m + P \in Nat /\ n < m + P
  BY <1>0, <1>1, <1>3, <1>4
<1> QED BY <1>4, <1>5 DEF q, P

\* So the next tick is in the future and no boundary lies before it.
LEMMA NextTickIs ==
  ASSUME Core, now \notin DOMAIN boundaries
  PROVE  NextTick \in Nat /\ now < NextTick /\ \A t \in DOMAIN boundaries : NextTick <= t
<1> DEFINE ticks == {((now \div TcuPeriod) + 1) * TcuPeriod} \cup DOMAIN boundaries
<1>0. now \in Nat /\ DOMAIN boundaries \subseteq Nat /\ \A t \in DOMAIN boundaries : now <= t
  BY DEF Core, TimeInv, BoundaryInv
<1>1. \A t \in ticks : t \in Nat /\ now < t
  <2>1. ((now \div TcuPeriod) + 1) * TcuPeriod \in Nat /\ now < ((now \div TcuPeriod) + 1) * TcuPeriod
    BY <1>0, NextEdge
  <2>2. \A t \in DOMAIN boundaries : t \in Nat /\ now < t
    BY <1>0
  <2> QED BY <2>1, <2>2
<1>2. \E x \in ticks : \A y \in ticks : x <= y
  <2>1. ticks \subseteq Nat /\ ticks # {}
    BY <1>1
  <2> HIDE DEF ticks
  <2> QED BY <2>1, LeastOf
<1>3. NextTick = CHOOSE t \in ticks : \A u \in ticks : t <= u
  BY DEF NextTick
<1>4. DOMAIN boundaries \subseteq ticks
  OBVIOUS
<1> HIDE DEF ticks
<1>5. NextTick \in ticks /\ \A u \in ticks : NextTick <= u
  BY <1>2, <1>3
<1> QED BY <1>1, <1>4, <1>5

\* The barrier moves on without missing a boundary.
LEMMA AdvanceStep ==
  ASSUME Inv, AdvanceTick
  PROVE  Inv'
<1>0. /\ fault = "None" /\ ~stopped /\ now \notin DOMAIN boundaries /\ Core /\ LogInv
      /\ UNCHANGED <<reservations, boundaries, active, readouts, last_tick, processed_tick, backend,
                     epoch, next_id, stopped, summary, origin, accepted, sampled, delivered>>
  BY DEF AdvanceTick, Running, Inv, historyVars, deviceVars
<1>1. NextTick \in Nat /\ now < NextTick /\ \A t \in DOMAIN boundaries : NextTick <= t
  BY <1>0, NextTickIs
<1>2. TimeInv /\ now \in Nat /\ last_tick \in Nat /\ last_tick <= now
  BY <1>0 DEF Core, TimeInv
<1>3. fault' = "None"
  BY <1>1, <1>2 DEF AdvanceTick
<1>4. now' \in Nat /\ now < now' /\ now' <= NextTick
  BY <1>1, <1>2 DEF AdvanceTick
<1>5. \A t \in DOMAIN boundaries : now' <= t
  BY <1>0, <1>1, <1>4 DEF Core, BoundaryInv
<1>6. TimeInv'
  <2>1. /\ last_tick' = last_tick /\ origin' = origin /\ epoch' = epoch /\ next_id' = next_id
        /\ processed_tick' = processed_tick /\ stopped' = stopped
    BY <1>0
  <2>2. last_tick <= now'
    BY <1>2, <1>4
  <2>3. \/ processed_tick = <<>>
        \/ \E p \in 0..last_tick : processed_tick = <<p>> /\ (~stopped => p = last_tick) /\ p # now'
    BY <1>2, <1>4 DEF TimeInv
  <2> QED BY <1>2, <1>4, <2>1, <2>2, <2>3 DEF TimeInv
<1>7. BackendOk' /\ LogInv'
  BY <1>0, <1>3 DEF Core, BackendOk, LogInv
<1>8. Core'
  BY <1>0, <1>5, <1>6, <1>7, TickKeepsCore DEF Core
<1> QED BY <1>3, <1>7, <1>8 DEF Inv, AcceptedWorkNeverFails

\* The state in which an epoch begins.
FreshState ==
  /\ reservations = {} /\ boundaries = << >> /\ active = {} /\ readouts = << >>
  /\ last_tick = now /\ origin = now /\ now \in Nat /\ epoch \in Nat /\ processed_tick = <<>>
  /\ backend = FreshBackend(epoch, now)
  /\ next_id = [c \in Cores |-> [event |-> 1, measurement |-> 1]]
  /\ ~stopped /\ fault = "None" /\ summary = "None"
  /\ accepted = {} /\ sampled = << >> /\ delivered = <<>>

\* It satisfies the invariant.
LEMMA FreshInv == FreshState => Inv
<1> SUFFICES ASSUME FreshState PROVE Inv
  OBVIOUS
<1> USE DEF FreshState
<1>0. /\ IsSeq(<<>>) /\ Len(<<>>) = 0 /\ DOMAIN << >> = {}
  BY IsSeqEmpty, IsSeqLen
<1>1. TimeInv
  BY DEF TimeInv
<1>2. ActionInv /\ ActiveInv /\ Acquired = {}
  BY DEF ActionInv, ActiveInv, Acquired, AcquiredIn
<1>3. BoundaryInv
  <2>1. \A t : Complete(NoBoundary, {}, t)
    <3> SUFFICES ASSUME NEW t PROVE Complete(NoBoundary, {}, t)
      OBVIOUS
    <3>1. StartsAt({}, t) = {} /\ EndsAt({}, t) = {} /\ ReadyAt({}, t) = {}
      BY DEF StartsAt, EndsAt, ReadyAt, AcquiredIn
    <3>2. NoBoundary.starts = <<>> /\ NoBoundary.ends = <<>> /\ NoBoundary.ready = <<>>
      BY DEF NoBoundary
    <3> QED BY <3>1, <3>2, ListsEmpty DEF Complete
  <2>2. \A t : BoundaryAt(t) = NoBoundary
    BY <1>0 DEF BoundaryAt
  <2> QED BY <1>0, <2>1, <2>2 DEF BoundaryInv
<1>4. ReadoutInv
  BY <1>0, <1>2 DEF ReadoutInv
<1>5. DeliveryInv
  <2>1. IsFiniteSet({}) /\ Cardinality({}) = 0
    BY FS_EmptySet
  <2>2. {a \in Acquired : Closed(Due(a))} = {}
    BY <1>2
  <2>3. <<>> \in Seq({AnswerTo(a) : a \in {}})
    OBVIOUS
  <2> QED BY <1>0, <2>1, <2>2, <2>3 DEF DeliveryInv
<1> DEFINE k == backend
<1>6. /\ Shape(backend) /\ backend.pending = <<>> /\ backend.executed = <<>> /\ backend.failed = <<>>
      /\ backend.committed = <<>> /\ backend.fault = "None" /\ backend.fails_in = 0
      /\ backend.epoch = epoch /\ backend.committed_tick = now
  BY DEF FreshBackend, Shape
<1>7. BackendOk
  BY <1>6 DEF BackendOk
<1>8. Batched(backend)
  <2>1. <<>> \o <<>> \o <<>> = <<>>
    BY <1>0, ConcatEmpty, Zenon
  <2>2. backend.executed \o backend.failed \o backend.pending = backend.committed
    BY <1>6, <2>1, Zenon
  <2>3. Len(backend.pending) = 0 /\ 0 < MaxBatch
    BY <1>0, <1>6, BatchAssumption
  <2>4. IsSeq(backend.executed) /\ IsSeq(backend.failed) /\ IsSeq(backend.pending)
    BY <1>0, <1>6, Zenon
  <2>5. \A i \in 1..Len(backend.pending) : backend.pending[i].kind # "Measurement"
    BY <2>3
  <2>6. Len(backend.pending) < MaxBatch
    BY <2>3
  <2> QED BY <1>6, <2>2, <2>4, <2>5, <2>6, Zenon DEF Batched
<1>9. LogOk(<<>>, now, {}) /\ LastTick(<<>>, now) = now
  <2>1. EvolutionsOf(<<>>) = <<>>
    BY AtEmpty DEF EvolutionsOf
  <2>2. LastTick(<<>>, now) = now /\ LastEvolved(<<>>, now) = now
    BY <2>1 DEF LastTick, LastEvolved
  <2>3. EvolutionsOk(<<>>, now, {}) /\ InstantsOk(<<>>, now)
    BY <1>0, <2>1 DEF EvolutionsOk, InstantsOk
  <2> QED BY <1>0, <2>2, <2>3 DEF LogOk
<1>10. LogOk(backend.committed, origin, accepted) /\ LastTick(backend.committed, origin) = now
  BY <1>6, <1>9
<1>11. MeasuredIn(backend.executed) = {}
  <2>1. MeasuredIn(<<>>) = {}
    BY <1>0, MeasuredNone
  <2> QED BY <1>6, <2>1
<1>12. LogInv
  BY <1>0, <1>6, <1>8, <1>10, <1>11 DEF LogInv
<1> QED BY <1>1, <1>2, <1>3, <1>4, <1>5, <1>7, <1>12 DEF Inv, Core, AcceptedWorkNeverFails

\* The simulation begins like that.
LEMMA InitInv == Init => Inv
<1>1. Init => FreshState
  BY DEF Init, FreshState
<1> QED BY <1>1, FreshInv

\* So does every epoch after a reset, whatever was going on before.
LEMMA ResetStep ==
  ASSUME Inv, ResetSession
  PROVE  Inv'
<1>1. now \in Nat /\ epoch \in Nat /\ fault = "None" /\ ~stopped /\ summary = "None"
  BY DEF ResetSession, Running, Inv, Core, TimeInv, LogInv
<1>2. FreshState'
  BY <1>1 DEF ResetSession, FreshState
<1> QED BY <1>2, FreshInv, PTL

-----------------------------------------------------------------------------
(* The theorems.                                                           *)

\* Nothing is left to execute once everything asked for has been executed.
LEMMA NothingPending ==
  ASSUME NEW b, Batched(b), b.executed = b.committed
  PROVE  b.pending = <<>>
<1> DEFINE e == b.executed
           f == b.failed
           p == b.pending
<1>0. IsSeq(e) /\ IsSeq(f) /\ IsSeq(p)
  BY DEF Batched
<1>1. e \o f \o p = e
  BY Zenon DEF Batched
<1> HIDE DEF e, f, p
<1>2. IsSeq(e \o f) /\ Len(e \o f) = Len(e) + Len(f) /\ Len(e \o f \o p) = Len(e) + Len(f) + Len(p)
  BY <1>0, IsSeqConcat
<1>3. Len(e) \in Nat /\ Len(f) \in Nat /\ Len(p) \in Nat /\ (Len(p) = 0 <=> p = <<>>)
  BY <1>0, IsSeqLen
<1>4. Len(e \o f \o p) = Len(e)
  BY <1>1
<1>5. p = <<>>
  BY <1>2, <1>3, <1>4
<1> QED BY <1>5 DEF p

\* What the summary leaves of the backend: the pending batch is executed or given up.
LEMMA SummaryFlush ==
  ASSUME NEW b, Shape(b), Batched(b), NEW n \in Nat
  PROVE  LET s == Prone(Flush(Prone(b, n)), 0)
         IN  /\ Shape(s) /\ Batched(s) /\ s.committed = b.committed
             /\ MeasuredIn(s.executed) = MeasuredIn(b.executed)
             /\ b.pending = <<>> =>
                  /\ s.executed = b.executed /\ s.failed = b.failed /\ s.fault = b.fault /\ s.epoch = b.epoch
                  /\ s.fails_in = 0 /\ s.committed_tick = b.committed_tick
             /\ b.failed = <<>> /\ s.failed = b.failed => s.executed = s.committed
<1> DEFINE p == Prone(b, n)
           f == Flush(p)
           s == Prone(f, 0)
<1>0. /\ IsSeq(b.executed) /\ IsSeq(b.pending) /\ IsSeq(b.failed)
      /\ b.executed \o b.failed \o b.pending = b.committed
      /\ b.failed # <<>> => b.pending = <<>>
      /\ \A i \in 1..Len(b.pending) : b.pending[i].kind # "Measurement"
  BY DEF Batched
<1>1. /\ Shape(p) /\ p.pending = b.pending /\ p.executed = b.executed
      /\ p.failed = b.failed /\ p.committed = b.committed
      /\ p.fault = b.fault /\ p.epoch = b.epoch
      /\ p.committed_tick = b.committed_tick /\ p.fails_in = n
  BY ProneIs
<1>2. Batched(p)
  <2> HIDE DEF p
  <2> QED BY <1>1, Zenon DEF Batched
<1>3. ASSUME b.failed = <<>> PROVE b.executed \o b.pending = b.committed
  <2>1. b.executed \o <<>> = b.executed
    BY <1>0, ConcatEmpty
  <2> QED BY <1>0, <1>3, <2>1, Zenon
<1> HIDE DEF p
<1>4. CASE b.pending = <<>>
  <2>1. f = p
    BY <1>1, <1>4 DEF Flush
  <2>2. Shape(f)
    BY <1>1, <2>1, Zenon
  <2> HIDE DEF f
  <2>3. /\ Shape(s) /\ s.pending = f.pending /\ s.executed = f.executed
        /\ s.failed = f.failed /\ s.committed = f.committed
        /\ s.fault = f.fault /\ s.epoch = f.epoch
        /\ s.committed_tick = f.committed_tick /\ s.fails_in = 0
    BY <2>2, ProneIs
  <2> HIDE DEF s
  <2>4. /\ s.pending = b.pending /\ s.executed = b.executed /\ s.failed = b.failed /\ s.committed = b.committed
        /\ s.fault = b.fault /\ s.epoch = b.epoch /\ s.committed_tick = b.committed_tick /\ s.fails_in = 0
    BY <1>1, <2>1, <2>3, Zenon
  <2>5. Batched(s)
    BY <2>4, Zenon DEF Batched
  <2>6. MeasuredIn(s.executed) = MeasuredIn(b.executed)
    BY <2>4, Zenon
  <2>7. ASSUME b.failed = <<>> PROVE s.executed = s.committed
    <3>1. b.executed \o <<>> = b.executed
      BY <1>0, ConcatEmpty
    <3>2. b.executed = b.committed
      BY <1>3, <1>4, <2>7, <3>1, Zenon
    <3> QED BY <2>4, <3>2, Zenon
  <2> QED BY <2>3, <2>4, <2>5, <2>6, <2>7 DEF s, f, p
<1>5. CASE b.pending # <<>>
  <2>0. b.failed = <<>>
    BY <1>0, <1>5
  <2>1. b.executed \o b.pending = b.committed
    BY <1>3, <2>0
  <2>2. p.executed \o p.pending = p.committed /\ IsSeq(p.executed) /\ IsSeq(p.pending) /\ p.failed = <<>> /\ p.pending # <<>>
    BY <1>0, <1>1, <1>5, <2>0, <2>1, Zenon
  <2>3. Batched(f) /\ (Executed(p, f) \/ GivenUp(p, f))
    BY <1>1, <2>2, FlushBatched
  <2> HIDE DEF f
  <2>4. Shape(f)
    BY <2>3 DEF Executed, GivenUp
  <2>5. /\ Shape(s) /\ s.pending = f.pending /\ s.executed = f.executed
        /\ s.failed = f.failed /\ s.committed = f.committed
    BY <2>4, ProneIs
  <2> HIDE DEF s
  <2>6. Batched(s)
    BY <2>3, <2>5, Zenon DEF Batched
  <2>7. CASE Executed(p, f)
    <3>1. f.executed = p.executed \o p.pending /\ f.committed = p.committed
      BY <2>7 DEF Executed
    <3>2. s.executed = b.executed \o b.pending /\ s.committed = b.committed
      BY <1>1, <2>5, <3>1, Zenon
    <3>3. MeasuredIn(b.executed \o b.pending) = MeasuredIn(b.executed)
      <4> DEFINE e == b.executed
                 q == b.pending
      <4>1. IsSeq(e) /\ IsSeq(q) /\ \A i \in 1..Len(q) : q[i].kind # "Measurement"
        BY <1>0
      <4> HIDE DEF e, q
      <4>2. MeasuredIn(e \o q) = MeasuredIn(e) \cup MeasuredIn(q) /\ MeasuredIn(q) = {}
        BY <4>1, MeasuredConcat, MeasuredNone
      <4>3. MeasuredIn(e \o q) = MeasuredIn(e)
        BY <4>2
      <4> QED BY <4>3 DEF e, q
    <3>4. s.executed = s.committed /\ MeasuredIn(s.executed) = MeasuredIn(b.executed)
      BY <2>1, <3>2, <3>3, Zenon
    <3> QED BY <1>5, <2>5, <2>6, <3>2, <3>4, Zenon DEF s, f, p
  <2>8. CASE GivenUp(p, f)
    <3>1. f.executed = p.executed /\ f.committed = p.committed /\ f.failed = p.pending
      BY <2>8 DEF GivenUp
    <3>2. s.executed = b.executed /\ s.committed = b.committed /\ s.failed = b.pending
      BY <1>1, <2>5, <3>1, Zenon
    <3>3. s.failed # b.failed
      BY <1>5, <2>0, <3>2
    <3>4. MeasuredIn(s.executed) = MeasuredIn(b.executed)
      BY <3>2, Zenon
    <3> QED BY <1>5, <2>5, <2>6, <3>2, <3>3, <3>4, Zenon DEF s, f, p
  <2> QED BY <2>3, <2>7, <2>8
<1> QED BY <1>4, <1>5

\* The summary executes what is pending and disturbs nothing else.
LEMMA SummarizeStep ==
  ASSUME Inv, Summarize
  PROVE  Inv'
<1>0. /\ ~Running /\ summary = "None" /\ LogInv
      /\ summary' = IF backend'.failed # backend.failed THEN "Failed" ELSE "Written"
      /\ UNCHANGED <<reservations, boundaries, active, readouts, last_tick, processed_tick,
                     now, epoch, launched, next_id, stopped, fault, origin, accepted, sampled, delivered>>
  BY DEF Summarize, Inv, historyVars
<1>1. PICK n \in (Failures \cap {1}) \cup {0} : backend' = Prone(Flush(Prone(backend, n)), 0)
  BY DEF Summarize
<1>2. n \in Nat
  OBVIOUS
<1>3. /\ Shape(backend) /\ Batched(backend) /\ LogOk(backend.committed, origin, accepted)
      /\ DOMAIN sampled = MeasuredIn(backend.executed)
  BY <1>0 DEF LogInv
<1> DEFINE s == Prone(Flush(Prone(backend, n)), 0)
<1>4. /\ Shape(s) /\ Batched(s) /\ s.committed = backend.committed
      /\ MeasuredIn(s.executed) = MeasuredIn(backend.executed)
      /\ backend.pending = <<>> =>
           /\ s.executed = backend.executed /\ s.failed = backend.failed /\ s.fault = backend.fault
           /\ s.epoch = backend.epoch
           /\ s.fails_in = 0 /\ s.committed_tick = backend.committed_tick
      /\ backend.failed = <<>> /\ s.failed = backend.failed => s.executed = s.committed
  BY <1>2, <1>3, SummaryFlush
<1>s. backend' = s
  BY <1>1
<1> HIDE DEF s
<1>5. /\ Shape(backend') /\ Batched(backend') /\ LogOk(backend'.committed, origin, accepted)
      /\ DOMAIN sampled = MeasuredIn(backend'.executed)
      /\ LastTick(backend'.committed, origin) = LastTick(backend.committed, origin)
  BY <1>3, <1>4, <1>s, Zenon
<1>6. ASSUME stopped PROVE backend.pending = <<>> /\ backend'.executed = backend'.committed
  <2>1. backend.executed = backend.committed
    BY <1>0, <1>6 DEF LogInv
  <2>2. backend.pending = <<>>
    BY <1>3, <2>1, NothingPending
  <2>3. s.executed = s.committed
    BY <1>4, <2>1, <2>2, Zenon
  <2> QED BY <1>s, <2>2, <2>3, Zenon
<1>7. ASSUME summary' = "Written", fault # "BackendFailure" PROVE backend'.executed = backend'.committed
  <2>1. backend'.failed = backend.failed
    BY <1>0, <1>7
  <2>2. backend.failed = <<>>
    BY <1>0, <1>7 DEF LogInv
  <2> QED BY <1>4, <1>s, <2>1, <2>2, Zenon
<1>8. summary' # "None"
  BY <1>0
<1>9. LogInv'
  <2>1. stopped => DOMAIN boundaries = {}
    BY <1>0 DEF LogInv
  <2>2. stopped \/ fault # "None"
    BY <1>0 DEF Running
  <2>3. fault # "BackendFailure" => last_tick = LastTick(backend'.committed, origin)
    BY <1>0, <1>5 DEF LogInv
  <2> QED BY <1>0, <1>5, <1>6, <1>7, <1>8, <2>1, <2>2, <2>3 DEF LogInv
<1>10. ASSUME fault = "None" PROVE Core'
  <2>1. Core /\ stopped
    BY <1>0, <1>10 DEF Inv, Running
  <2>2. backend.pending = <<>>
    BY <1>6, <2>1
  <2>3. BackendOk'
    <3>1. backend'.fault = backend.fault /\ backend'.epoch = backend.epoch /\ backend'.fails_in = 0
          /\ backend'.committed_tick = backend.committed_tick /\ backend'.failed = backend.failed
      BY <1>4, <1>s, <2>2, Zenon
    <3>2. BackendOk
      BY <2>1 DEF Core
    <3> QED BY <1>0, <3>1, <3>2 DEF BackendOk
  <2>4. TimeInv'
    BY <1>0, <2>1 DEF Core, TimeInv, EdgeRan, OnEdge
  <2>5. \A t \in DOMAIN boundaries : now' <= t
    BY <1>0, <2>1 DEF Core, BoundaryInv
  <2> QED BY <1>0, <2>1, <2>3, <2>4, <2>5, TickKeepsCore DEF Core
<1> QED BY <1>0, <1>9, <1>10 DEF Inv, AcceptedWorkNeverFails

\* A step that changes nothing keeps the invariant.
LEMMA StutterStep ==
  ASSUME Inv, UNCHANGED vars
  PROVE  Inv'
<1>0. UNCHANGED <<reservations, boundaries, active, readouts, last_tick, processed_tick, backend,
                  now, epoch, launched, next_id, stopped, fault, summary,
                  origin, accepted, sampled, delivered>>
  BY DEF vars, deviceVars, worldVars, historyVars
<1>1. LogInv' /\ AcceptedWorkNeverFails'
  BY <1>0 DEF Inv, LogInv, AcceptedWorkNeverFails
<1>2. ASSUME fault = "None" PROVE Core'
  <2>1. Core
    BY <1>2 DEF Inv
  <2>2. BackendOk'
    BY <1>0, <2>1 DEF Core, BackendOk
  <2>3. TimeInv'
    BY <1>0, <2>1 DEF Core, TimeInv, EdgeRan, OnEdge
  <2>4. \A t \in DOMAIN boundaries : now' <= t
    BY <1>0, <2>1 DEF Core, BoundaryInv
  <2> QED BY <1>0, <2>1, <2>2, <2>3, <2>4, TickKeepsCore DEF Core
<1> QED BY <1>0, <1>1, <1>2 DEF Inv

\* The inductive invariant of the control electronics holds in every reachable
\* state, for any number of cores, any set of valid batches and any failures of
\* the backend: accept, process and finalize of ControlElectronics keep the
\* boundaries, the active actions, the readouts and the log of the backend in
\* step with the actions that were accepted.
THEOREM DeviceInvariant == Spec => []Inv
<1>1. Inv /\ [Next]_vars => Inv'
  <2> SUFFICES ASSUME Inv, [Next]_vars PROVE Inv'
    OBVIOUS
  <2>1. ASSUME NEW core \in Cores, Launch(core) PROVE Inv'
    BY <2>1, LaunchStep
  <2>2. CASE Process
    BY <2>2, ProcessStep
  <2>3. CASE Finalize
    BY <2>3, FinalizeStep
  <2>4. CASE AdvanceTick
    BY <2>4, AdvanceStep
  <2>5. CASE ResetSession
    BY <2>5, ResetStep
  <2>6. CASE Summarize
    BY <2>6, SummarizeStep
  <2>7. CASE Stopped \/ UNCHANGED vars
    BY <2>7, StutterStep DEF Stopped
  <2> QED BY <2>1, <2>2, <2>3, <2>4, <2>5, <2>6, <2>7 DEF Next
<1> QED BY <1>1, InitInv, PTL DEF Spec

\* The reservation check at a launch foresees every collision: once accepted,
\* nothing fails but the backend itself or a two-qubit gate whose other half
\* never comes.
THEOREM WorkNeverFails == Spec => []AcceptedWorkNeverFails
<1>1. Inv => AcceptedWorkNeverFails
  BY DEF Inv
<1> QED BY <1>1, DeviceInvariant, PTL

\* The invariant implies that batching keeps the order.
LEMMA BatchingFromInv == Inv => BatchingKeepsOrder
<1> SUFFICES ASSUME Inv PROVE BatchingKeepsOrder
  OBVIOUS
<1>0. LogInv /\ Batched(backend)
  BY DEF Inv, LogInv
<1>1. Log = backend.committed
  BY <1>0, Zenon DEF Log, Batched
<1>2. /\ backend.failed # <<>> => backend.pending = <<>>
      /\ \A i \in 1..Len(backend.pending) : backend.pending[i].kind # "Measurement"
      /\ Len(backend.pending) < MaxBatch
  BY <1>0 DEF Batched
<1>3. DOMAIN sampled = MeasuredIn(backend.executed)
      /\ (stopped \/ (summary = "Written" /\ fault # "BackendFailure") => backend.executed = backend.committed)
  BY <1>0 DEF LogInv
<1> QED BY <1>1, <1>2, <1>3, Zenon DEF BatchingKeepsOrder, MeasuredIn

\* Batching keeps the order and the number of the operations, and a failed
\* batch is never tried again (flush in backend_execution.cpp).
THEOREM BatchingOrdered == Spec => []BatchingKeepsOrder
BY BatchingFromInv, DeviceInvariant, PTL

\* The invariant implies that the log has no gaps and the right drives.
LEMMA LogFromInv == Inv => EvolutionIsGapless /\ DrivesMatchPulses
<1> SUFFICES ASSUME Inv PROVE EvolutionIsGapless /\ DrivesMatchPulses
  OBVIOUS
<1> DEFINE log == backend.committed
           ev == EvolutionsOf(log)
<1>0. LogInv /\ Batched(backend) /\ LogOk(log, origin, accepted)
  BY DEF Inv, LogInv
<1>1. Log = log
  BY <1>0, Zenon DEF Log, Batched
<1>2. Evolutions = ev
  BY <1>1, Zenon DEF Evolutions
<1>3. /\ EvolutionsOk(log, origin, accepted) /\ InstantsOk(log, origin)
      /\ LastEvolved(log, origin) = LastTick(log, origin)
  BY <1>0 DEF LogOk
<1>4. fault # "BackendFailure" => last_tick = LastTick(log, origin)
  BY <1>0 DEF LogInv
<1>5. fault # "BackendFailure" => last_tick = IF ev = <<>> THEN origin ELSE ev[Len(ev)].tick
  BY <1>3, <1>4 DEF LastEvolved
<1>6. \A i \in 1..Len(ev) : /\ ev[i].start = IF i = 1 THEN origin ELSE ev[i - 1].tick
                            /\ DrivenBy(ev[i], accepted)
  BY <1>3 DEF EvolutionsOk
<1>7. \A i \in 1..Len(log) : log[i].kind # "Evolution" => log[i].tick = IF i = 1 THEN origin ELSE log[i - 1].tick
  BY <1>3 DEF InstantsOk
<1> HIDE DEF log, ev
<1>8. EvolutionIsGapless
  BY <1>1, <1>2, <1>5, <1>6, <1>7, Zenon DEF EvolutionIsGapless
<1>9. DrivesMatchPulses
  BY <1>2, <1>6, Zenon DEF DrivesMatchPulses, DrivenBy
<1> QED BY <1>8, <1>9

\* The evolutions of an epoch cover its time without gap or overlap, and gates
\* and measurements are applied at their ends (evolve_to of process and
\* finalize).
THEOREM GaplessEvolution == Spec => []EvolutionIsGapless
BY LogFromInv, DeviceInvariant, PTL

\* Each evolution is computed with exactly the accepted pulses that span it.
THEOREM DrivenEvolution == Spec => []DrivesMatchPulses
BY LogFromInv, DeviceInvariant, PTL

\* Accepted actions that are active together are compatible.
LEMMA CompatibleFromCore == Core => ActiveActionsCompatible
<1> SUFFICES ASSUME Core, NEW a \in active, NEW b \in active, a # b
             PROVE  /\ a.port # b.port
                    /\ ~SameGate(a, b) => ~Contended(a, b) /\ ~Incompatible(a, b)
  BY DEF ActiveActionsCompatible
<1>1. /\ a \in accepted /\ b \in accepted
      /\ Closed(a.start) /\ ~Closed(a.end) /\ Closed(b.start) /\ ~Closed(b.end)
  BY DEF Core, ActiveInv
<1>2. /\ a.start \in Nat /\ a.end \in Nat /\ b.start \in Nat /\ b.end \in Nat
  BY <1>1, ActionTicks
<1>3. PICK p \in Nat : processed_tick = <<p>>
  BY <1>1 DEF Core, TimeInv, Closed
<1>4. a.start <= p /\ ~(a.end <= p) /\ b.start <= p /\ ~(b.end <= p)
  BY <1>1, <1>3 DEF Closed
<1>5. Overlap(a, b)
  BY <1>2, <1>4 DEF Overlap
<1>6. PairFault(a, b) = "None"
  BY <1>1 DEF Core, ActionInv
<1> QED BY <1>5, <1>6 DEF PairFault

\* A step that ends in a fault starts nothing.
LEMMA ActiveShrinks ==
  ASSUME Inv, Next, fault' # "None"
  PROVE  active' \subseteq active
<1>1. ASSUME NEW core \in Cores, Launch(core) PROVE active' \subseteq active
  BY <1>1 DEF Launch
<1>2. CASE Process
  <2>1. PICK b \in {boundaries[now]} :
          \E outcome \in [{Samples(b)[i].measurement : i \in 1..Len(Samples(b))} -> BOOLEAN],
             n \in Failures \cup {0} :
            IF ProcessFault(b, outcome) # "None"
              THEN /\ fault' = ProcessFault(b, outcome)
                   /\ UNCHANGED <<deviceVars, sampled, delivered>>
              ELSE /\ backend' = Prone(Applied(b, n), 0)
                   /\ fault' = backend'.fault
                   /\ CASE Measured(b, n).fault # "None" -> AbandonBoundary
                        [] Measured(b, n).fault = "None" /\ fault' # "None" ->
                             AbandonGates(b, outcome)
                        [] OTHER -> FinishBoundary(b, outcome)
    BY <1>2 DEF Process
  <2>2. PICK outcome \in [{Samples(b)[i].measurement : i \in 1..Len(Samples(b))} -> BOOLEAN],
             n \in Failures \cup {0} :
            \/ UNCHANGED <<deviceVars, sampled, delivered>>
            \/ AbandonBoundary
            \/ AbandonGates(b, outcome)
    BY <2>1
  <2> QED BY <2>2 DEF deviceVars, AbandonBoundary, AbandonGates
<1>3. CASE Finalize
  BY <1>3 DEF Finalize
<1>4. CASE AdvanceTick
  BY <1>4 DEF AdvanceTick, deviceVars
<1>5. CASE ResetSession
  BY <1>5 DEF ResetSession
<1>6. CASE Summarize
  BY <1>6 DEF Summarize
<1>7. CASE Stopped
  BY <1>7 DEF Stopped, vars, deviceVars
<1> QED BY <1>1, <1>2, <1>3, <1>4, <1>5, <1>6, <1>7 DEF Next

\* Actions that are active at the same time never contend for a port, a
\* resource or a target, also after a fault (resources.cpp).
THEOREM CompatibleWork == Spec => []ActiveActionsCompatible
<1>1. Init => ActiveActionsCompatible
  BY DEF Init, ActiveActionsCompatible
<1>2. ASSUME Inv, Inv', ActiveActionsCompatible, [Next]_vars PROVE ActiveActionsCompatible'
  <2>1. CASE fault' = "None"
    <3>1. Core'
      BY <1>2, <2>1 DEF Inv
    <3> QED BY <3>1, CompatibleFromCore, PTL
  <2>2. CASE fault' # "None" /\ Next
    <3>1. active' \subseteq active
      BY <1>2, <2>2, ActiveShrinks
    <3> QED BY <1>2, <3>1 DEF ActiveActionsCompatible, SameGate, Contended, Incompatible, CommonTarget, IsArm
  <2>3. CASE UNCHANGED vars
    BY <1>2, <2>3 DEF vars, deviceVars, ActiveActionsCompatible
  <2> QED BY <1>2, <2>1, <2>2, <2>3
<1> QED BY <1>1, <1>2, DeviceInvariant, PTL DEF Spec

\* The results that are due up to the last tick have been processed.
LEMMA DoneIs ==
  ASSUME Inv, fault = "None", NEW a \in Acquired
  PROVE  Closed(Due(a)) <=> Due(a) <= last_tick /\ processed_tick # <<>>
<1>0. Core /\ LogInv
  BY DEF Inv
<1>1. a \in accepted
  BY DEF Acquired, AcquiredIn
<1>2. Due(a) \in Nat
  BY <1>0, <1>1, ActionTicks
<1>3. /\ last_tick \in Nat
      /\ \/ processed_tick = <<>>
         \/ \E p \in 0..last_tick : processed_tick = <<p>> /\ (~stopped => p = last_tick)
  BY <1>0 DEF Core, TimeInv
<1>4. CASE ~stopped
  BY <1>2, <1>3, <1>4 DEF Closed
<1>5. CASE stopped
  <2>1. DOMAIN boundaries = {}
    BY <1>0, <1>5 DEF LogInv
  <2>2. Closed(Due(a))
    BY <1>0, <1>1, <2>1, OpenPending
  <2>3. processed_tick # <<>> /\ Due(a) <= processed_tick[1]
    BY <2>2 DEF Closed
  <2>4. PICK p \in 0..last_tick : processed_tick = <<p>>
    BY <1>3, <2>3
  <2> QED BY <1>2, <1>3, <2>2, <2>3, <2>4
<1> QED BY <1>4, <1>5

\* The invariant implies that results are delivered once.
LEMMA DeliveredFromInv == Inv => ResultsDeliveredOnce
<1> SUFFICES ASSUME Inv, fault = "None" PROVE ResultsDeliveredOnce
  BY Zenon DEF ResultsDeliveredOnce
<1>0. Core /\ DeliveryInv
  BY DEF Inv, Core
<1> DEFINE done == {a \in Acquired : Due(a) <= last_tick /\ processed_tick # <<>>}
<1>1. done = {a \in Acquired : Closed(Due(a))}
  BY DoneIs
<1>2. /\ delivered \in Seq({AnswerTo(a) : a \in done})
      /\ \A a \in done : \E i \in 1..Len(delivered) : delivered[i] = AnswerTo(a)
      /\ Len(delivered) = Cardinality(done)
  <2> HIDE DEF done
  <2> QED BY <1>0, <1>1 DEF DeliveryInv
<1>3. {delivered[i] : i \in 1..Len(delivered)} = {AnswerTo(a) : a \in done}
  <2> HIDE DEF done
  <2>1. \A i \in 1..Len(delivered) : delivered[i] \in {AnswerTo(a) : a \in done}
    BY <1>2
  <2> QED BY <1>2, <2>1
<1>4. Drained => done = Acquired
  <2> SUFFICES ASSUME Drained, NEW a \in Acquired PROVE a \in done
    OBVIOUS
  <2>1. Closed(Due(a))
    <3>1. a \in accepted /\ DOMAIN boundaries = {}
      BY DEF Acquired, AcquiredIn, Drained
    <3> QED BY <1>0, <3>1, OpenPending
  <2> HIDE DEF done
  <2> QED BY <1>1, <2>1
<1>5. /\ {delivered[i] : i \in 1..Len(delivered)} = {AnswerTo(a) : a \in done}
      /\ Len(delivered) = Cardinality(done)
      /\ Drained => done = Acquired
  BY <1>2, <1>3, <1>4
<1> QED BY <1>5, Zenon DEF ResultsDeliveredOnce, AnswerTo, Acquired, AcquiredIn, Due, DueOf, ArmOf, ArmStarts, MeasurementOf

\* Each accepted acquisition is answered once, to its own core, with its own
\* sample and at its due tick; a drained device owes no result.
THEOREM DeliveredOnce == Spec => []ResultsDeliveredOnce
BY DeliveredFromInv, DeviceInvariant, PTL

=============================================================================
