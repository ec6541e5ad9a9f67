----------------------------- MODULE TcuProofs -----------------------------
(***************************************************************************)
(* Proofs about the timing control unit in an arbitrary environment, for   *)
(* every value of the constants: its timer, its flags and registers, and   *)
(* that it implements the timeline.                                        *)
(***************************************************************************)
EXTENDS TcuOpen, SequenceTheorems, TLAPS

-----------------------------------------------------------------------------
(* Facts about the operators.                                              *)

\* A queue after k of its entries have left and n copies of x been added.
QueueAfter(q, k, n, x) ==
  (IF k = 1 THEN Tail(q) ELSE q) \o (IF n = 1 THEN <<x>> ELSE <<>>)

\* In r the entries of q that stay have moved up, and x comes last.
Shifted(S, q, k, n, x, r) ==
  /\ r \in Seq(S)
  /\ Len(r) = Len(q) - k + n
  /\ \A i \in 1..(Len(q) - k) : r[i] = q[i + k]
  /\ n = 1 => r[Len(q) - k + n] = x

LEMMA QueueShape ==
  ASSUME NEW S, NEW q \in Seq(S), NEW k \in {0, 1}, NEW n \in {0, 1}, NEW x,
         k = 1 => q # <<>>, n = 1 => x \in S
  PROVE  Shifted(S, q, k, n, x, QueueAfter(q, k, n, x))
<1> DEFINE r == QueueAfter(q, k, n, x)
           front == IF k = 1 THEN Tail(q) ELSE q
           back  == IF n = 1 THEN <<x>> ELSE <<>>
<1>1. /\ front \in Seq(S)
      /\ Len(front) = Len(q) - k
      /\ \A i \in 1..(Len(q) - k) : front[i] = q[i + k]
  <2>1. CASE k = 1
    BY <2>1, HeadTailProperties
  <2>2. CASE k = 0
    BY <2>2, LenProperties
  <2> QED BY <2>1, <2>2
<1>2. back \in Seq(S) /\ Len(back) = n /\ (n = 1 => back[1] = x)
  OBVIOUS
<1>3. Len(q) \in Nat /\ Len(front) \in Nat
  BY <1>1, LenProperties
<1>4. r = front \o back
  BY DEF QueueAfter
<1> HIDE DEF front, back, r
<1>5. /\ r \in Seq(S)
      /\ Len(r) = Len(front) + Len(back)
      /\ \A i \in 1..(Len(front) + Len(back)) :
           r[i] = IF i <= Len(front) THEN front[i] ELSE back[i - Len(front)]
  <2>1. front \in Seq(S) /\ back \in Seq(S)
    BY <1>1, <1>2
  <2>2. /\ front \o back \in Seq(S)
        /\ Len(front \o back) = Len(front) + Len(back)
        /\ \A i \in 1..(Len(front) + Len(back)) :
             (front \o back)[i] = IF i <= Len(front) THEN front[i] ELSE back[i - Len(front)]
    BY <2>1, ConcatProperties, Zenon
  <2> QED BY <2>2, <1>4, Zenon
<1>6. Len(front) = Len(q) - k /\ Len(back) = n /\ Len(r) = Len(q) - k + n
  BY <1>1, <1>2, <1>5
<1>7. ASSUME NEW i \in 1..(Len(q) - k) PROVE r[i] = q[i + k]
  <2>1. i \in 1..(Len(front) + Len(back)) /\ i <= Len(front)
    BY <1>6, <1>3
  <2> QED BY <2>1, <1>1, <1>5
<1>8. ASSUME n = 1 PROVE r[Len(q) - k + n] = x
  <2>1. /\ Len(q) - k + n \in 1..(Len(front) + Len(back))
        /\ ~(Len(q) - k + n <= Len(front))
        /\ Len(q) - k + n - Len(front) = 1
    BY <1>6, <1>8, <1>3
  <2> QED BY <2>1, <1>2, <1>5, <1>8
<1>9. Shifted(S, q, k, n, x, r)
  BY <1>5, <1>6, <1>7, <1>8 DEF Shifted
<1> QED BY <1>9 DEF r

\* The policy after a point is in force when the one before it is.
LEMMA PolicyInForce ==
  ASSUME NEW point \in TimingPoint, NEW p \in InForce
  PROVE  PolicyAfter(point, p) \in InForce
BY DEF PolicyAfter, TimingPoint, InForce, Policies

\* A sequence is empty exactly when its length is zero.
LEMMA EmptyByLength ==
  ASSUME NEW S, NEW q \in Seq(S)
  PROVE  /\ Len(q) \in Nat
         /\ q = <<>> <=> Len(q) = 0
         /\ q # <<>> => Head(q) = q[1] /\ q[1] \in S
BY EmptySeq, LenProperties, ElementOfSeq

-----------------------------------------------------------------------------
(* The steps of a TCU edge, reduced to what the invariant needs: how many  *)
(* points trigger (k), how many requests are admitted (n), and by how much *)
(* the paused time grows (h), each of them 0 or 1.                         *)

StepShape(k, n, h) ==
  /\ h = 1 => edge >= start
  /\ (/\ edge >= start /\ triggered_policy = "PauseWhenEmpty"
      /\ timing = <<>> /\ ~closed) => h = 1
  /\ k = 1 => /\ timing # <<>> /\ edge >= start /\ h = 0
              /\ Head(timing).due = Cycle(edge)
  /\ k = 0 => \/ timing = <<>> \/ edge < start \/ h = 1
              \/ Head(timing).due > Cycle(edge)
  /\ n = 1 => /\ request # <<>>
              /\ ~closed
              /\ request[1].point.label = last_label + 1
              /\ \/ edge < start + paused + DueOf(request[1])
                 \/ /\ edge = start + paused + DueOf(request[1])
                    /\ timing = <<>> /\ edge >= start /\ h = 1
  /\ timing' = QueueAfter(timing, k, n,
                          [point |-> request[1].point, due |-> DueOf(request[1])])
  /\ triggered_policy' = IF k = 1 THEN PolicyAfter(Head(timing).point, triggered_policy)
                         ELSE triggered_policy
  /\ admitted_policy' = IF n = 1 THEN PolicyAfter(request[1].point, admitted_policy)
                        ELSE admitted_policy
  /\ last_label' = last_label + n
  /\ last_due' = IF n = 1 THEN DueOf(request[1]) ELSE last_due
  /\ paused' = paused + h
  /\ start' = start
  /\ FiredLabels' = IF k = 1 THEN {Head(timing).point.label} ELSE {}

\* A queued point is never behind the timer, so the firing check holds.
LEMMA HeadNotMissed ==
  ASSUME TypeOK, QueueInv, timing # <<>>
  PROVE  Head(timing).due >= Cycle(edge)
<1>1. Len(timing) \in Nat /\ Len(timing) # 0 /\ Head(timing) = timing[1]
  BY EmptyByLength DEF TypeOK
<1> QED BY <1>1 DEF QueueInv

LEMMA CycleType ==
  ASSUME TypeOK, TimerInv
  PROVE  Cycle(edge) \in Nat
BY DEF TypeOK, TimerInv, Cycle

LEMMA HeadDueType ==
  ASSUME TypeOK, timing # <<>>
  PROVE  Head(timing) \in QueueEntry
BY EmptyByLength DEF TypeOK

\* Every edge that passes its checks has this shape.
LEMMA EdgeShape ==
  ASSUME TcuInv,
         NEW results, NEW refusal, NEW sync_paused \in BOOLEAN,
         Step(edge, epoch, request, results, refusal, sync_paused)
  PROVE  \E k, n, h \in {0, 1} : StepShape(k, n, h)
<1> DEFINE state == CurrentTimingState(edge, sync_paused)
           t == Triggers(state)
           a == request # <<>> /\ HasSpace(request[1])
           p == IsPaused(state)
<1>1. t \in BOOLEAN /\ a \in BOOLEAN /\ p \in BOOLEAN
  BY DEF Triggers, IsPaused, HasSpace, CurrentTimingState
<1>2. /\ p => edge >= start
      /\ (/\ edge >= start /\ triggered_policy = "PauseWhenEmpty"
          /\ timing = <<>> /\ ~closed) => p
  BY DEF IsPaused, CurrentTimingState
<1>3. StepFault(edge, epoch, request, results, refusal, sync_paused) = "None"
  BY DEF Step
<1>4. TriggerFault(epoch, state, refusal) = "None"
  BY <1>3 DEF StepFault
<1>5. t => /\ timing # <<>> /\ edge >= start /\ ~p
           /\ Head(timing).due = Cycle(edge)
  BY <1>4 DEF TriggerFault, Triggers, CurrentTimingState
<1>6. ~t => \/ timing = <<>> \/ edge < start \/ p
            \/ Head(timing).due > Cycle(edge)
  <2>1. timing # <<>> => Head(timing).due \in Int /\ Cycle(edge) \in Int
    BY HeadDueType, CycleType DEF TcuInv, QueueEntry
  <2>2. edge \in Int /\ start \in Int
    BY DEF TcuInv, TypeOK
  <2>3. state.running = (edge >= start) /\ state.cycle = Cycle(edge)
    BY DEF CurrentTimingState
  <2>4. ~t => \/ timing = <<>> \/ ~(edge >= start) \/ p
              \/ ~(Head(timing).due <= Cycle(edge))
    <3> HIDE DEF state
    <3> QED BY <2>3, Zenon DEF Triggers
  <2> HIDE DEF t, p
  <2> QED BY <2>1, <2>2, <2>4
<1>7. ASSUME request # <<>>
      PROVE  AdmissionFault(edge, epoch, request[1], state) = "None"
  BY <1>3, <1>4, <1>7 DEF StepFault
<1>8. a => /\ request # <<>>
           /\ ~closed
           /\ request[1].point.label = last_label + 1
           /\ MeetsDeadline(edge, DueOf(request[1]), state)
  BY <1>7 DEF AdmissionFault
<1>9. a => \/ edge < start + paused + DueOf(request[1])
           \/ /\ edge = start + paused + DueOf(request[1])
              /\ timing = <<>> /\ edge >= start /\ p
  BY <1>8 DEF MeetsDeadline, CurrentTimingState, IsPaused
<1>10. /\ timing' = TimingAfter(t, a, request[1])
       /\ triggered_policy' = IF t THEN PolicyAfter(Head(timing).point, triggered_policy)
                              ELSE triggered_policy
       /\ admitted_policy' = IF a THEN PolicyAfter(request[1].point, admitted_policy)
                             ELSE admitted_policy
       /\ last_label' = IF a THEN request[1].point.label ELSE last_label
       /\ last_due' = IF a THEN DueOf(request[1]) ELSE last_due
       /\ paused' = IF p THEN paused + 1 ELSE paused
       /\ start' = start
  BY DEF Step, PausedAfter
<1>11. output'.launch = IF t THEN <<[label |-> Head(timing).point.label, tick |-> edge,
                                     events |-> LaunchBatch]>> ELSE <<>>
  BY DEF Step, OutputOf
<1> HIDE DEF t, a, p
<1>12. FiredLabels' = IF t THEN {Head(timing).point.label} ELSE {}
  <2>1. CASE t
    <3>1. Len(output'.launch) = 1 /\ output'.launch[1].label = Head(timing).point.label
      BY <1>11, <2>1
    <3> QED BY <2>1, <3>1 DEF FiredLabels
  <2>2. CASE ~t
    <3>1. Len(output'.launch) = 0
      BY <1>11, <2>2
    <3> QED BY <2>2, <3>1 DEF FiredLabels
  <2> QED BY <2>1, <2>2
<1> DEFINE k == IF t THEN 1 ELSE 0
           n == IF a THEN 1 ELSE 0
           h == IF p THEN 1 ELSE 0
<1>13. /\ (t <=> k = 1) /\ (a <=> n = 1) /\ (p <=> h = 1)
       /\ k \in {0, 1} /\ n \in {0, 1} /\ h \in {0, 1}
  BY <1>1
<1>14. timing' = QueueAfter(timing, k, n,
                            [point |-> request[1].point, due |-> DueOf(request[1])])
  <2>1. (t <=> k = 1) /\ (a <=> n = 1)
    BY <1>13
  <2> HIDE DEF k, n
  <2> QED BY <2>1, <1>10, Zenon DEF TimingAfter, QueueAfter
<1>15. last_label' = last_label + n /\ paused' = paused + h
  BY <1>8, <1>10 DEF TcuInv, TypeOK
<1> HIDE DEF k, n, h
<1>16. StepShape(k, n, h)
  BY <1>2, <1>5, <1>6, <1>8, <1>9, <1>10, <1>13, <1>14, <1>15, <1>12 DEF StepShape
<1> QED BY <1>13, <1>16

-----------------------------------------------------------------------------
(* What a step of that shape does to each part of the invariant.           *)

\* A request is due after the last admitted point, unless it is the first.
LEMMA DueLater ==
  ASSUME TypeOK, request # <<>>
  PROVE  /\ DueOf(request[1]) \in Nat
         /\ last_label # 0 => DueOf(request[1]) > last_due
BY DEF TypeOK, DueOf, TimingPoint

\* The timer advances by one unless it is paused or has not started.
LEMMA TimerStep ==
  ASSUME TypeOK, TimerInv, NEW k \in {0, 1}, NEW n \in {0, 1}, NEW h \in {0, 1},
         StepShape(k, n, h), edge' = edge + 1
  PROVE  /\ TimerInv'
         /\ Cycle(edge)' = IF edge >= start /\ h = 0 THEN Cycle(edge) + 1 ELSE Cycle(edge)
         /\ Cycle(edge) \in Nat
         /\ n = 1 => DueOf(request[1]) >= Cycle(edge)'
<1>1. /\ h = 1 => edge >= start
      /\ paused' = paused + h
      /\ start' = start
  BY DEF StepShape
<1>2. edge \in Nat /\ start \in Nat /\ paused \in Nat
  BY DEF TypeOK
<1>3. TimerInv'
  BY <1>1, <1>2 DEF TimerInv
<1>4. Cycle(edge)' = IF edge >= start /\ h = 0 THEN Cycle(edge) + 1 ELSE Cycle(edge)
  BY <1>1, <1>2 DEF TimerInv, Cycle
<1>5. Cycle(edge) \in Nat
  BY CycleType
<1>6. ASSUME n = 1 PROVE DueOf(request[1]) >= Cycle(edge)'
  <2>1. request # <<>> /\ (\/ edge < start + paused + DueOf(request[1])
                           \/ /\ edge = start + paused + DueOf(request[1])
                              /\ edge >= start /\ h = 1)
    BY <1>6 DEF StepShape
  <2>2. DueOf(request[1]) \in Nat
    BY <2>1, DueLater
  <2> QED BY <2>1, <2>2, <1>2, <1>4 DEF Cycle
<1> QED BY <1>3, <1>4, <1>5, <1>6

\* The timing queue after a step: an admitted request becomes the last entry.
LEMMA TimingStep ==
  ASSUME TypeOK, NEW k \in {0, 1}, NEW n \in {0, 1}, NEW h \in {0, 1},
         StepShape(k, n, h)
  PROVE  /\ timing' \in Seq(QueueEntry)
         /\ Len(timing) \in Nat
         /\ Len(timing') = Len(timing) - k + n
         /\ \A i \in 1..(Len(timing) - k) : timing'[i] = timing[i + k]
         /\ n = 1 => timing'[Len(timing) - k + n] =
                       [point |-> request[1].point, due |-> DueOf(request[1])]
         /\ Len(timing) >= k
<1> DEFINE x == [point |-> request[1].point, due |-> DueOf(request[1])]
<1>1. timing \in Seq(QueueEntry)
  BY DEF TypeOK
<1>2. k = 1 => timing # <<>>
  BY DEF StepShape
<1>3. n = 1 => x \in QueueEntry
  BY DueLater DEF StepShape, TypeOK, QueueEntry
<1>4. timing' = QueueAfter(timing, k, n, x)
  BY DEF StepShape
<1>5. Len(timing) \in Nat /\ (timing # <<>> => Len(timing) >= 1)
  BY <1>1, EmptyByLength
<1> HIDE DEF x
<1>6. Shifted(QueueEntry, timing, k, n, x, timing')
  BY <1>1, <1>2, <1>3, <1>4, QueueShape, Zenon
<1>7. Len(timing) >= k
  BY <1>2, <1>5
<1> QED BY <1>5, <1>6, <1>7 DEF x, Shifted

\* Due cycles still increase along the queue and lie ahead of the timer.
LEMMA QueueStep ==
  ASSUME TypeOK, TimerInv, QueueInv,
         NEW k \in {0, 1}, NEW n \in {0, 1}, NEW h \in {0, 1},
         StepShape(k, n, h), edge' = edge + 1
  PROVE  QueueInv'
<1> DEFINE L == Len(timing)
           D == DueOf(request[1])
           c == Cycle(edge)
           d == Cycle(edge)'
<1>1. /\ L \in Nat /\ Len(timing') = L - k + n /\ L >= k
      /\ \A i \in 1..(L - k) : timing'[i] = timing[i + k]
      /\ n = 1 => /\ timing'[L - k + n].point = request[1].point
                  /\ timing'[L - k + n].due = D
  BY SMTT(30), TimingStep
<1>2. /\ last_label \in Nat /\ last_due \in Nat /\ last_label' = last_label + n
      /\ last_due' = IF n = 1 THEN D ELSE last_due
      /\ \A i \in 1..L : timing[i].due \in Nat
  <2>1. timing \in Seq(QueueEntry)
    BY DEF TypeOK
  <2>2. \A i \in 1..L : timing[i] \in QueueEntry
    BY <2>1, ElementOfSeq
  <2>3. \A i \in 1..L : timing[i].due \in Nat
    BY <2>2 DEF QueueEntry
  <2> QED BY <2>3 DEF TypeOK, StepShape
<1>3. n = 1 => /\ D \in Nat /\ (last_label # 0 => D > last_due)
               /\ request[1].point.label = last_label + 1
  BY DueLater DEF StepShape
<1>4. /\ d = IF edge >= start /\ h = 0 THEN c + 1 ELSE c
      /\ c \in Nat
      /\ n = 1 => D >= d
  BY TimerStep
<1>5. /\ L <= last_label
      /\ \A i \in 1..L : /\ timing[i].point.label = last_label - L + i
                         /\ timing[i].due >= c
                         /\ i = L => timing[i].due = last_due
                         /\ \A j \in 1..L : i < j => timing[i].due < timing[j].due
  BY DEF QueueInv
<1>6. \A i \in (1 + k)..L : timing[i].due >= d
  <2>1. L # 0 => Head(timing) = timing[1]
    BY EmptyByLength DEF TypeOK
  <2>2. k = 1 => L # 0 /\ timing[1].due = c
    BY <1>1, <2>1 DEF StepShape
  <2>3. k = 0 /\ L # 0 => \/ edge < start \/ h = 1 \/ timing[1].due > c
    BY <2>1, EmptyByLength DEF StepShape, TypeOK
  <2>4. \A i \in 1..L : i > 1 => timing[i].due > timing[1].due
    BY SMTT(30), <1>1, <1>5
  <2>5. edge \in Nat /\ start \in Nat
    BY DEF TypeOK
  <2> HIDE DEF c, d, L
  <2>6. ASSUME NEW i \in (1 + k)..L PROVE timing[i].due >= d
    <3>1. i \in 1..L /\ 1 \in 1..L /\ L # 0
      BY <1>1
    <3>2. timing[i].due \in Nat /\ timing[1].due \in Nat /\ timing[i].due >= c
      BY <3>1, <1>2, <1>5
    <3>3. CASE k = 1
      BY <3>1, <3>2, <3>3, <2>2, <2>4, <1>4
    <3>4. CASE k = 0
      BY <3>1, <3>2, <3>4, <2>3, <2>4, <2>5, <1>4
    <3> QED BY <3>3, <3>4
  <2> QED BY <2>6
<1> HIDE DEF L, D, c, d
<1>7. Len(timing') <= last_label'
  BY <1>1, <1>2, <1>5
<1>8. ASSUME NEW i \in 1..Len(timing')
      PROVE  /\ timing'[i].point.label = last_label' - Len(timing') + i
             /\ timing'[i].due >= d
             /\ i = Len(timing') => timing'[i].due = last_due'
             /\ \A j \in 1..Len(timing') : i < j => timing'[i].due < timing'[j].due
  <2>1. CASE i <= L - k
    <3>1. i \in 1..(L - k) /\ i + k \in 1..L /\ i + k \in (1 + k)..L /\ L # 0
      BY <2>1, <1>1
    <3>2. timing'[i] = timing[i + k] /\ timing[i + k].due \in Nat
      BY <3>1, <1>1, <1>2
    <3>3. timing'[i].point.label = last_label' - Len(timing') + i
      BY <3>1, <3>2, <1>1, <1>2, <1>5
    <3>4. timing'[i].due >= d
      BY <3>1, <3>2, <1>6
    <3>5. i = Len(timing') => timing'[i].due = last_due'
      <4>1. i = Len(timing') => n = 0 /\ i + k = L
        BY <2>1, <1>1
      <4> QED BY <4>1, <3>1, <3>2, <1>2, <1>5
    <3>6. ASSUME NEW j \in 1..Len(timing'), i < j PROVE timing'[i].due < timing'[j].due
      <4>1. CASE j <= L - k
        <5>1. j \in 1..(L - k) /\ j + k \in 1..L /\ i + k < j + k
          BY <4>1, <3>6, <1>1
        <5>2. timing'[j] = timing[j + k]
          BY <5>1, <1>1
        <5> QED BY <3>1, <3>2, <5>1, <5>2, <1>5
      <4>2. CASE ~(j <= L - k)
        <5>1. n = 1 /\ j = L - k + n
          BY <4>2, <1>1
        <5>2. timing'[j].due = D /\ D \in Nat /\ D > last_due
          BY <5>1, <3>1, <1>1, <1>2, <1>3, <1>5
        <5>3. L \in 1..L /\ timing[L].due = last_due
          BY <3>1, <1>1, <1>5
        <5>4. timing[i + k].due <= last_due
          <6>1. i + k = L \/ i + k < L
            BY <3>1, <1>1
          <6>2. CASE i + k = L
            BY <6>2, <5>3, <1>2
          <6>3. CASE i + k < L
            <7>1. timing[i + k].due < timing[L].due
              BY <6>3, <5>3, <3>1, <1>5
            <7> QED BY SMTT(30), <7>1, <5>3, <3>2, <1>2
          <6> QED BY <6>1, <6>2, <6>3
        <5> QED BY <5>2, <5>4, <3>2, <1>2
      <4> QED BY <4>1, <4>2
    <3> QED BY <3>3, <3>4, <3>5, <3>6
  <2>2. CASE ~(i <= L - k)
    <3>1. n = 1 /\ i = L - k + n /\ i = Len(timing')
      BY <2>2, <1>1
    <3>2. timing'[i].point.label = last_label + 1 /\ timing'[i].due = D
      BY <3>1, <1>1, <1>3
    <3>3. timing'[i].point.label = last_label' - Len(timing') + i
      BY <3>1, <3>2, <1>1, <1>2
    <3>4. timing'[i].due >= d /\ timing'[i].due = last_due'
      BY <3>1, <3>2, <1>2, <1>4
    <3>5. \A j \in 1..Len(timing') : ~(i < j)
      BY <3>1, <1>1
    <3> QED BY <3>3, <3>4, <3>5
  <2> QED BY <2>1, <2>2
<1> QED BY <1>7, <1>8 DEF QueueInv, d

\* The policies of the queue still lead to the admitted one.
LEMMA PolicyStep ==
  ASSUME TypeOK, PolicyInv,
         NEW k \in {0, 1}, NEW n \in {0, 1}, NEW h \in {0, 1},
         StepShape(k, n, h)
  PROVE  PolicyInv' /\ triggered_policy' \in InForce /\ admitted_policy' \in InForce
<1> DEFINE L == Len(timing)
<1>1. /\ L \in Nat /\ Len(timing') = L - k + n /\ L >= k
      /\ \A i \in 1..(L - k) : timing'[i] = timing[i + k]
      /\ n = 1 => timing'[L - k + n].point = request[1].point
  BY TimingStep
<1>2. /\ triggered_policy \in InForce /\ admitted_policy \in InForce
      /\ k = 1 => timing # <<>> /\ Head(timing) = timing[1] /\ timing[1].point \in TimingPoint
      /\ n = 1 => request[1].point \in TimingPoint
  BY EmptyByLength DEF TypeOK, StepShape, QueueEntry
<1>3. /\ triggered_policy' = IF k = 1 THEN PolicyAfter(timing[1].point, triggered_policy)
                             ELSE triggered_policy
      /\ admitted_policy' = IF n = 1 THEN PolicyAfter(request[1].point, admitted_policy)
                            ELSE admitted_policy
  BY <1>2 DEF StepShape
<1>4. triggered_policy' \in InForce /\ admitted_policy' \in InForce
  BY <1>2, <1>3, PolicyInForce
<1>5. last_label' = 0 => admitted_policy' = "Strict"
  <2>1. last_label \in Nat /\ last_label' = last_label + n
    BY DEF TypeOK, StepShape
  <2>2. last_label' = 0 => last_label = 0 /\ n = 0
    BY <2>1
  <2> QED BY <2>2, <1>3 DEF PolicyInv
<1>6. PICK pol \in [0..L -> InForce] :
        /\ pol[0] = triggered_policy
        /\ pol[L] = admitted_policy
        /\ \A i \in 1..L : pol[i] = PolicyAfter(timing[i].point, pol[i - 1])
  BY DEF PolicyInv
<1> HIDE DEF L
<1> DEFINE M == L - k + n
           new == [i \in 0..M |-> IF i <= L - k THEN pol[i + k] ELSE admitted_policy']
<1>7. M \in Nat /\ new \in [0..M -> InForce]
  BY <1>1, <1>4, <1>6
<1>8. new[0] = triggered_policy'
  <2>1. new[0] = pol[k]
    BY <1>1
  <2>2. CASE k = 0
    BY <2>1, <2>2, <1>3, <1>6
  <2>3. CASE k = 1
    <3>1. 1 \in 1..L /\ 1 - 1 = 0
      BY <2>3, <1>1
    <3>2. pol[1] = PolicyAfter(timing[1].point, pol[1 - 1])
      BY <3>1, <1>6
    <3> HIDE DEF new
    <3> QED BY <2>1, <2>3, <3>1, <3>2, <1>3, <1>6
  <2> QED BY <2>2, <2>3
<1>9. new[M] = admitted_policy'
  <2>1. CASE n = 0
    <3>1. new[M] = pol[L]
      BY <2>1, <1>1
    <3> QED BY <2>1, <3>1, <1>3, <1>6
  <2>2. CASE n = 1
    BY <2>2, <1>1
  <2> QED BY <2>1, <2>2
<1>10. ASSUME NEW i \in 1..M PROVE new[i] = PolicyAfter(timing'[i].point, new[i - 1])
  <2>1. CASE i <= L - k
    <3>1. /\ i \in 1..(L - k) /\ i + k \in 1..L /\ i - 1 \in 0..M
          /\ i - 1 <= L - k /\ (i - 1) + k = (i + k) - 1
      BY <2>1, <1>1
    <3>2. new[i] = pol[i + k] /\ new[i - 1] = pol[(i - 1) + k]
      BY <2>1, <3>1
    <3>3. timing'[i] = timing[i + k]
      BY <3>1, <1>1
    <3>4. pol[i + k] = PolicyAfter(timing[i + k].point, pol[(i + k) - 1])
      BY <3>1, <1>6
    <3> HIDE DEF new
    <3> QED BY <3>1, <3>2, <3>3, <3>4
  <2>2. CASE ~(i <= L - k)
    <3>1. n = 1 /\ i = L - k + n /\ i - 1 = L - k /\ i - 1 \in 0..M
      BY <2>2, <1>1
    <3>2. new[i] = admitted_policy' /\ new[i - 1] = pol[(L - k) + k]
      BY <2>2, <3>1
    <3>3. (L - k) + k = L
      BY <1>1
    <3> HIDE DEF new
    <3> QED BY <3>1, <3>2, <3>3, <1>1, <1>3, <1>6
  <2> QED BY <2>1, <2>2
<1>11. Len(timing') = M
  BY <1>1
<1> HIDE DEF new, M
<1>12. \E x \in [0..Len(timing') -> InForce] :
         /\ x[0] = triggered_policy'
         /\ x[Len(timing')] = admitted_policy'
         /\ \A i \in 1..Len(timing') : x[i] = PolicyAfter(timing'[i].point, x[i - 1])
  BY <1>7, <1>8, <1>9, <1>10, <1>11
<1>13. PolicyInv'
  BY <1>5, <1>12 DEF PolicyInv, PolicyAfter
<1> QED BY <1>4, <1>13

\* When the queue is empty one policy is in force on both sides.
LEMMA OnePolicyWhenEmpty ==
  ASSUME TypeOK, PolicyInv, timing = <<>>
  PROVE  triggered_policy = admitted_policy
<1>1. Len(timing) = 0
  BY EmptyByLength DEF TypeOK
<1> QED BY <1>1 DEF PolicyInv

\* When the last queued point triggers, the timer stands just after it, and
\* an empty queue under the pausing policy keeps it there.
LEMMA EmptyStep ==
  ASSUME TypeOK, TimerInv, QueueInv, PolicyInv, EmptyInv,
         NEW k \in {0, 1}, NEW n \in {0, 1}, NEW h \in {0, 1},
         StepShape(k, n, h), edge' = edge + 1, closed' = closed
  PROVE  EmptyInv'
<1> SUFFICES ASSUME timing' = <<>>, last_label' # 0
             PROVE  /\ edge' >= start'
                    /\ Cycle(edge)' > last_due'
                    /\ (admitted_policy' = "PauseWhenEmpty" /\ ~closed') =>
                         Cycle(edge)' = last_due' + 1
  BY DEF EmptyInv
<1>1. /\ Len(timing) \in Nat /\ Len(timing') = Len(timing) - k + n /\ Len(timing) >= k
      /\ timing' \in Seq(QueueEntry)
  BY TimingStep
<1>2. Len(timing') = 0
  BY <1>1, EmptyByLength
<1>3. n = 0 /\ Len(timing) = k
  BY <1>1, <1>2
<1>4. /\ last_label' = last_label /\ last_due' = last_due /\ start' = start
      /\ admitted_policy' = admitted_policy
      /\ last_label \in Nat /\ last_due \in Nat /\ edge \in Nat /\ start \in Nat
  BY <1>3 DEF StepShape, TypeOK
<1>5. /\ Cycle(edge)' = IF edge >= start /\ h = 0 THEN Cycle(edge) + 1 ELSE Cycle(edge)
      /\ Cycle(edge) \in Nat
  BY TimerStep
<1>6. CASE k = 0
  <2>1. timing = <<>>
    BY <1>3, <1>6, EmptyByLength DEF TypeOK
  <2>2. /\ edge >= start /\ Cycle(edge) > last_due
        /\ (admitted_policy = "PauseWhenEmpty" /\ ~closed) => Cycle(edge) = last_due + 1
    BY <2>1, <1>4 DEF EmptyInv
  <2>3. (admitted_policy = "PauseWhenEmpty" /\ ~closed) => h = 1
    BY <2>1, <2>2, OnePolicyWhenEmpty DEF StepShape
  <2> QED BY <2>2, <2>3, <1>4, <1>5
<1>7. CASE k = 1
  <2>1. edge >= start /\ h = 0 /\ Head(timing).due = Cycle(edge)
    BY <1>7 DEF StepShape
  <2>2. Head(timing) = timing[1]
    BY <1>3, <1>7, EmptyByLength DEF TypeOK
  <2>3. timing[1].due = last_due
    BY <1>3, <1>7 DEF QueueInv
  <2> QED BY <2>1, <2>2, <2>3, <1>4, <1>5
<1> QED BY <1>6, <1>7

\* With the pausing policy admitted, the next request always meets its
\* deadline.
LEMMA PausingMeetsDeadline ==
  ASSUME TypeOK, TimerInv, QueueInv, PolicyInv, EmptyInv,
         request # <<>>, ~closed, admitted_policy = "PauseWhenEmpty",
         NEW sync_paused \in BOOLEAN
  PROVE  MeetsDeadline(edge, DueOf(request[1]), CurrentTimingState(edge, sync_paused))
<1>1. last_label # 0
  BY DEF PolicyInv
<1>2. /\ edge \in Nat /\ start \in Nat /\ paused \in Nat /\ last_due \in Nat
      /\ DueOf(request[1]) \in Nat /\ DueOf(request[1]) > last_due
  BY <1>1, DueLater DEF TypeOK
<1>3. CASE timing # <<>>
  <2>1. Len(timing) \in Nat /\ Len(timing) # 0
    BY <1>3, EmptyByLength DEF TypeOK
  <2>2. last_due >= Cycle(edge)
    <3>1. Len(timing) \in 1..Len(timing)
      BY <2>1
    <3> QED BY <3>1 DEF QueueInv
  <2>3. edge < start + paused + DueOf(request[1])
    BY <2>2, <1>2 DEF Cycle
  <2> QED BY <2>3 DEF MeetsDeadline
<1>4. CASE timing = <<>>
  <2>1. edge >= start /\ Cycle(edge) = last_due + 1
    BY <1>1, <1>4 DEF EmptyInv
  <2>2. edge <= start + paused + DueOf(request[1])
    BY <2>1, <1>2 DEF Cycle
  <2>3. CurrentTimingState(edge, sync_paused).instruction_supply
    BY <2>1, <1>4, OnePolicyWhenEmpty DEF CurrentTimingState
  <2> QED BY <2>2, <2>3, <1>2 DEF MeetsDeadline
<1> QED BY <1>3, <1>4

\* What a refused edge can never report.
LEMMA RefusedEdge ==
  ASSUME TcuInv, NEW results, NEW refusal \in {"None", "Preflight"},
         NEW sync_paused \in BOOLEAN, NEW reason,
         reason = StepFault(edge, epoch, request, results, refusal, sync_paused)
  PROVE  /\ reason # "MissedFiringEdge"
         /\ reason = "LateAdmission" => admitted_policy # "PauseWhenEmpty"
<1> DEFINE state == CurrentTimingState(edge, sync_paused)
           trigger == TriggerFault(epoch, state, refusal)
<1>1. trigger \in {"None", "ManifestMismatch", "Preflight"}
  <2>1. ASSUME Triggers(state) PROVE Head(timing).due = state.cycle
    <3>1. /\ timing # <<>> /\ Head(timing).due <= Cycle(edge)
          /\ state.cycle = Cycle(edge)
      BY <2>1 DEF Triggers, CurrentTimingState
    <3>2. /\ Head(timing).due >= Cycle(edge)
          /\ Head(timing).due \in Nat /\ Cycle(edge) \in Nat
      BY <3>1, HeadNotMissed, HeadDueType, CycleType DEF TcuInv, QueueEntry
    <3> HIDE DEF state
    <3> QED BY <3>1, <3>2
  <2> HIDE DEF state
  <2> QED BY <2>1 DEF TriggerFault
<1>2. ASSUME request # <<>>,
             AdmissionFault(edge, epoch, request[1], state) = "LateAdmission"
      PROVE  admitted_policy # "PauseWhenEmpty"
  <2>1. ~closed /\ ~MeetsDeadline(edge, DueOf(request[1]), state)
    BY <1>2 DEF AdmissionFault
  <2> QED BY <1>2, <2>1, PausingMeetsDeadline DEF TcuInv
<1>3. ASSUME request # <<>>
      PROVE  AdmissionFault(edge, epoch, request[1], state) # "MissedFiringEdge"
  BY DEF AdmissionFault
<1> HIDE DEF state, trigger
<1>4. reason \in {trigger, "FastResultOrder", "None"}
        \/ /\ request # <<>>
           /\ reason = AdmissionFault(edge, epoch, request[1], state)
  BY DEF StepFault, state, trigger
<1> QED BY <1>1, <1>2, <1>3, <1>4

-----------------------------------------------------------------------------
(* The invariant, one lemma per action.                                    *)

\* The requests the control side builds are well typed.
LEMMA RequestTyped ==
  ASSUME TypeOK, NEW interval \in 0..MaxInterval, NEW list \in EventChoices,
         NEW syncs \in SyncChoices, NEW policy \in PolicyChoices(interval)
  PROVE  RequestOf(interval, policy, list, syncs).point \in TimingPoint
<1>1. interval \in Nat /\ syncs \in Seq(Nat) /\ epoch \in Nat /\ last_label + 1 \in Nat
  BY OpenAssumption DEF TypeOK
<1>2. policy \in Policies
  BY DEF PolicyChoices, Policies
<1>3. Len(list) \in Nat
  BY OpenAssumption, LenProperties
<1> DEFINE manifest == [i \in 1..Len(list) |-> (last_label + 1) * StagingCapacity + i]
<1>4. manifest \in Seq(Nat)
  <2>1. (last_label + 1) * StagingCapacity \in Nat
    BY <1>1, ProtocolAssumption
  <2>2. \A i \in 1..Len(list) : (last_label + 1) * StagingCapacity + i \in Nat
    BY <2>1, <1>3
  <2> QED BY <2>2, <1>3, SeqDef
<1> HIDE DEF manifest
<1>5. RequestOf(interval, policy, list, syncs).point =
        [epoch |-> epoch, label |-> last_label + 1, interval |-> interval,
         underflow_policy |-> policy, synchronizations |-> syncs, manifest |-> manifest]
  BY DEF RequestOf, manifest
<1> QED BY <1>1, <1>2, <1>4, <1>5 DEF TimingPoint

LEMMA SubmitKeeps ==
  ASSUME TcuInv, Submit
  PROVE  TcuInv'
<1> USE DEF TcuInv
<1>1. /\ UNCHANGED <<timing, start, paused, last_label, last_due, closed, admitted_policy,
                     triggered_policy, fault, edge, epoch>>
  BY DEF Submit, tcuVars, queueVars, policyVars
<1>2. request' # <<>> => Len(request') = 1 /\ request'[1].point \in TimingPoint
  <2>1. PICK interval \in 0..MaxInterval, list \in EventChoices, syncs \in SyncChoices :
          \E policy \in PolicyChoices(interval) :
            request' = <<RequestOf(interval, policy, list, syncs)>>
    BY DEF Submit
  <2>2. PICK policy \in PolicyChoices(interval) :
          request' = <<RequestOf(interval, policy, list, syncs)>>
    BY <2>1
  <2>3. RequestOf(interval, policy, list, syncs).point \in TimingPoint
    BY RequestTyped
  <2> QED BY <2>2, <2>3
<1>3. TypeOK'
  BY <1>1, <1>2 DEF TypeOK
<1>4. Cycle(edge)' = Cycle(edge)
  BY <1>1 DEF Cycle
<1>5. TimerInv' /\ QueueInv' /\ EmptyInv'
  BY <1>1, <1>4 DEF TimerInv, QueueInv, EmptyInv
<1>6. PolicyInv'
  BY <1>1 DEF PolicyInv, PolicyAfter
<1> QED BY <1>1, <1>3, <1>5, <1>6 DEF WaitZeroNeverLate

LEMMA EdgeKeeps ==
  ASSUME TcuInv, Edge
  PROVE  TcuInv'
<1>1. PICK results \in ResultChoices, refusal \in {"None", "Preflight"}, sync_paused \in BOOLEAN :
        \/ /\ Step(edge, epoch, request, results, refusal, sync_paused)
           /\ edge' = edge + 1
           /\ request' = IF output'.admitted THEN <<>> ELSE request
           /\ UNCHANGED <<closed, fault, epoch>>
        \/ /\ Refuse(StepFault(edge, epoch, request, results, refusal, sync_paused))
           /\ UNCHANGED envVars
  BY DEF Edge
<1>2. fault = "None"
  BY DEF Edge
<1>3. CASE /\ Step(edge, epoch, request, results, refusal, sync_paused)
           /\ edge' = edge + 1
           /\ request' = IF output'.admitted THEN <<>> ELSE request
           /\ UNCHANGED <<closed, fault, epoch>>
  <2>1. PICK k \in {0, 1}, n \in {0, 1}, h \in {0, 1} : StepShape(k, n, h)
    BY <1>3, EdgeShape
  <2>2. TimerInv'
    BY <1>3, <2>1, TimerStep DEF TcuInv
  <2>3. QueueInv'
    BY <1>3, <2>1, QueueStep DEF TcuInv
  <2>4. PolicyInv' /\ triggered_policy' \in InForce /\ admitted_policy' \in InForce
    BY <1>3, <2>1, PolicyStep DEF TcuInv
  <2>5. EmptyInv'
    BY <1>3, <2>1, EmptyStep DEF TcuInv
  <2>6. TypeOK'
    <3>1. timing' \in Seq(QueueEntry)
      BY <2>1, TimingStep DEF TcuInv
    <3>2. /\ start' \in Nat /\ paused' \in Nat /\ last_label' \in Nat
          /\ edge' \in Nat /\ epoch' \in Nat /\ closed' \in BOOLEAN
      BY <1>3, <2>1 DEF StepShape, TcuInv, TypeOK
    <3>3. last_due' \in Nat
      BY <2>1, DueLater DEF StepShape, TcuInv, TypeOK
    <3>4. request' # <<>> => Len(request') = 1 /\ request'[1].point \in TimingPoint
      <4>1. request' = <<>> \/ request' = request
        BY <1>3
      <4> QED BY <4>1 DEF TcuInv, TypeOK
    <3> QED BY <3>1, <3>2, <3>3, <3>4, <2>4 DEF TypeOK
  <2>7. fault' # "MissedFiringEdge" /\ WaitZeroNeverLate'
    BY <1>2, <1>3 DEF WaitZeroNeverLate
  <2> QED BY <2>2, <2>3, <2>4, <2>5, <2>6, <2>7 DEF TcuInv
<1>4. CASE /\ Refuse(StepFault(edge, epoch, request, results, refusal, sync_paused))
           /\ UNCHANGED envVars
  <2>1. /\ UNCHANGED <<timing, start, paused, last_label, last_due, closed, admitted_policy,
                       triggered_policy, edge, epoch, request>>
        /\ fault' = StepFault(edge, epoch, request, results, refusal, sync_paused)
    BY <1>4 DEF Refuse, queueVars, policyVars, envVars
  <2>2. fault' # "MissedFiringEdge" /\ WaitZeroNeverLate'
    BY <2>1, RefusedEdge DEF WaitZeroNeverLate
  <2>3. TypeOK'
    BY <2>1 DEF TcuInv, TypeOK
  <2>4. Cycle(edge)' = Cycle(edge)
    BY <2>1 DEF Cycle
  <2>5. TimerInv' /\ QueueInv' /\ EmptyInv'
    BY <2>1, <2>4 DEF TcuInv, TimerInv, QueueInv, EmptyInv
  <2>6. PolicyInv'
    BY <2>1 DEF TcuInv, PolicyInv, PolicyAfter
  <2> QED BY <2>2, <2>3, <2>5, <2>6 DEF TcuInv
<1> QED BY <1>1, <1>3, <1>4

LEMMA EndKeeps ==
  ASSUME TcuInv, EndOfStream
  PROVE  TcuInv'
<1>1. /\ UNCHANGED <<timing, start, paused, last_label, last_due, admitted_policy,
                     triggered_policy, fault, edge, epoch, request>>
      /\ closed' = TRUE
  BY DEF EndOfStream, queueVars, policyVars, envVars
<1>2. TypeOK'
  BY <1>1 DEF TcuInv, TypeOK
<1>3. Cycle(edge)' = Cycle(edge)
  BY <1>1 DEF Cycle
<1>4. TimerInv' /\ QueueInv' /\ EmptyInv'
  BY <1>1, <1>3 DEF TcuInv, TimerInv, QueueInv, EmptyInv
<1>5. PolicyInv'
  BY <1>1 DEF TcuInv, PolicyInv, PolicyAfter
<1> QED BY <1>1, <1>2, <1>4, <1>5 DEF TcuInv, WaitZeroNeverLate

\* An empty queue with no admitted point satisfies the invariant.
LEMMA FreshInv ==
  ASSUME timing = <<>>, start \in Nat, paused = 0, last_label = 0, last_due = 0,
         closed = FALSE, admitted_policy = "Strict", triggered_policy = "Strict",
         edge \in Nat, epoch \in Nat, request = <<>>, fault = "None"
  PROVE  TcuInv
<1>1. TypeOK
  BY EmptySeq DEF TypeOK, InForce
<1>2. TimerInv
  BY DEF TimerInv
<1>3. Len(timing) = 0
  OBVIOUS
<1>4. QueueInv /\ EmptyInv
  BY <1>3 DEF QueueInv, EmptyInv
<1>5. PolicyInv
  <2> DEFINE pol == [i \in 0..0 |-> "Strict"]
  <2>1. pol \in [0..0 -> InForce] /\ pol[0] = "Strict"
    BY DEF InForce
  <2> HIDE DEF pol
  <2> QED BY <2>1, <1>3 DEF PolicyInv
<1> QED BY <1>1, <1>2, <1>4, <1>5 DEF TcuInv, WaitZeroNeverLate

LEMMA ResetKeeps ==
  ASSUME TcuInv, Reset
  PROVE  TcuInv'
<1>1. /\ timing' = <<>> /\ paused' = 0 /\ last_label' = 0 /\ last_due' = 0
      /\ closed' = FALSE /\ admitted_policy' = "Strict" /\ triggered_policy' = "Strict"
      /\ request' = <<>> /\ fault' = "None"
  BY DEF Reset, ResetTcu
<1>2. start' \in Nat /\ edge' \in Nat /\ epoch' \in Nat
  BY OpenAssumption DEF Reset, ResetTcu, TcuInv, TypeOK
<1>3. TypeOK'
  BY <1>1, <1>2, EmptySeq DEF TypeOK, InForce
<1>4. TimerInv'
  <2>1. CASE edge' >= start'
    <3>1. \A x, y \in Nat : x >= y => 0 <= x - y
      OBVIOUS
    <3>2. 0 <= edge' - start'
      BY <2>1, <1>2, <3>1
    <3> QED BY <1>1, <2>1, <3>2 DEF TimerInv
  <2>2. CASE ~(edge' >= start')
    BY <1>1, <2>2 DEF TimerInv
  <2> QED BY <2>1, <2>2
<1>5. Len(timing') = 0
  BY <1>1
<1>6. QueueInv' /\ EmptyInv'
  BY <1>1, <1>5 DEF QueueInv, EmptyInv
<1>7. PolicyInv'
  <2> DEFINE pol == [i \in 0..0 |-> "Strict"]
  <2>1. pol \in [0..0 -> InForce] /\ pol[0] = "Strict"
    BY DEF InForce
  <2> HIDE DEF pol
  <2> QED BY <2>1, <1>1, <1>5 DEF PolicyInv
<1> QED BY <1>1, <1>3, <1>4, <1>6, <1>7 DEF TcuInv, WaitZeroNeverLate

LEMMA StutterKeeps ==
  ASSUME TcuInv, UNCHANGED vars
  PROVE  TcuInv'
<1>1. /\ UNCHANGED <<timing, start, paused, last_label, last_due, closed, admitted_policy,
                     triggered_policy, fault, edge, epoch, request>>
  BY DEF vars, tcuVars, queueVars, policyVars, envVars
<1>2. Cycle(edge)' = Cycle(edge)
  BY <1>1 DEF Cycle
<1>3. TypeOK' /\ TimerInv' /\ QueueInv' /\ EmptyInv'
  BY <1>1, <1>2 DEF TcuInv, TypeOK, TimerInv, QueueInv, EmptyInv
<1>4. PolicyInv'
  BY <1>1 DEF TcuInv, PolicyInv, PolicyAfter
<1> QED BY <1>1, <1>3, <1>4 DEF TcuInv, WaitZeroNeverLate

-----------------------------------------------------------------------------
(* The theorems.                                                           *)

\* In every reachable state of the timing control unit the inductive invariant
\* holds: due cycles increase along the queue and lie ahead of the timer, the
\* queued policies lead to the admitted one, and a starved timer stands just
\* after the last point (TcuCycleModel::step, close and reset).
THEOREM TcuInvariant == Spec => []TcuInv
<1>1. ASSUME Init PROVE TcuInv
  <2>1. /\ timing = <<>> /\ start \in Nat /\ paused = 0 /\ last_label = 0 /\ last_due = 0
        /\ closed = FALSE /\ admitted_policy = "Strict" /\ triggered_policy = "Strict"
        /\ edge \in Nat /\ epoch \in Nat /\ request = <<>> /\ fault = "None"
    BY <1>1, OpenAssumption DEF Init, TcuInit
  <2> QED BY <2>1, FreshInv
<1>2. TcuInv /\ [Next]_vars => TcuInv'
  BY SubmitKeeps, EdgeKeeps, EndKeeps, ResetKeeps, StutterKeeps DEF Next
<1> QED BY <1>1, <1>2, PTL DEF Spec

\* The queue, the timer and the request always have their types; a policy in
\* force is never Inherit (policy_after).
THEOREM TypeCorrect == Spec => []TypeOK
<1>1. TcuInv => TypeOK
  BY DEF TcuInv
<1> QED BY <1>1, TcuInvariant, PTL

\* No queued point ever falls behind the timer: the missed-firing-edge check
\* of prepare_trigger never fails.
THEOREM NeverMissesFiringEdge == Spec => []FiringEdgeAhead
<1>1. TcuInv => FiringEdgeAhead
  BY HeadNotMissed DEF TcuInv, FiringEdgeAhead
<1> QED BY <1>1, TcuInvariant, PTL

\* Once the last admitted point asks the timer to pause when it runs dry,
\* meets_deadline accepts the next request whenever it arrives.
THEOREM PausedAdmissionIsNeverLate == Spec => []WaitZeroNeverLate
<1>1. TcuInv => WaitZeroNeverLate
  BY DEF TcuInv
<1> QED BY <1>1, TcuInvariant, PTL

\* A timer that stands still for want of instructions stands exactly one cycle
\* after the last admitted point, whatever other reasons paused it as well
\* (update_pause_state).
THEOREM StarvedTimerPosition == Spec => []StarvedTimerStandsAfterLastPoint
<1>1. TcuInv => StarvedTimerStandsAfterLastPoint
  <2> SUFFICES ASSUME TcuInv, CurrentTimingState(edge, FALSE).instruction_supply
               PROVE  /\ admitted_policy = "PauseWhenEmpty"
                      /\ Cycle(edge) = last_due + 1
    BY DEF StarvedTimerStandsAfterLastPoint
  <2>1. triggered_policy = "PauseWhenEmpty" /\ timing = <<>> /\ ~closed
    BY DEF CurrentTimingState
  <2>2. admitted_policy = "PauseWhenEmpty"
    BY <2>1, OnePolicyWhenEmpty DEF TcuInv
  <2>3. last_label # 0
    BY <2>2 DEF TcuInv, PolicyInv
  <2> QED BY <2>1, <2>2, <2>3 DEF TcuInv, EmptyInv
<1> QED BY <1>1, TcuInvariant, PTL

-----------------------------------------------------------------------------
(* The timing control unit implements the timeline.                        *)

\* The schedule entry of a queued point.
EntryOf(e) == [label |-> e.point.label, due |-> e.due]

\* Labels and due cycles of the queue, as the refinement uses them.
LEMMA QueueEntries ==
  ASSUME TypeOK, QueueInv
  PROVE  /\ Len(timing) \in Nat
         /\ \A i \in 1..Len(timing) : EntryOf(timing[i]) \in Line!PointRecord
         /\ \A i \in 1..Len(timing) : timing[i].point.label <= last_label
         /\ \A i \in 2..Len(timing) : timing[i].due > timing[1].due
         /\ Schedule = {EntryOf(timing[i]) : i \in 1..Len(timing)}
<1>1. Len(timing) \in Nat /\ last_label \in Nat
  BY EmptyByLength DEF TypeOK
<1>2. \A i \in 1..Len(timing) : timing[i] \in QueueEntry
  BY ElementOfSeq DEF TypeOK
<1>3. \A i \in 1..Len(timing) : EntryOf(timing[i]) \in Line!PointRecord
  BY <1>2 DEF EntryOf, Line!PointRecord, QueueEntry, TimingPoint
<1>4. \A i \in 1..Len(timing) : timing[i].point.label <= last_label
  BY <1>1 DEF QueueInv
<1>5. \A i \in 2..Len(timing) : timing[i].due > timing[1].due
  <2>1. ASSUME NEW i \in 2..Len(timing) PROVE timing[i].due > timing[1].due
    <3>1. 1 \in 1..Len(timing) /\ i \in 1..Len(timing) /\ 1 < i
      BY <1>1
    <3>2. timing[1].due < timing[i].due
      BY <3>1 DEF QueueInv
    <3>3. timing[1].due \in Nat /\ timing[i].due \in Nat
      BY <3>1, <1>2 DEF QueueEntry
    <3> QED BY <3>2, <3>3
  <2> QED BY <2>1
<1>6. Schedule = {EntryOf(timing[i]) : i \in 1..Len(timing)}
  BY DEF Schedule, EntryOf
<1> QED BY <1>1, <1>3, <1>4, <1>5, <1>6

\* The schedule after a step, in terms of the queue.
LEMMA ScheduleStep ==
  ASSUME TypeOK, QueueInv, NEW k \in {0, 1}, NEW n \in {0, 1}, NEW h \in {0, 1},
         StepShape(k, n, h)
  PROVE  LET p == [label |-> last_label + 1, due |-> DueOf(request[1])]
         IN  Schedule' = {EntryOf(timing[i]) : i \in (1 + k)..Len(timing)}
                           \cup (IF n = 1 THEN {p} ELSE {})
<1> DEFINE p == [label |-> last_label + 1, due |-> DueOf(request[1])]
           L == Len(timing)
           rest == {EntryOf(timing[i]) : i \in (1 + k)..L}
<1>1. /\ L \in Nat /\ Len(timing') = L - k + n /\ L >= k
      /\ \A i \in 1..(L - k) : timing'[i] = timing[i + k]
      /\ n = 1 => timing'[L - k + n] = [point |-> request[1].point, due |-> DueOf(request[1])]
  BY TimingStep
<1>2. n = 1 => EntryOf(timing'[L - k + n]) = p
  BY <1>1 DEF EntryOf, StepShape
<1>3. Schedule' = {EntryOf(timing'[i]) : i \in 1..(L - k + n)}
  BY <1>1 DEF Schedule, EntryOf
<1> HIDE DEF p, L
<1>4. ASSUME NEW e \in Schedule' PROVE e \in rest \/ (n = 1 /\ e = p)
  <2>1. PICK i \in 1..(L - k + n) : e = EntryOf(timing'[i])
    BY <1>3, <1>4
  <2>2. CASE i <= L - k
    <3>1. i \in 1..(L - k) /\ i + k \in (1 + k)..L
      BY <2>2, <1>1
    <3>2. e = EntryOf(timing[i + k])
      BY <3>1, <2>1, <1>1
    <3> QED BY <3>1, <3>2
  <2>3. CASE ~(i <= L - k)
    <3>1. n = 1 /\ i = L - k + n
      BY <2>3, <1>1
    <3> QED BY <3>1, <2>1, <1>2
  <2> QED BY <2>2, <2>3
<1>5. ASSUME NEW e \in rest PROVE e \in Schedule'
  <2>1. PICK j \in (1 + k)..L : e = EntryOf(timing[j])
    BY <1>5
  <2>2. j - k \in 1..(L - k) /\ j - k \in 1..(L - k + n) /\ (j - k) + k = j
    BY <1>1
  <2>3. timing'[j - k] = timing[j]
    BY <2>2, <1>1
  <2> QED BY <2>1, <2>2, <2>3, <1>3
<1>6. n = 1 => p \in Schedule'
  <2>1. n = 1 => L - k + n \in 1..(L - k + n)
    BY <1>1
  <2> QED BY <2>1, <1>2, <1>3
<1>7. Schedule' = rest \cup (IF n = 1 THEN {p} ELSE {})
  <2> HIDE DEF rest
  <2> QED BY <1>4, <1>5, <1>6
<1> QED BY <1>7 DEF p, L, rest

\* An edge that passes its checks advances the timeline or holds it.
LEMMA EdgeImplements ==
  ASSUME TypeOK, TimerInv, QueueInv,
         NEW k \in {0, 1}, NEW n \in {0, 1}, NEW h \in {0, 1},
         StepShape(k, n, h), edge' = edge + 1
  PROVE  Line!Advance \/ Line!Hold
<1> DEFINE L == Len(timing)
           c == Cycle(edge)
           D == DueOf(request[1])
           p == [label |-> last_label + 1, due |-> D]
           rest == {EntryOf(timing[i]) : i \in (1 + k)..L}
<1>1. /\ L \in Nat
      /\ \A i \in 1..L : EntryOf(timing[i]) \in Line!PointRecord
      /\ \A i \in 1..L : timing[i].point.label <= last_label
      /\ \A i \in 2..L : timing[i].due > timing[1].due
      /\ Schedule = {EntryOf(timing[i]) : i \in 1..L}
  BY QueueEntries
<1>2. Schedule' = rest \cup (IF n = 1 THEN {p} ELSE {})
  BY ScheduleStep
<1>3. /\ Cycle(edge)' = IF edge >= start /\ h = 0 THEN c + 1 ELSE c
      /\ c \in Nat
  BY TimerStep
<1>4. FiredLabels' = IF k = 1 THEN {Head(timing).point.label} ELSE {}
  BY DEF StepShape
<1>5. L # 0 => Head(timing) = timing[1]
  BY EmptyByLength DEF TypeOK
<1>6. k = 1 => L # 0 /\ edge >= start /\ h = 0 /\ timing[1].due = c
  BY <1>5, EmptyByLength DEF StepShape, TypeOK
<1>7. k = 0 /\ L # 0 => edge < start \/ h = 1 \/ timing[1].due > c
  BY <1>5, EmptyByLength DEF StepShape, TypeOK
<1>8. n = 1 => /\ D \in Nat /\ last_label \in Nat /\ D >= c
               /\ (edge >= start /\ h = 0) => D > c
               /\ p \in Line!PointRecord
  <2>1. ASSUME n = 1 PROVE D \in Nat
    BY <2>1, DueLater DEF StepShape
  <2>2. edge \in Nat /\ start \in Nat /\ paused \in Nat /\ last_label \in Nat
    BY DEF TypeOK
  <2>3. n = 1 => \/ edge < start + paused + D
                 \/ edge = start + paused + D /\ h = 1
    BY DEF StepShape
  <2>4. c = IF edge >= start THEN edge - start - paused ELSE 0
    BY DEF Cycle
  <2>5. n = 1 => p \in Line!PointRecord
    BY <2>1, <2>2 DEF Line!PointRecord
  <2> HIDE DEF D, c, p
  <2> QED BY <2>1, <2>2, <2>3, <2>4, <2>5
<1>9. n = 1 => p \notin Schedule
  <2> SUFFICES ASSUME n = 1, p \in Schedule PROVE FALSE
    OBVIOUS
  <2>1. PICK i \in 1..L : p = EntryOf(timing[i])
    BY <1>1
  <2>2. timing[i].point.label = last_label + 1
    BY <2>1 DEF EntryOf
  <2>3. last_label \in Nat /\ timing[i].point.label <= last_label
    BY <1>1 DEF TypeOK
  <2> QED BY <2>2, <2>3
<1>10. n = 1 => p \in Schedule' /\ p.due = D
  BY <1>2
<1>11. edge \in Nat /\ start \in Nat
  BY DEF TypeOK
<1>12. CASE edge >= start /\ h = 0
  <2>1. Line!DueNow = IF k = 1 THEN {EntryOf(timing[1])} ELSE {}
    <3>1. Line!DueNow = {e \in Schedule : e.due = c}
      BY DEF Line!DueNow
    <3>2. \A i \in 1..L : EntryOf(timing[i]).due = timing[i].due
      BY DEF EntryOf
    <3>3. \A i \in 1..L : timing[i].due \in Nat
      BY <1>1, <3>2 DEF Line!PointRecord
    <3>4. \A i \in 1..L : i # 1 => i \in 2..L
      BY <1>1
    <3>5. CASE k = 1
      <4>1. 1 \in 1..L /\ timing[1].due = c
        BY <3>5, <1>1, <1>6
      <4>2. \A i \in 1..L : timing[i].due = c => i = 1
        BY <4>1, <3>3, <3>4, <1>1
      <4> HIDE DEF c
      <4> QED BY <3>5, <4>1, <4>2, <3>1, <3>2, <1>1
    <3>6. CASE k = 0
      <4>1. L # 0 => timing[1].due > c /\ 1 \in 1..L
        BY <3>6, <1>1, <1>7, <1>11, <1>12
      <4>2. \A i \in 1..L : timing[i].due # c
        BY <4>1, <3>3, <3>4, <1>1, <1>3
      <4> HIDE DEF c
      <4> QED BY <3>6, <4>2, <3>1, <3>2, <1>1
    <3> QED BY <3>5, <3>6
  <2>2. rest = Schedule \ Line!DueNow
    <3>1. CASE k = 0
      BY <3>1, <2>1, <1>1
    <3>2. CASE k = 1
      <4>1. \A i \in 1..L : i \in (1 + k)..L <=> i # 1
        BY <3>2, <1>1
      <4>2. \A i \in (1 + k)..L : i \in 1..L /\ i \in 2..L
        BY <3>2, <1>1
      <4>3. 1 \in 1..L
        BY <3>2, <1>1, <1>6
      <4>4. \A i \in (1 + k)..L : EntryOf(timing[i]) # EntryOf(timing[1])
        <5>1. \A i \in 2..L : timing[i].due # timing[1].due
          <6>1. \A i \in 1..L : timing[i].due \in Nat
            BY <1>1 DEF EntryOf, Line!PointRecord
          <6> QED BY <6>1, <4>2, <4>3, <1>1, <3>2
        <5> QED BY <5>1, <4>2 DEF EntryOf
      <4> QED BY <3>2, <4>1, <4>2, <4>3, <4>4, <2>1, <1>1
    <3> QED BY <3>1, <3>2
  <2>3. FiredLabels' = {e.label : e \in Line!DueNow}
    <3>1. EntryOf(timing[1]).label = timing[1].point.label
      BY DEF EntryOf
    <3> QED BY <3>1, <2>1, <1>4, <1>5, <1>6
  <2>4. Cycle(edge)' = c + 1
    BY <1>3, <1>12
  <2>5. \/ Schedule' = Schedule \ Line!DueNow
        \/ \E e \in Schedule' : /\ e \in Line!PointRecord
                                /\ e.due > c
                                /\ e \notin Schedule
                                /\ Schedule' = (Schedule \ Line!DueNow) \cup {e}
    <3> HIDE DEF p, c, D, rest
    <3>1. CASE n = 0
      BY <3>1, <2>2, <1>2
    <3>2. CASE n = 1
      BY <3>2, <2>2, <1>2, <1>8, <1>9, <1>10, <1>12
    <3> QED BY <3>1, <3>2
  <2>6. Line!Advance
    BY <2>3, <2>4, <2>5 DEF Line!Advance
  <2> QED BY <2>6
<1>13. CASE ~(edge >= start /\ h = 0)
  <2>1. k = 0
    BY <1>6, <1>13
  <2>2. rest = Schedule
    BY <2>1, <1>1
  <2>3. FiredLabels' = {}
    BY <2>1, <1>4
  <2>4. Cycle(edge)' = c
    BY <1>3, <1>13
  <2>5. \/ Schedule' = Schedule
        \/ \E e \in Schedule' : /\ e \in Line!PointRecord
                                /\ e.due >= c
                                /\ e \notin Schedule
                                /\ Schedule' = Schedule \cup {e}
    <3> HIDE DEF p, c, D, rest
    <3>1. CASE n = 0
      BY <3>1, <2>2, <1>2
    <3>2. CASE n = 1
      BY <3>2, <2>2, <1>2, <1>8, <1>9, <1>10
    <3> QED BY <3>1, <3>2
  <2>6. Line!Hold
    BY <2>3, <2>4, <2>5 DEF Line!Hold
  <2> QED BY <2>6
<1> QED BY <1>12, <1>13

\* A step that leaves the timer, the queue and the output alone leaves the
\* timeline alone.
LEMMA QuietStep ==
  ASSUME UNCHANGED <<timing, start, paused, output, edge>>
  PROVE  UNCHANGED Line!lineVars
<1>1. Cycle(edge)' = Cycle(edge)
  BY DEF Cycle
<1>2. Schedule' = Schedule
  BY DEF Schedule
<1>3. FiredLabels' = FiredLabels
  BY DEF FiredLabels
<1> QED BY <1>1, <1>2, <1>3 DEF Line!lineVars

LEMMA ResetImplements ==
  ASSUME TypeOK, Reset
  PROVE  Line!Restart
<1>1. timing' = <<>> /\ paused' = 0 /\ start' = edge + StartDelay /\ output' = NoOutput
  BY DEF Reset, ResetTcu
<1>2. edge' \in {edge, edge + 1} /\ edge \in Nat /\ StartDelay \in Nat
  BY OpenAssumption DEF Reset, TypeOK
<1>3. Cycle(edge)' \in {0, 1}
  <2>1. Cycle(edge)' = IF edge' >= start' THEN edge' - start' - paused' ELSE 0
    BY DEF Cycle
  <2>2. \A e, s \in Nat : \A f \in {e, e + 1} :
          (IF f >= e + s THEN f - (e + s) - 0 ELSE 0) \in {0, 1}
    OBVIOUS
  <2> QED BY <2>1, <2>2, <1>1, <1>2, Zenon
<1>4. Len(timing') = 0 /\ Len(output'.launch) = 0
  BY <1>1 DEF NoOutput
<1>5. Schedule' = {} /\ FiredLabels' = {}
  BY <1>4 DEF Schedule, FiredLabels
<1> QED BY <1>3, <1>5 DEF Line!Restart

\* The timing control unit implements the timeline: the timer advances by one
\* or holds, and every admitted point fires in exactly its due cycle
\* (TcuCycleModel::step and reset).
THEOREM TcuImplementsTimeline == Spec => ImplementsTimeline
<1>1. ASSUME Init PROVE Line!LineInit
  <2>1. timing = <<>> /\ paused = 0 /\ edge = 0 /\ start = StartDelay /\ output = NoOutput
    BY <1>1 DEF Init, TcuInit
  <2>2. Cycle(edge) = 0
    BY <2>1, OpenAssumption DEF Cycle
  <2>3. Len(timing) = 0 /\ Len(output.launch) = 0
    BY <2>1 DEF NoOutput
  <2>4. Schedule = {} /\ FiredLabels = {}
    BY <2>3 DEF Schedule, FiredLabels
  <2> QED BY <2>2, <2>4 DEF Line!LineInit
<1>2. ASSUME TcuInv, [Next]_vars PROVE [Line!LineNext]_(Line!lineVars)
  <2>1. CASE Submit
    <3>1. UNCHANGED <<timing, start, paused, output, edge>>
      BY <2>1 DEF Submit, tcuVars, queueVars
    <3> QED BY <3>1, QuietStep
  <2>2. CASE Edge
    <3>1. PICK results \in ResultChoices, refusal \in {"None", "Preflight"}, sync_paused \in BOOLEAN :
            \/ /\ Step(edge, epoch, request, results, refusal, sync_paused)
               /\ edge' = edge + 1
            \/ /\ Refuse(StepFault(edge, epoch, request, results, refusal, sync_paused))
               /\ UNCHANGED envVars
      BY <2>2 DEF Edge
    <3>2. CASE /\ Step(edge, epoch, request, results, refusal, sync_paused)
               /\ edge' = edge + 1
      <4>1. PICK k \in {0, 1}, n \in {0, 1}, h \in {0, 1} : StepShape(k, n, h)
        BY <1>2, <3>2, EdgeShape
      <4>2. Line!Advance \/ Line!Hold
        BY <1>2, <3>2, <4>1, EdgeImplements DEF TcuInv
      <4> QED BY <4>2 DEF Line!LineNext
    <3>3. CASE /\ Refuse(StepFault(edge, epoch, request, results, refusal, sync_paused))
               /\ UNCHANGED envVars
      <4>1. UNCHANGED <<timing, start, paused, output, edge>>
        BY <3>3 DEF Refuse, queueVars, envVars
      <4> QED BY <4>1, QuietStep
    <3> QED BY <3>1, <3>2, <3>3
  <2>3. CASE EndOfStream
    <3>1. UNCHANGED <<timing, start, paused, output, edge>>
      BY <2>3 DEF EndOfStream, queueVars, envVars
    <3> QED BY <3>1, QuietStep
  <2>4. CASE Reset
    BY <1>2, <2>4, ResetImplements DEF TcuInv, Line!LineNext
  <2>5. CASE UNCHANGED vars
    <3>1. UNCHANGED <<timing, start, paused, output, edge>>
      BY <2>5 DEF vars, tcuVars, queueVars, envVars
    <3> QED BY <3>1, QuietStep
  <2> QED BY <1>2, <2>1, <2>2, <2>3, <2>4, <2>5 DEF Next
<1> QED BY <1>1, <1>2, TcuInvariant, PTL DEF Spec, ImplementsTimeline, Line!Timeline

=============================================================================
