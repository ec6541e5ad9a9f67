-------------------------- MODULE TcuQueueProofs ---------------------------
(***************************************************************************)
(* Proofs about the event queues of the timing control unit: they hold     *)
(* exactly the events that the queued time points list, so the manifest    *)
(* check of a trigger never fails and the queues drain with the timeline.  *)
(***************************************************************************)
EXTENDS TcuProofs, FiniteSetTheorems, WellFoundedInduction

-----------------------------------------------------------------------------
(* Induction, and what ForPort and FrontRun compute.                       *)

\* Induction up to a bound: a set that holds 0 and, with each n below L, also
\* n + 1 holds everything up to L.
LEMMA UpTo ==
  ASSUME NEW L \in Nat, NEW S, 0 \in S, \A n \in 0..(L - 1) : n \in S => n + 1 \in S
  PROVE  \A n \in 0..L : n \in S
<1> DEFINE T == {n \in 0..L : n \notin S}
<1> SUFFICES ASSUME T # {} PROVE FALSE
  OBVIOUS
<1>1. T \subseteq Nat
  OBVIOUS
<1>2. \E x \in T : \A y \in T : ~(<<y, x>> \in OpToRel(<, Nat))
  BY <1>1, NatLessThanWellFounded, WFMin
<1>3. PICK x \in T : \A y \in T : ~(y < x)
  BY <1>1, <1>2 DEF OpToRel
<1>4. x \in 0..L /\ x # 0 /\ x \notin S
  OBVIOUS
<1>5. x - 1 \in 0..(L - 1) /\ x - 1 \in 0..L /\ x - 1 < x /\ (x - 1) + 1 = x
  BY <1>4
<1>6. x - 1 \in S
  BY <1>3, <1>5
<1> QED BY <1>4, <1>5, <1>6

\* f satisfies the recursion of ForPort up to position n.
PortStep(s, p, i, t) == IF s[i].port = p THEN Append(t, s[i]) ELSE t
PortOf(s, p, n, f) == f = [i \in 0..n |-> IF i = 0 THEN <<>> ELSE PortStep(s, p, i, f[i - 1])]

\* The recursion of ForPort has a solution for every list of events.
LEMMA PortOfExists ==
  ASSUME NEW s, NEW p, NEW L \in Nat
  PROVE  \E f : PortOf(s, p, L, f)
<1> DEFINE S == {n \in 0..L : \E f : PortOf(s, p, n, f)}
<1>1. 0 \in S
  <2> DEFINE f == [i \in 0..0 |-> <<>>]
  <2>1. PortOf(s, p, 0, f)
    BY DEF PortOf
  <2> QED BY <2>1
<1>2. \A n \in 0..(L - 1) : n \in S => n + 1 \in S
  <2> SUFFICES ASSUME NEW n \in 0..(L - 1), NEW f, PortOf(s, p, n, f)
               PROVE  \E g : PortOf(s, p, n + 1, g)
    OBVIOUS
  <2> DEFINE g == [i \in 0..(n + 1) |-> IF i <= n THEN f[i] ELSE PortStep(s, p, n + 1, f[n])]
  <2>1. \A i \in 0..n : f[i] = IF i = 0 THEN <<>> ELSE PortStep(s, p, i, f[i - 1])
    BY DEF PortOf
  <2>2. \A i \in 0..(n + 1) : g[i] = IF i = 0 THEN <<>> ELSE PortStep(s, p, i, g[i - 1])
    <3> TAKE i \in 0..(n + 1)
    <3>1. CASE i = 0
      BY <2>1, <3>1
    <3>2. CASE i \in 1..n
      <4>1. g[i] = f[i] /\ g[i - 1] = f[i - 1]
        BY <3>2
      <4> QED BY <2>1, <3>2, <4>1
    <3>3. CASE i = n + 1
      <4>1. g[i] = PortStep(s, p, i, f[n]) /\ g[i - 1] = f[n] /\ i # 0
        BY <3>3
      <4> QED BY <4>1
    <3> QED BY <3>1, <3>2, <3>3
  <2>3. g = [i \in 0..(n + 1) |-> g[i]]
    OBVIOUS
  <2> HIDE DEF g
  <2>4. PortOf(s, p, n + 1, g)
    BY <2>2, <2>3 DEF PortOf
  <2> QED BY <2>4
<1>3. L \in S
  <2> HIDE DEF S
  <2> QED BY <1>1, <1>2, UpTo
<1> QED BY <1>3

\* ForPort is the last value of that solution.
LEMMA ForPortIs ==
  ASSUME NEW r, NEW p, Len(r.events) \in Nat
  PROVE  \E f : PortOf(r.events, p, Len(r.events), f) /\ ForPort(r, p) = f[Len(r.events)]
<1> DEFINE g == CHOOSE f : f = [i \in 0..Len(r.events) |->
                 IF i = 0 THEN <<>>
                 ELSE IF r.events[i].port = p THEN Append(f[i - 1], r.events[i]) ELSE f[i - 1]]
<1>1. PICK f : PortOf(r.events, p, Len(r.events), f)
  BY PortOfExists
<1>2. f = [i \in 0..Len(r.events) |->
                 IF i = 0 THEN <<>>
                 ELSE IF r.events[i].port = p THEN Append(f[i - 1], r.events[i]) ELSE f[i - 1]]
  BY <1>1 DEF PortOf, PortStep
<1>3. PortOf(r.events, p, Len(r.events), g)
  BY <1>2 DEF PortOf, PortStep
<1>4. ForPort(r, p) = g[Len(r.events)]
  BY DEF ForPort
<1> HIDE DEF g
<1> QED BY <1>3, <1>4

\* t lists the events for port p among the first n of s; at holds their
\* positions.
Lists(E, s, p, n, t, at) ==
  /\ t \in Seq(E)
  /\ at \in [1..Len(t) -> 1..n]
  /\ \A i \in 1..Len(t) : t[i] = s[at[i]] /\ s[at[i]].port = p
  /\ \A i, j \in 1..Len(t) : i < j => at[i] < at[j]
  /\ \A k \in 1..n : s[k].port = p => \E i \in 1..Len(t) : at[i] = k

\* One more element keeps a list complete and in order.
LEMMA ListsStep ==
  ASSUME NEW E, NEW s \in Seq(E), NEW p, NEW n \in Nat, n + 1 <= Len(s),
         NEW t, NEW at, Lists(E, s, p, n, t, at)
  PROVE  \E b : Lists(E, s, p, n + 1, PortStep(s, p, n + 1, t), b)
<1>0. /\ t \in Seq(E) /\ Len(t) \in Nat /\ n + 1 \in 1..Len(s)
      /\ at \in [1..Len(t) -> 1..n]
  BY LenProperties DEF Lists
<1>1. CASE s[n + 1].port = p
  <2> DEFINE m == Len(t)
             u == Append(t, s[n + 1])
             b == [i \in 1..(m + 1) |-> IF i <= m THEN at[i] ELSE n + 1]
  <2>1. u \in Seq(E) /\ Len(u) = m + 1 /\ u[m + 1] = s[n + 1] /\ \A i \in 1..m : u[i] = t[i]
    <3>1. s[n + 1] \in E
      BY <1>0, ElementOfSeq
    <3> QED BY <1>0, <3>1, AppendProperties
  <2>2. /\ b \in [1..(m + 1) -> 1..(n + 1)] /\ b[m + 1] = n + 1
        /\ \A i \in 1..m : b[i] = at[i] /\ at[i] \in 1..n
    BY <1>0
  <2>3. \A i \in 1..(m + 1) : i \in 1..m \/ i = m + 1
    BY <1>0
  <2> HIDE DEF u, b
  <2>4. \A i \in 1..(m + 1) : u[i] = s[b[i]] /\ s[b[i]].port = p
    BY <1>1, <2>1, <2>2, <2>3 DEF Lists
  <2>5. \A i, j \in 1..(m + 1) : i < j => b[i] < b[j]
    <3> SUFFICES ASSUME NEW i \in 1..(m + 1), NEW j \in 1..(m + 1), i < j PROVE b[i] < b[j]
      OBVIOUS
    <3>1. i \in 1..m
      BY <1>0
    <3>2. CASE j \in 1..m
      BY <2>2, <3>1, <3>2 DEF Lists
    <3>3. CASE j = m + 1
      BY <2>2, <3>1, <3>3
    <3> QED BY <2>3, <3>2, <3>3
  <2>6. \A k \in 1..(n + 1) : s[k].port = p => \E i \in 1..(m + 1) : b[i] = k
    <3> SUFFICES ASSUME NEW k \in 1..(n + 1), s[k].port = p PROVE \E i \in 1..(m + 1) : b[i] = k
      OBVIOUS
    <3>1. CASE k \in 1..n
      <4>1. PICK i \in 1..m : at[i] = k
        BY <3>1 DEF Lists
      <4> QED BY <1>0, <2>2, <4>1
    <3>2. CASE k = n + 1
      BY <1>0, <2>2, <3>2
    <3> QED BY <3>1, <3>2
  <2>7. Lists(E, s, p, n + 1, u, b)
    BY <2>1, <2>2, <2>4, <2>5, <2>6 DEF Lists
  <2>8. PortStep(s, p, n + 1, t) = u
    BY <1>1 DEF PortStep, u
  <2> QED BY <2>7, <2>8
<1>2. CASE s[n + 1].port # p
  <2>1. PortStep(s, p, n + 1, t) = t
    BY <1>2 DEF PortStep
  <2>2. Lists(E, s, p, n + 1, t, at)
    <3>1. at \in [1..Len(t) -> 1..(n + 1)]
      BY <1>0
    <3>2. \A k \in 1..(n + 1) : k \in 1..n \/ k = n + 1
      OBVIOUS
    <3> QED BY <1>0, <1>2, <3>1, <3>2 DEF Lists
  <2> QED BY <2>1, <2>2
<1> QED BY <1>1, <1>2

\* ForPort lists the events of its port, all of them and in their order
\* (the loop over a request in prepare_admission).
LEMMA ForPortLists ==
  ASSUME NEW E, NEW r, r.events \in Seq(E), NEW p
  PROVE  \E at : Lists(E, r.events, p, Len(r.events), ForPort(r, p), at)
<1> DEFINE s == r.events
           L == Len(s)
<1>0. L \in Nat /\ s \in Seq(E)
  BY LenProperties
<1>1. PICK f : PortOf(s, p, L, f) /\ ForPort(r, p) = f[L]
  BY <1>0, ForPortIs
<1> HIDE DEF s
<1>2. f[0] = <<>> /\ \A i \in 1..L : f[i] = PortStep(s, p, i, f[i - 1])
  <2>1. \A i \in 0..L : f[i] = IF i = 0 THEN <<>> ELSE PortStep(s, p, i, f[i - 1])
    BY <1>1 DEF PortOf
  <2> QED BY <1>0, <2>1
<1> DEFINE S == {n \in 0..L : \E at : Lists(E, s, p, n, f[n], at)}
<1>3. 0 \in S
  <2> DEFINE at == [i \in 1..0 |-> 1]
  <2>1. <<>> \in Seq(E) /\ Len(<<>>) = 0
    OBVIOUS
  <2>2. at \in [1..0 -> 1..0]
    OBVIOUS
  <2> HIDE DEF at
  <2>3. Lists(E, s, p, 0, <<>>, at)
    BY <2>1, <2>2 DEF Lists
  <2> QED BY <1>0, <1>2, <2>3
<1>4. \A n \in 0..(L - 1) : n \in S => n + 1 \in S
  <2> SUFFICES ASSUME NEW n \in 0..(L - 1), n \in S PROVE n + 1 \in S
    OBVIOUS
  <2>0. PICK at : Lists(E, s, p, n, f[n], at)
    OBVIOUS
  <2>1. n \in Nat /\ n + 1 <= Len(s) /\ n + 1 \in 1..L /\ (n + 1) - 1 = n /\ n + 1 \in 0..L
    BY <1>0
  <2>2. f[n + 1] = PortStep(s, p, n + 1, f[n])
    BY <1>2, <2>1
  <2>3. \E b : Lists(E, s, p, n + 1, f[n + 1], b)
    BY <1>0, <2>0, <2>1, <2>2, ListsStep
  <2> QED BY <2>1, <2>3
<1>5. L \in S
  <2> HIDE DEF S, L
  <2>1. \A n \in 0..L : n \in S
    BY <1>0, <1>3, <1>4, UpTo
  <2> QED BY <1>0, <2>1
<1> QED BY <1>1, <1>5 DEF s

\* An operation event (OperationEvent).
Event == [epoch : Nat, id : Nat, label : Nat, port : Ports, flag : ExecutionFlag, target : Qubits]

\* A nonempty set of naturals has a least element.
LEMMA LeastOf ==
  ASSUME NEW T, T \subseteq Nat, T # {}
  PROVE  \E x \in T : \A y \in T : x <= y
<1>1. \E x \in T : \A y \in T : ~(<<y, x>> \in OpToRel(<, Nat))
  BY NatLessThanWellFounded, WFMin
<1>2. PICK x \in T : \A y \in T : ~(y < x)
  BY <1>1 DEF OpToRel
<1> QED BY <1>2

\* In a queue sorted by label whose labels are at least l, the front run of l
\* is exactly the events labelled l.
LEMMA FrontRunIs ==
  ASSUME NEW q \in Seq(Event), NEW l \in Nat,
         \A i, j \in 1..Len(q) : i < j => q[i].label <= q[j].label,
         \A i \in 1..Len(q) : q[i].label >= l
  PROVE  /\ FrontRun(q, l) \in 0..Len(q)
         /\ \A i \in 1..Len(q) : q[i].label = l <=> i <= FrontRun(q, l)
<1> DEFINE R == {i \in 1..Len(q) : \A j \in 1..i : q[j].label = l}
           T == {i \in 1..Len(q) : q[i].label # l}
<1>0. Len(q) \in Nat /\ \A i \in 1..Len(q) : q[i].label \in Nat
  <2>1. \A i \in 1..Len(q) : q[i] \in Event
    BY ElementOfSeq
  <2> QED BY <2>1, LenProperties DEF Event
<1>1. FrontRun(q, l) = Cardinality(R)
  BY DEF FrontRun
<1>2. CASE T = {}
  <2>1. R = 1..Len(q)
    BY <1>0, <1>2
  <2>2. Cardinality(1..Len(q)) = Len(q)
    BY <1>0, FS_Interval
  <2> HIDE DEF R
  <2> QED BY <1>0, <1>1, <1>2, <2>1, <2>2
<1>3. CASE T # {}
  <2>1. PICK x \in T : \A y \in T : x <= y
    <3>1. T \subseteq Nat
      BY <1>0
    <3> HIDE DEF T
    <3> QED BY <1>3, <3>1, LeastOf
  <2>2. x \in 1..Len(q) /\ q[x].label # l
    OBVIOUS
  <2>3. \A i \in 1..Len(q) : i < x => q[i].label = l
    BY <1>0, <2>1
  <2>4. \A i \in 1..Len(q) : i >= x => q[i].label > l
    BY <1>0, <2>2
  <2>5. R = 1..(x - 1)
    <3>1. ASSUME NEW i \in R PROVE i \in 1..(x - 1)
      BY <1>0, <2>2
    <3>2. ASSUME NEW i \in 1..(x - 1) PROVE i \in R
      BY <1>0, <2>2, <2>3
    <3> QED BY <3>1, <3>2
  <2>6. Cardinality(1..(x - 1)) = x - 1
    BY <1>0, <2>2, FS_Interval
  <2> HIDE DEF R, T
  <2>7. FrontRun(q, l) = x - 1
    BY <1>1, <2>5, <2>6
  <2>8. ASSUME NEW i \in 1..Len(q) PROVE q[i].label = l <=> i <= x - 1
    <3>1. CASE i < x
      BY <3>1, <2>2, <2>3, <1>0
    <3>2. CASE i >= x
      BY <3>2, <2>2, <2>4, <1>0
    <3> QED BY <3>1, <3>2, <1>0, <2>2
  <2> QED BY <1>0, <2>2, <2>7, <2>8
<1> QED BY <1>2, <1>3

\* In r the entries of q after the first d have moved up, and f follows them.
Moved(q, d, f, r) ==
  /\ r \in Seq(Event)
  /\ Len(r) = Len(q) - d + Len(f)
  /\ \A i \in 1..(Len(q) - d) : r[i] = q[i + d]
  /\ \A i \in 1..Len(f) : r[Len(q) - d + i] = f[i]

\* Dropping the first d entries and adding f does that.
LEMMA MovedIs ==
  ASSUME NEW q \in Seq(Event), NEW d \in 0..Len(q), NEW f \in Seq(Event)
  PROVE  Moved(q, d, f, SubSeq(q, d + 1, Len(q)) \o f)
<1> DEFINE s == SubSeq(q, d + 1, Len(q))
           r == s \o f
<1>0. Len(q) \in Nat /\ Len(f) \in Nat /\ d \in Nat /\ d <= Len(q)
  BY LenProperties
<1>1. s \in Seq(Event) /\ Len(s) = Len(q) - d /\ \A i \in 1..(Len(q) - d) : s[i] = q[i + d]
  <2>1. \A i \in (d + 1)..Len(q) : q[i] \in Event
    BY <1>0, ElementOfSeq
  <2>2. /\ s \in Seq(Event)
        /\ Len(s) = IF d + 1 <= Len(q) THEN Len(q) - (d + 1) + 1 ELSE 0
        /\ \A i \in 1..Len(s) : s[i] = q[(d + 1) + i - 1]
    BY <1>0, <2>1, SubSeqProperties
  <2>3. Len(s) = Len(q) - d
    BY <1>0, <2>2
  <2> HIDE DEF s
  <2>4. ASSUME NEW i \in 1..(Len(q) - d) PROVE s[i] = q[i + d]
    <3>1. i \in 1..Len(s) /\ (d + 1) + i - 1 = i + d
      BY <1>0, <2>3
    <3> QED BY <2>2, <3>1
  <2> QED BY <2>2, <2>3, <2>4
<1> HIDE DEF s
<1>2. /\ r \in Seq(Event)
      /\ Len(r) = Len(s) + Len(f)
      /\ \A i \in 1..(Len(s) + Len(f)) : r[i] = IF i <= Len(s) THEN s[i] ELSE f[i - Len(s)]
  BY <1>1, ConcatProperties, Zenon
<1> HIDE DEF r
<1>3. ASSUME NEW i \in 1..(Len(q) - d) PROVE r[i] = q[i + d]
  <2>1. i \in 1..(Len(s) + Len(f)) /\ i <= Len(s)
    BY <1>0, <1>1
  <2> QED BY <1>1, <1>2, <2>1
<1>4. ASSUME NEW i \in 1..Len(f) PROVE r[Len(q) - d + i] = f[i]
  <2>1. /\ Len(q) - d + i \in 1..(Len(s) + Len(f)) /\ ~(Len(q) - d + i <= Len(s))
        /\ Len(q) - d + i - Len(s) = i
    BY <1>0, <1>1
  <2> DEFINE j == Len(q) - d + i
  <2> HIDE DEF j
  <2>2. j \in 1..(Len(s) + Len(f)) /\ ~(j <= Len(s)) /\ j - Len(s) = i
    BY <2>1 DEF j
  <2>3. r[j] = f[j - Len(s)]
    BY <1>2, <2>2
  <2> QED BY <2>2, <2>3 DEF j
<1>5. Moved(q, d, f, r)
  BY <1>1, <1>2, <1>3, <1>4 DEF Moved
<1> QED BY <1>5 DEF r, s

-----------------------------------------------------------------------------
(* The parts of the invariant.                                             *)

\* The request on the link carries well-typed events.
RequestInv == request # <<>> => request[1].events \in Seq(Event)

\* Each port queue is within its capacity and holds events of the current
\* epoch, sorted by label, whose labels are those of queued points.
PortsInv ==
  /\ events \in [Ports -> Seq(Event)]
  /\ \A p \in Ports :
       /\ Len(events[p]) <= EventCapacity
       /\ \A i \in 1..Len(events[p]) :
            /\ events[p][i].epoch = epoch
            /\ events[p][i].label > last_label - Len(timing)
            /\ events[p][i].label <= last_label
            /\ \A j \in 1..Len(events[p]) : i < j => events[p][i].label <= events[p][j].label

\* The ids in the manifest of a point are those of the events with its label in
\* the queues ev, one to one.
Matches(point, ev) ==
  /\ \A i \in 1..Len(point.manifest) : \E p \in Ports : \E x \in 1..Len(ev[p]) :
       ev[p][x].label = point.label /\ ev[p][x].id = point.manifest[i]
  /\ \A p \in Ports : \A x \in 1..Len(ev[p]) :
       ev[p][x].label = point.label =>
         \E i \in 1..Len(point.manifest) : point.manifest[i] = ev[p][x].id
  /\ \A i, j \in 1..Len(point.manifest) : point.manifest[i] = point.manifest[j] => i = j
  /\ \A p, q \in Ports : \A x \in 1..Len(ev[p]), y \in 1..Len(ev[q]) :
       (/\ ev[p][x].label = point.label
        /\ ev[q][y].label = point.label
        /\ ev[p][x].id = ev[q][y].id) => p = q /\ x = y

\* Every queued point finds the events its manifest lists.
ManifestInv == \A k \in 1..Len(timing) : Matches(timing[k].point, events)

\* sync_size_ counts the queued points that carry a synchronization; a valid
\* request carries at most one.
SyncInv ==
  /\ Len(timing) <= TimingCapacity
  /\ sync_size <= SyncCapacity
  /\ \A k \in 1..Len(timing) : Len(timing[k].point.synchronizations) <= 1
  /\ sync_size = Cardinality({k \in 1..Len(timing) : Len(timing[k].point.synchronizations) = 1})

-----------------------------------------------------------------------------
(* Manifests, and the events of a request.                                 *)

\* Events with label l stand in w where they stood in v, moved by o.
Carried(l, v, w, o) ==
  \A p \in Ports :
    /\ Len(v[p]) \in Nat /\ Len(w[p]) \in Nat /\ o[p] \in Int
    /\ \A x \in 1..Len(v[p]) : v[p][x].label = l =>
         x + o[p] \in 1..Len(w[p]) /\ w[p][x + o[p]] = v[p][x]
    /\ \A y \in 1..Len(w[p]) : w[p][y].label = l =>
         y - o[p] \in 1..Len(v[p]) /\ v[p][y - o[p]] = w[p][y]

\* Then a point that matches v matches w.
LEMMA MatchesCarried ==
  ASSUME NEW point, NEW v, NEW w, NEW o, Matches(point, v), Carried(point.label, v, w, o)
  PROVE  Matches(point, w)
<1> DEFINE m == point.manifest
           l == point.label
<1>1. \A i \in 1..Len(m) : \E p \in Ports : \E x \in 1..Len(w[p]) :
        w[p][x].label = l /\ w[p][x].id = m[i]
  <2> TAKE i \in 1..Len(m)
  <2>1. PICK p \in Ports : \E x \in 1..Len(v[p]) : v[p][x].label = l /\ v[p][x].id = m[i]
    BY DEF Matches
  <2>2. PICK x \in 1..Len(v[p]) : v[p][x].label = l /\ v[p][x].id = m[i]
    BY <2>1
  <2>3. x + o[p] \in 1..Len(w[p]) /\ w[p][x + o[p]] = v[p][x]
    BY <2>2 DEF Carried
  <2> QED BY <2>2, <2>3
<1>2. \A p \in Ports : \A y \in 1..Len(w[p]) : w[p][y].label = l =>
        \E i \in 1..Len(m) : m[i] = w[p][y].id
  <2> SUFFICES ASSUME NEW p \in Ports, NEW y \in 1..Len(w[p]), w[p][y].label = l
               PROVE  \E i \in 1..Len(m) : m[i] = w[p][y].id
    OBVIOUS
  <2>1. y - o[p] \in 1..Len(v[p]) /\ v[p][y - o[p]] = w[p][y]
    BY DEF Carried
  <2>2. \A x \in 1..Len(v[p]) : v[p][x].label = l => \E i \in 1..Len(m) : m[i] = v[p][x].id
    BY DEF Matches
  <2> DEFINE z == y - o[p]
  <2>3. z \in 1..Len(v[p]) /\ v[p][z] = w[p][y] /\ v[p][z].label = l
    BY <2>1
  <2> HIDE DEF z, m, l
  <2>4. \E i \in 1..Len(m) : m[i] = v[p][z].id
    BY <2>2, <2>3
  <2> QED BY <2>3, <2>4
<1>3. ASSUME NEW p \in Ports, NEW q \in Ports, NEW x \in 1..Len(w[p]), NEW y \in 1..Len(w[q]),
             w[p][x].label = l, w[q][y].label = l, w[p][x].id = w[q][y].id
      PROVE  p = q /\ x = y
  <2>1. x - o[p] \in 1..Len(v[p]) /\ v[p][x - o[p]] = w[p][x] /\ o[p] \in Int /\ x \in Int
    BY <1>3 DEF Carried
  <2>2. y - o[q] \in 1..Len(v[q]) /\ v[q][y - o[q]] = w[q][y] /\ o[q] \in Int /\ y \in Int
    BY <1>3 DEF Carried
  <2>3. p = q /\ x - o[p] = y - o[q]
    <3> DEFINE a == x - o[p]
               b == y - o[q]
    <3>1. /\ a \in 1..Len(v[p]) /\ b \in 1..Len(v[q])
          /\ v[p][a].label = l /\ v[q][b].label = l /\ v[p][a].id = v[q][b].id
      BY <1>3, <2>1, <2>2
    <3> HIDE DEF a, b
    <3>2. p = q /\ a = b
      <4>1. \A x1 \in 1..Len(v[p]), y1 \in 1..Len(v[q]) :
              (v[p][x1].label = l /\ v[q][y1].label = l /\ v[p][x1].id = v[q][y1].id)
                => p = q /\ x1 = y1
        BY <1>3 DEF Matches
      <4> HIDE DEF l
      <4> QED BY <3>1, <4>1
    <3> QED BY <3>2 DEF a, b
  <2> QED BY <2>1, <2>2, <2>3
<1>4. \A i, j \in 1..Len(m) : m[i] = m[j] => i = j
  BY DEF Matches
<1> QED BY <1>1, <1>2, <1>3, <1>4 DEF Matches

\* The events that a valid request carries match its manifest.
LEMMA ListsMatch ==
  ASSUME NEW s \in Seq(Event), NEW point, NEW f,
         \A p \in Ports : \E at : Lists(Event, s, p, Len(s), f[p], at),
         Len(s) = Len(point.manifest),
         \A i \in 1..Len(s) : /\ s[i].epoch = point.epoch /\ s[i].label = point.label
                              /\ s[i].id = point.manifest[i] /\ s[i].port \in Ports,
         \A i, j \in 1..Len(s) : s[i].id = s[j].id => i = j
  PROVE  /\ \A p \in Ports : f[p] \in Seq(Event)
         /\ \A p \in Ports : \A i \in 1..Len(f[p]) :
              f[p][i].epoch = point.epoch /\ f[p][i].label = point.label
         /\ Matches(point, f)
<1> DEFINE m == point.manifest
           L == Len(s)
<1>0. L \in Nat /\ Len(m) = L
  BY LenProperties
<1>1. ASSUME NEW p \in Ports
      PROVE  /\ f[p] \in Seq(Event) /\ Len(f[p]) \in Nat
             /\ \A k \in 1..L : s[k].port = p => \E i \in 1..Len(f[p]) : f[p][i] = s[k]
             /\ \A i \in 1..Len(f[p]) : \E k \in 1..L : f[p][i] = s[k] /\ s[k].port = p
             /\ \A i, j \in 1..Len(f[p]) : f[p][i].id = f[p][j].id => i = j
  <2> DEFINE t == f[p]
  <2>1. PICK at : Lists(Event, s, p, L, t, at)
    BY <1>1
  <2> HIDE DEF t
  <2>2. t \in Seq(Event) /\ Len(t) \in Nat /\ at \in [1..Len(t) -> 1..L]
    BY <2>1, LenProperties DEF Lists
  <2>3. \A i \in 1..Len(t) : at[i] \in 1..L /\ t[i] = s[at[i]] /\ s[at[i]].port = p
    BY <2>1, <2>2 DEF Lists
  <2>4. \A k \in 1..L : s[k].port = p => \E i \in 1..Len(t) : t[i] = s[k]
    BY <2>1, <2>3 DEF Lists
  <2>5. ASSUME NEW i \in 1..Len(t), NEW j \in 1..Len(t), t[i].id = t[j].id PROVE i = j
    <3>1. at[i] \in 1..L /\ at[j] \in 1..L /\ s[at[i]].id = s[at[j]].id
      BY <2>3, <2>5
    <3>2. at[i] = at[j]
      BY <3>1
    <3>3. ~(i < j) /\ ~(j < i)
      <4>1. (i < j => at[i] < at[j]) /\ (j < i => at[j] < at[i])
        BY <2>1 DEF Lists
      <4>2. at[i] \in Int
        BY <1>0, <3>1
      <4> QED BY <3>2, <4>1, <4>2
    <3> QED BY <2>2, <3>3
  <2>6. \A i \in 1..Len(t) : \E k \in 1..L : t[i] = s[k] /\ s[k].port = p
    BY <2>3
  <2>7. \A i, j \in 1..Len(t) : t[i].id = t[j].id => i = j
    BY <2>5
  <2> QED BY <2>2, <2>4, <2>6, <2>7 DEF t
<1>2. ASSUME NEW p \in Ports, NEW x \in 1..Len(f[p])
      PROVE  \E k \in 1..L : f[p][x] = s[k] /\ s[k].port = p
  <2>1. \A i \in 1..Len(f[p]) : \E k \in 1..L : f[p][i] = s[k] /\ s[k].port = p
    BY <1>1, Zenon
  <2> QED BY <2>1, <1>2, Zenon
<1>3. \A p \in Ports : \A x \in 1..Len(f[p]) :
        f[p][x].epoch = point.epoch /\ f[p][x].label = point.label
  <2> TAKE p \in Ports
  <2> TAKE x \in 1..Len(f[p])
  <2>1. PICK k \in 1..L : f[p][x] = s[k]
    BY <1>2
  <2> QED BY <2>1
<1>4. Matches(point, f)
  <2>1. \A i \in 1..Len(m) : \E p \in Ports : \E x \in 1..Len(f[p]) :
          f[p][x].label = point.label /\ f[p][x].id = m[i]
    <3> TAKE i \in 1..Len(m)
    <3> DEFINE p == s[i].port
    <3>1. i \in 1..L /\ p \in Ports
      BY <1>0
    <3>2. PICK x \in 1..Len(f[p]) : f[p][x] = s[i]
      <4>1. p \in Ports
        BY <3>1
      <4> HIDE DEF p
      <4>2. \A k \in 1..L : s[k].port = p => \E x \in 1..Len(f[p]) : f[p][x] = s[k]
        BY <1>1, <4>1, Zenon
      <4>3. s[i].port = p
        BY DEF p
      <4> QED BY <3>1, <4>2, <4>3
    <3>3. f[p][x].label = point.label /\ f[p][x].id = m[i]
      BY <3>1, <3>2
    <3> QED BY <3>1, <3>3
  <2>2. \A p \in Ports : \A x \in 1..Len(f[p]) : \E i \in 1..Len(m) : m[i] = f[p][x].id
    <3> TAKE p \in Ports
    <3> TAKE x \in 1..Len(f[p])
    <3>1. PICK k \in 1..L : f[p][x] = s[k]
      BY <1>2
    <3> QED BY <1>0, <3>1
  <2>3. \A i, j \in 1..Len(m) : m[i] = m[j] => i = j
    <3> SUFFICES ASSUME NEW i \in 1..L, NEW j \in 1..L, m[i] = m[j] PROVE i = j
      BY <1>0
    <3>1. s[i].id = s[j].id
      OBVIOUS
    <3> QED BY <3>1
  <2>4. ASSUME NEW p \in Ports, NEW q \in Ports, NEW x \in 1..Len(f[p]), NEW y \in 1..Len(f[q]),
               f[p][x].id = f[q][y].id
        PROVE  p = q /\ x = y
    <3>1. PICK k \in 1..L : f[p][x] = s[k] /\ s[k].port = p
      BY <1>2
    <3>2. PICK n \in 1..L : f[q][y] = s[n] /\ s[n].port = q
      BY <1>2
    <3>3. k = n
      BY <2>4, <3>1, <3>2
    <3>4. p = q
      BY <3>1, <3>2, <3>3
    <3>5. y \in 1..Len(f[p]) /\ f[p][x].id = f[p][y].id
      BY <2>4, <3>4
    <3> QED BY <1>1, <3>4, <3>5
  <2> QED BY <2>1, <2>2, <2>3, <2>4 DEF Matches
<1> QED BY <1>1, <1>3, <1>4

\* So the parts of a valid request that go to each port match its manifest.
LEMMA RequestMatches ==
  ASSUME NEW r, r.events \in Seq(Event), ValidTimingEvents(r)
  PROVE  LET f == [p \in Ports |-> ForPort(r, p)]
         IN  /\ \A p \in Ports : f[p] \in Seq(Event)
             /\ \A p \in Ports : \A i \in 1..Len(f[p]) :
                  f[p][i].epoch = r.point.epoch /\ f[p][i].label = r.point.label
             /\ Matches(r.point, f)
<1> DEFINE s == r.events
           L == Len(r.events)
           f == [p \in Ports |-> ForPort(r, p)]
<1>0. L \in Nat /\ Len(r.point.manifest) = L /\ s \in Seq(Event)
  BY LenProperties DEF ValidTimingEvents
<1>1. \A i \in 1..L : /\ s[i].epoch = r.point.epoch /\ s[i].label = r.point.label
                      /\ s[i].id = r.point.manifest[i] /\ s[i].port \in Ports
                      /\ \A j \in 1..(i - 1) : s[j].id # s[i].id
  BY DEF ValidTimingEvents
<1>2. \A i, j \in 1..L : s[i].id = s[j].id => i = j
  <2> SUFFICES ASSUME NEW i \in 1..L, NEW j \in 1..L, s[i].id = s[j].id, i # j PROVE FALSE
    OBVIOUS
  <2>1. CASE i < j
    BY <1>0, <1>1, <2>1
  <2>2. CASE j < i
    BY <1>0, <1>1, <2>2
  <2> QED BY <1>0, <2>1, <2>2
<1>3. \A p \in Ports : \E at : Lists(Event, s, p, L, f[p], at)
  BY ForPortLists
<1> HIDE DEF f
<1>4. /\ \A p \in Ports : f[p] \in Seq(Event)
      /\ \A p \in Ports : \A i \in 1..Len(f[p]) :
           f[p][i].epoch = r.point.epoch /\ f[p][i].label = r.point.label
      /\ Matches(r.point, f)
  BY <1>0, <1>1, <1>2, <1>3, ListsMatch
<1> QED BY <1>4 DEF f

-----------------------------------------------------------------------------
(* The steps of an edge on the queues: k points trigger and n requests are *)
(* admitted, as in StepShape.                                              *)

\* The head's label is the first that is not yet triggered.
LEMMA HeadLabel ==
  ASSUME TypeOK, QueueInv, timing # <<>>
  PROVE  /\ Len(timing) \in Nat /\ Len(timing) >= 1
         /\ Head(timing) = timing[1]
         /\ Head(timing).point.label = last_label - Len(timing) + 1
         /\ last_label - Len(timing) + 1 \in Nat
<1>1. Len(timing) \in Nat /\ Len(timing) # 0 /\ Head(timing) = timing[1]
  BY EmptyByLength DEF TypeOK
<1> QED BY <1>1 DEF QueueInv, TypeOK

\* The queues of a step, from its assignments.
Commits(k, n) ==
  /\ events' = EventsAfter(k = 1, n = 1, request[1])
  /\ sync_size' = SyncSizeAfter(k = 1, n = 1, request[1])
  /\ n = 1 => /\ request # <<>>
              /\ HasSpace(request[1])
              /\ ValidTimingEvents(request[1])
              /\ request[1].point.epoch = epoch
              /\ request[1].point.label = last_label + 1

\* Every edge that passes its checks commits its queues this way.
LEMMA EdgeCommits ==
  ASSUME TcuInv,
         NEW results, NEW refusal, NEW sync_paused \in BOOLEAN,
         Step(edge, epoch, request, results, refusal, sync_paused)
  PROVE  \E k, n, h \in {0, 1} : StepShape(k, n, h) /\ Commits(k, n)
<1> DEFINE state == CurrentTimingState(edge, sync_paused)
           t == Triggers(state)
           a == request # <<>> /\ HasSpace(request[1])
           p == IsPaused(state)
<1>1. PICK k, n, h \in {0, 1} : StepShape(k, n, h)
  BY EdgeShape
<1>2. t \in BOOLEAN /\ a \in BOOLEAN /\ p \in BOOLEAN
  BY DEF Triggers, IsPaused, HasSpace, CurrentTimingState
<1>3. StepFault(edge, epoch, request, results, refusal, sync_paused) = "None"
  BY DEF Step
<1>4. TriggerFault(epoch, state, refusal) = "None"
  BY <1>3 DEF StepFault
<1>5. ASSUME request # <<>>
      PROVE  AdmissionFault(edge, epoch, request[1], state) = "None"
  BY <1>3, <1>4, <1>5 DEF StepFault
<1>6. a => /\ request # <<>>
           /\ HasSpace(request[1])
           /\ ValidTimingEvents(request[1])
           /\ request[1].point.epoch = epoch
           /\ request[1].point.label = last_label + 1
  BY <1>5 DEF AdmissionFault
<1>7. /\ events' = EventsAfter(t, a, request[1])
      /\ sync_size' = SyncSizeAfter(t, a, request[1])
      /\ last_label' = IF a THEN request[1].point.label ELSE last_label
      /\ paused' = IF p THEN paused + 1 ELSE paused
  BY DEF Step, PausedAfter
<1>8. t <=> /\ edge >= start /\ ~p /\ timing # <<>> /\ Head(timing).due <= Cycle(edge)
  <2>1. state.running = (edge >= start) /\ state.cycle = Cycle(edge)
    BY DEF CurrentTimingState
  <2> HIDE DEF state
  <2> QED BY <2>1, Zenon DEF Triggers
<1> HIDE DEF t, a, p
<1>9. a <=> n = 1
  <2>1. last_label \in Nat /\ last_label' = last_label + n
    BY <1>1 DEF StepShape, TcuInv, TypeOK
  <2> QED BY <2>1, <1>2, <1>6, <1>7
<1>10. p <=> h = 1
  <2>1. paused \in Nat /\ paused' = paused + h
    BY <1>1 DEF StepShape, TcuInv, TypeOK
  <2> QED BY <2>1, <1>2, <1>7
<1>11. t <=> k = 1
  <2>1. timing # <<>> => Head(timing).due \in Int /\ Cycle(edge) \in Int
    BY HeadDueType, CycleType DEF TcuInv, QueueEntry
  <2>2. edge \in Int /\ start \in Int
    BY DEF TcuInv, TypeOK
  <2>3. k = 1 => timing # <<>> /\ edge >= start /\ h = 0 /\ Head(timing).due = Cycle(edge)
    BY <1>1 DEF StepShape
  <2>4. k = 0 => timing = <<>> \/ edge < start \/ h = 1 \/ Head(timing).due > Cycle(edge)
    BY <1>1 DEF StepShape
  <2>5. k = 1 => t
    BY <2>1, <2>2, <2>3, <1>8, <1>10
  <2>6. k = 0 => ~t
    BY <2>1, <2>2, <2>4, <1>8, <1>10
  <2> QED BY <2>5, <2>6
<1>12. t = (k = 1) /\ a = (n = 1)
  BY <1>2, <1>9, <1>11
<1>13. Commits(k, n)
  BY <1>6, <1>7, <1>12, Zenon DEF Commits
<1> QED BY <1>1, <1>13

\* What a step does to the port queues: d events leave the front of each, the
\* ones with the head's label when it triggers, and f is added at the end.
PortShape(k, n, d, f) ==
  /\ \A p \in Ports :
       /\ events[p] \in Seq(Event) /\ f[p] \in Seq(Event) /\ d[p] \in 0..Len(events[p])
       /\ \A i \in 1..Len(events[p]) :
            i <= d[p] <=> (k = 1 /\ events[p][i].label = last_label - Len(timing) + 1)
       /\ Moved(events[p], d[p], f[p], events'[p])
       /\ Len(events[p]) + Len(f[p]) <= EventCapacity
       /\ \A i \in 1..Len(f[p]) :
            n = 1 /\ f[p][i].epoch = epoch /\ f[p][i].label = last_label + 1
  /\ events' = [p \in Ports |-> events'[p]]
  /\ n = 1 => Matches(request[1].point, f)

\* Without a trigger nothing leaves the front, so the queue is a subsequence.
LEMMA NoneLeaves ==
  ASSUME NEW q \in Seq(Event), NEW d, d = 0
  PROVE  SubSeq(q, d + 1, Len(q)) = q
<1> DEFINE s == SubSeq(q, d + 1, Len(q))
<1>0. Len(q) \in Nat /\ d + 1 = 1
  BY LenProperties
<1>1. s = SubSeq(q, 1, Len(q))
  BY <1>0
<1> HIDE DEF s
<1>2. \A i \in 1..Len(q) : q[i] \in Event
  BY ElementOfSeq
<1>3. /\ s \in Seq(Event)
      /\ Len(s) = IF 1 <= Len(q) THEN Len(q) - 1 + 1 ELSE 0
      /\ \A i \in 1..Len(s) : s[i] = q[1 + i - 1]
  BY <1>0, <1>1, <1>2, SubSeqProperties
<1>4. Len(s) = Len(q)
  BY <1>0, <1>3
<1>5. \A i \in 1..Len(q) : s[i] = q[i]
  <2> TAKE i \in 1..Len(q)
  <2>1. 1 + i - 1 = i
    BY <1>0
  <2> QED BY <1>3, <1>4, <2>1
<1>6. s = q
  BY <1>3, <1>4, <1>5, SeqEqual
<1> QED BY <1>6 DEF s

\* Every edge changes the port queues in this way.
LEMMA EdgePorts ==
  ASSUME TcuInv, RequestInv, PortsInv,
         NEW k \in {0, 1}, NEW n \in {0, 1}, NEW h \in {0, 1},
         StepShape(k, n, h), Commits(k, n)
  PROVE  \E d, f : PortShape(k, n, d, f)
<1> DEFINE l == last_label - Len(timing) + 1
           d == [p \in Ports |-> IF k = 1 THEN FrontRun(events[p], l) ELSE 0]
           g == [p \in Ports |-> ForPort(request[1], p)]
           f == [p \in Ports |-> IF n = 1 THEN g[p] ELSE <<>>]
<1>1. k = 1 => l \in Nat /\ Head(timing).point.label = l
  BY HeadLabel DEF StepShape, TcuInv
<1>2. ASSUME n = 1
      PROVE  /\ \A p \in Ports : g[p] \in Seq(Event)
             /\ \A p \in Ports : \A i \in 1..Len(g[p]) :
                  g[p][i].epoch = epoch /\ g[p][i].label = last_label + 1
             /\ Matches(request[1].point, g)
  <2>1. /\ request[1].events \in Seq(Event) /\ ValidTimingEvents(request[1])
        /\ request[1].point.epoch = epoch
        /\ request[1].point.label = last_label + 1
    BY <1>2 DEF Commits, RequestInv
  <2> QED BY <2>1, RequestMatches
<1>3. ASSUME NEW p \in Ports
      PROVE  events'[p] = (IF k = 1 THEN SubSeq(events[p], FrontRun(events[p], Head(timing).point.label) + 1,
                                               Len(events[p])) ELSE events[p])
                          \o f[p]
  BY DEF Commits, EventsAfter
<1>4. events' = [p \in Ports |-> events'[p]]
  BY DEF Commits, EventsAfter
<1>5. ASSUME NEW p \in Ports
      PROVE  /\ events[p] \in Seq(Event) /\ f[p] \in Seq(Event)
             /\ Len(events[p]) \in Nat /\ Len(f[p]) \in Nat
             /\ Len(events[p]) + Len(f[p]) <= EventCapacity
             /\ \A i \in 1..Len(f[p]) :
                  n = 1 /\ f[p][i].epoch = epoch /\ f[p][i].label = last_label + 1
  <2>1. events[p] \in Seq(Event) /\ Len(events[p]) \in Nat /\ Len(events[p]) <= EventCapacity
    BY LenProperties DEF PortsInv
  <2>2. CASE n = 1
    <3>1. f[p] = g[p] /\ g[p] = ForPort(request[1], p)
      BY <2>2
    <3>2. Len(events[p]) + Len(ForPort(request[1], p)) <= EventCapacity
      BY <2>2 DEF Commits, HasSpace
    <3> HIDE DEF f, g
    <3> QED BY <1>2, <2>1, <2>2, <3>1, <3>2, LenProperties
  <2>3. CASE n = 0
    <3>1. f[p] = <<>> /\ <<>> \in Seq(Event) /\ Len(<<>>) = 0
      BY <2>3
    <3> HIDE DEF f
    <3> QED BY <2>1, <3>1, ProtocolAssumption
  <2> QED BY <2>2, <2>3
<1>6. ASSUME NEW p \in Ports
      PROVE  /\ d[p] \in 0..Len(events[p])
             /\ \A i \in 1..Len(events[p]) : i <= d[p] <=> (k = 1 /\ events[p][i].label = l)
             /\ Moved(events[p], d[p], f[p], events'[p])
  <2>1. CASE k = 1
    <3>1. d[p] = FrontRun(events[p], l)
      BY <2>1
    <3>2. /\ \A i, j \in 1..Len(events[p]) : i < j => events[p][i].label <= events[p][j].label
          /\ \A i \in 1..Len(events[p]) : events[p][i].label >= l
      <4>1. \A i \in 1..Len(events[p]) : events[p][i].label > last_label - Len(timing)
                                         /\ events[p][i].label \in Nat
        <5>1. \A i \in 1..Len(events[p]) : events[p][i] \in Event
          BY <1>5, ElementOfSeq
        <5> QED BY <5>1 DEF PortsInv, Event
      <4>2. last_label - Len(timing) \in Int
        BY LenProperties DEF TcuInv, TypeOK
      <4>3. \A i \in 1..Len(events[p]) : events[p][i].label >= l
        BY <4>1, <4>2
      <4> QED BY <4>3 DEF PortsInv
    <3> HIDE DEF l, d, f
    <3>3. /\ FrontRun(events[p], l) \in 0..Len(events[p])
          /\ \A i \in 1..Len(events[p]) : events[p][i].label = l <=> i <= FrontRun(events[p], l)
      BY <1>1, <1>5, <2>1, <3>2, FrontRunIs
    <3>4. events'[p] = SubSeq(events[p], d[p] + 1, Len(events[p])) \o f[p]
      BY <1>1, <1>3, <2>1, <3>1
    <3> QED BY <1>5, <2>1, <3>1, <3>3, <3>4, MovedIs
  <2>2. CASE k = 0
    <3>1. d[p] = 0
      BY <2>2
    <3> HIDE DEF l, d, f
    <3>2. events'[p] = SubSeq(events[p], d[p] + 1, Len(events[p])) \o f[p]
      <4>1. SubSeq(events[p], d[p] + 1, Len(events[p])) = events[p]
        BY <1>5, <3>1, NoneLeaves
      <4>2. events'[p] = events[p] \o f[p]
        <5>1. k # 1
          BY <2>2
        <5> QED BY <1>3, <5>1, Zenon
      <4> QED BY <4>1, <4>2, Zenon
    <3>3. d[p] \in 0..Len(events[p])
      BY <1>5, <3>1
    <3>4. Moved(events[p], d[p], f[p], events'[p])
      BY <1>5, <3>2, <3>3, MovedIs
    <3> QED BY <2>2, <3>1, <3>3, <3>4
  <2> QED BY <2>1, <2>2
<1>7. n = 1 => Matches(request[1].point, f)
  <2> SUFFICES ASSUME n = 1 PROVE Matches(request[1].point, f)
    OBVIOUS
  <2>1. f = g
    OBVIOUS
  <2> QED BY <1>2, <2>1
<1> HIDE DEF d, f, g
<1>8. PortShape(k, n, d, f)
  BY <1>4, <1>5, <1>6, <1>7, Zenon DEF PortShape, l
<1> QED BY <1>8

-----------------------------------------------------------------------------
(* What such a step does to each part of the invariant.                    *)

\* r is q without its first d entries and with f at its end.
Entries(q, d, f, r) ==
  /\ Len(q) \in Nat /\ Len(f) \in Nat /\ d \in 0..Len(q)
  /\ Len(r) = Len(q) - d + Len(f)
  /\ \A i \in 1..Len(r) :
       \/ i + d \in 1..Len(q) /\ i + d > d /\ r[i] = q[i + d]
       \/ i - (Len(q) - d) \in 1..Len(f) /\ r[i] = f[i - (Len(q) - d)]

\* An entry of a port queue after a step is one that stayed, or a new one.
LEMMA EntryAfter ==
  ASSUME NEW k \in {0, 1}, NEW n \in {0, 1}, NEW d, NEW f, PortShape(k, n, d, f),
         NEW p \in Ports
  PROVE  Entries(events[p], d[p], f[p], events'[p])
<1> DEFINE L == Len(events[p])
           F == Len(f[p])
           D == d[p]
<1>1. L \in Nat /\ F \in Nat /\ D \in 0..L /\ Moved(events[p], D, f[p], events'[p])
  BY LenProperties DEF PortShape
<1>2. /\ Len(events'[p]) = L - D + F
      /\ \A i \in 1..(L - D) : events'[p][i] = events[p][i + D]
      /\ \A i \in 1..F : events'[p][L - D + i] = f[p][i]
  BY <1>1 DEF Moved
<1> HIDE DEF L, F, D
<1>3. ASSUME NEW i \in 1..(L - D + F)
      PROVE  \/ i + D \in 1..L /\ i + D > D /\ events'[p][i] = events[p][i + D]
             \/ i - (L - D) \in 1..F /\ events'[p][i] = f[p][i - (L - D)]
  <2>1. CASE i <= L - D
    <3>1. i \in 1..(L - D) /\ i + D \in 1..L /\ i + D > D
      BY <1>1, <2>1
    <3> QED BY <1>2, <3>1
  <2>2. CASE i > L - D
    <3> DEFINE j == i - (L - D)
    <3>1. j \in 1..F /\ L - D + j = i
      BY <1>1, <2>2
    <3> HIDE DEF j
    <3>2. events'[p][i] = f[p][j]
      BY <1>2, <3>1
    <3> QED BY <3>1, <3>2 DEF j
  <2> QED BY <1>1, <2>1, <2>2
<1> QED BY <1>1, <1>2, <1>3 DEF L, F, D, Entries

\* The port queues stay sorted, in the current epoch, within their capacity
\* and within the labels of the queued points.
LEMMA PortsStep ==
  ASSUME TcuInv, PortsInv, NEW k \in {0, 1}, NEW n \in {0, 1}, NEW h \in {0, 1},
         StepShape(k, n, h), NEW d, NEW f, PortShape(k, n, d, f), epoch' = epoch
  PROVE  PortsInv'
<1>1. /\ Len(timing) \in Nat /\ Len(timing') = Len(timing) - k + n
      /\ last_label \in Nat /\ last_label' = last_label + n
  <2>1. TypeOK
    BY DEF TcuInv
  <2>2. last_label \in Nat /\ last_label' = last_label + n
    BY <2>1 DEF TypeOK, StepShape
  <2> QED BY <2>1, <2>2, TimingStep
<1>2. events' \in [Ports -> Seq(Event)]
  <2>1. \A p \in Ports : events'[p] \in Seq(Event)
    BY DEF PortShape, Moved
  <2>2. events' = [p \in Ports |-> events'[p]]
    BY DEF PortShape
  <2> QED BY <2>1, <2>2
<1>3. ASSUME NEW p \in Ports
      PROVE  /\ Len(events'[p]) <= EventCapacity
             /\ \A i \in 1..Len(events'[p]) :
                  /\ events'[p][i].epoch = epoch'
                  /\ events'[p][i].label > last_label' - Len(timing')
                  /\ events'[p][i].label <= last_label'
                  /\ \A j \in 1..Len(events'[p]) :
                       i < j => events'[p][i].label <= events'[p][j].label
  <2> DEFINE e == events[p]
             w == events'[p]
             g == f[p]
             L == Len(events[p])
             D == d[p]
             S == Len(events[p]) - d[p]
  <2>1. /\ L \in Nat /\ Len(g) \in Nat /\ D \in 0..L /\ S \in Nat /\ S = L - D
        /\ Len(w) = L - D + Len(g)
        /\ \A i \in 1..Len(w) :
              \/ i + D \in 1..L /\ i + D > D /\ w[i] = e[i + D]
              \/ i - S \in 1..Len(g) /\ w[i] = g[i - S]
    <3>1. S = L - D
      OBVIOUS
    <3>2. /\ L \in Nat /\ Len(g) \in Nat /\ D \in 0..L
          /\ Len(w) = L - D + Len(g)
          /\ \A i \in 1..Len(w) :
                \/ i + D \in 1..L /\ i + D > D /\ w[i] = e[i + D]
                \/ i - S \in 1..Len(g) /\ w[i] = g[i - S]
      <4>1. Entries(events[p], d[p], f[p], events'[p])
        BY EntryAfter
      <4> QED BY <4>1 DEF Entries
    <3> HIDE DEF L, D, S, w, g, e
    <3>3. S \in Nat
      BY <3>1, <3>2
    <3> QED BY <3>1, <3>2, <3>3
  <2>2. /\ L + Len(g) <= EventCapacity
        /\ \A i \in 1..L : i <= D <=> (k = 1 /\ e[i].label = last_label - Len(timing) + 1)
        /\ \A i \in 1..Len(g) : n = 1 /\ g[i].epoch = epoch /\ g[i].label = last_label + 1
    BY DEF PortShape
  <2>3. \A i \in 1..L : /\ e[i].epoch = epoch
                        /\ e[i].label \in Nat
                        /\ e[i].label > last_label - Len(timing)
                        /\ e[i].label <= last_label
                        /\ \A j \in 1..L : i < j => e[i].label <= e[j].label
    <3>1. \A i \in 1..L : e[i] \in Event
      BY ElementOfSeq DEF PortsInv
    <3> QED BY <3>1 DEF PortsInv, Event
  <2> HIDE DEF e, w, g, L, D, S
  <2>4. Len(w) <= EventCapacity
    BY <2>1, <2>2, ProtocolAssumption
  <2>5. ASSUME NEW i \in 1..Len(w)
        PROVE  /\ w[i].epoch = epoch /\ w[i].label \in Nat
               /\ w[i].label > last_label + n - (Len(timing) - k + n)
               /\ w[i].label <= last_label + n
    <3>1. CASE i + D \in 1..L /\ i + D > D /\ w[i] = e[i + D]
      <4>1. /\ e[i + D].epoch = epoch /\ e[i + D].label \in Nat
            /\ e[i + D].label > last_label - Len(timing)
            /\ e[i + D].label <= last_label
            /\ k = 1 => e[i + D].label # last_label - Len(timing) + 1
        BY <2>1, <2>2, <2>3, <3>1
      <4> DEFINE z == e[i + D].label
      <4>2. w[i].label = z /\ w[i].epoch = e[i + D].epoch
        BY <3>1
      <4>3. /\ z \in Nat /\ z > last_label - Len(timing) /\ z <= last_label
            /\ k = 1 => z # last_label - Len(timing) + 1
        BY <4>1
      <4> HIDE DEF z
      <4>4. z > last_label + n - (Len(timing) - k + n) /\ z <= last_label + n
        BY <1>1, <4>3
      <4> QED BY <4>1, <4>2, <4>3, <4>4
    <3>2. CASE i - S \in 1..Len(g) /\ w[i] = g[i - S]
      <4>1. n = 1 /\ g[i - S].epoch = epoch /\ g[i - S].label = last_label + 1
        BY <2>2, <3>2
      <4>2. Len(timing) >= k
        BY TimingStep DEF TcuInv
      <4> QED BY <1>1, <3>2, <4>1, <4>2
    <3> QED BY <2>1, <3>1, <3>2
  <2>6. ASSUME NEW i \in 1..Len(w), NEW j \in 1..Len(w), i < j
        PROVE  w[i].label <= w[j].label
    <3>1. CASE j + D \in 1..L /\ w[j] = e[j + D]
      <4>1. i + D \in 1..L /\ w[i] = e[i + D] /\ i + D < j + D
        <5>1. ~(i - S \in 1..Len(g))
          <6>1. L \in Nat /\ D \in Nat /\ S = L - D /\ j \in Int /\ i \in Int
            BY <2>1
          <6>2. j + D <= L /\ i < j
            BY <2>6, <3>1
          <6>3. i - S < 1
            BY <6>1, <6>2
          <6> QED BY <6>1, <6>3
        <5>2. i + D < j + D
          BY <2>1, <2>6
        <5> QED BY <2>1, <5>1, <5>2
      <4> QED BY <2>3, <3>1, <4>1
    <3>2. CASE j - S \in 1..Len(g) /\ w[j] = g[j - S]
      <4>1. n = 1 /\ w[j].label = last_label + 1
        BY <2>2, <3>2
      <4>2. w[i].label \in Nat /\ w[i].label <= last_label + n
        BY <2>5
      <4> QED BY <1>1, <4>1, <4>2
    <3> QED BY <2>1, <3>1, <3>2
  <2>7. \A i \in 1..Len(w) : /\ w[i].epoch = epoch'
                             /\ w[i].label > last_label' - Len(timing')
                             /\ w[i].label <= last_label'
    BY <1>1, <2>5
  <2> QED BY <2>4, <2>6, <2>7 DEF w
<1> QED BY <1>2, <1>3 DEF PortsInv

\* Every queued point still finds the events its manifest lists.
LEMMA ManifestStep ==
  ASSUME TcuInv, PortsInv, ManifestInv, NEW k \in {0, 1}, NEW n \in {0, 1}, NEW h \in {0, 1},
         StepShape(k, n, h), NEW d, NEW f, PortShape(k, n, d, f)
  PROVE  ManifestInv'
<1>1. /\ Len(timing) \in Nat /\ Len(timing') = Len(timing) - k + n /\ Len(timing) >= k
      /\ \A i \in 1..(Len(timing) - k) : timing'[i] = timing[i + k]
      /\ n = 1 => timing'[Len(timing) - k + n].point = request[1].point
      /\ last_label \in Nat
  BY TimingStep DEF TcuInv, TypeOK
<1>2. \A i \in 1..Len(timing) : timing[i].point.label = last_label - Len(timing) + i
  BY DEF TcuInv, QueueInv
<1>3. ASSUME NEW i \in 1..(Len(timing) - k)
      PROVE  Matches(timing'[i].point, events')
  <2> DEFINE c == timing[i + k].point
             o == [p \in Ports |-> 0 - d[p]]
  <2>1. timing'[i] = timing[i + k] /\ i + k \in 1..Len(timing)
    BY <1>1
  <2>2. Matches(c, events)
    BY <2>1 DEF ManifestInv
  <2>3. c.label = last_label - Len(timing) + i + k /\ c.label \in Int
    <3> DEFINE j == i + k
    <3>1. j \in 1..Len(timing) /\ j = i + k
      BY <2>1
    <3> HIDE DEF j
    <3>2. timing[j].point.label = last_label - Len(timing) + j
      BY <1>2, <3>1
    <3> QED BY <1>1, <3>1, <3>2
  <2>4. c.label # last_label + 1 /\ (k = 1 => c.label # last_label - Len(timing) + 1)
    BY <1>1, <2>3
  <2> HIDE DEF c
  <2>5. ASSUME NEW p \in Ports
        PROVE  /\ Len(events[p]) \in Nat /\ Len(events'[p]) \in Nat /\ o[p] \in Int
               /\ \A x \in 1..Len(events[p]) : events[p][x].label = c.label =>
                    x + o[p] \in 1..Len(events'[p]) /\ events'[p][x + o[p]] = events[p][x]
               /\ \A y \in 1..Len(events'[p]) : events'[p][y].label = c.label =>
                    y - o[p] \in 1..Len(events[p]) /\ events[p][y - o[p]] = events'[p][y]
    <3> DEFINE L == Len(events[p])
               D == d[p]
               G == Len(f[p])
    <3>1. /\ L \in Nat /\ G \in Nat /\ D \in 0..L
          /\ Len(events'[p]) = L - D + G
          /\ \A y \in 1..Len(events'[p]) :
              \/ y + D \in 1..L /\ y + D > D /\ events'[p][y] = events[p][y + D]
              \/ y - (L - D) \in 1..G /\ events'[p][y] = f[p][y - (L - D)]
      <4>1. Entries(events[p], d[p], f[p], events'[p])
        BY EntryAfter
      <4> QED BY <4>1 DEF Entries
    <3>2. /\ \A x \in 1..L : x <= D <=> (k = 1 /\ events[p][x].label = last_label - Len(timing) + 1)
          /\ \A x \in 1..G : f[p][x].label = last_label + 1
          /\ \A x \in 1..(L - D) : events'[p][x] = events[p][x + D]
      BY DEF PortShape, Moved
    <3>3. o[p] = 0 - D
      OBVIOUS
    <3> HIDE DEF L, D, G, o
    <3>4. ASSUME NEW x \in 1..L, events[p][x].label = c.label
          PROVE  x + o[p] \in 1..Len(events'[p]) /\ events'[p][x + o[p]] = events[p][x]
      <4>1. ~(x <= D)
        BY <2>4, <3>2, <3>4
      <4> DEFINE z == x - D
      <4>2. z \in 1..(L - D) /\ z + D = x /\ z \in 1..Len(events'[p]) /\ x + o[p] = z
        BY <3>1, <3>3, <4>1
      <4> HIDE DEF z
      <4>3. events'[p][z] = events[p][x]
        BY <3>2, <4>2
      <4> QED BY <4>2, <4>3
    <3>5. ASSUME NEW y \in 1..Len(events'[p]), events'[p][y].label = c.label
          PROVE  y - o[p] \in 1..L /\ events[p][y - o[p]] = events'[p][y]
      <4>1. y - o[p] = y + D
        BY <3>1, <3>3
      <4>2. ~(y - (L - D) \in 1..G /\ events'[p][y] = f[p][y - (L - D)])
        BY <2>4, <3>2, <3>5
      <4>3. y + D \in 1..L /\ events'[p][y] = events[p][y + D]
        BY <3>1, <4>2
      <4> QED BY <4>1, <4>3
    <3>6. Len(events'[p]) \in Nat /\ o[p] \in Int
      BY <3>1, <3>3
    <3> QED BY <3>1, <3>4, <3>5, <3>6 DEF L
  <2>6. Carried(c.label, events, events', o)
    BY <2>5 DEF Carried
  <2>7. Matches(c, events')
    BY <2>2, <2>6, MatchesCarried
  <2> QED BY <2>1, <2>7 DEF c
<1>4. ASSUME n = 1
      PROVE  Matches(timing'[Len(timing) - k + n].point, events')
  <2> DEFINE c == request[1].point
             o == [p \in Ports |-> Len(events[p]) - d[p]]
  <2>1. Matches(c, f)
    BY <1>4 DEF PortShape
  <2>2. c.label = last_label + 1
    BY <1>4 DEF StepShape
  <2> HIDE DEF c
  <2>3. ASSUME NEW p \in Ports
        PROVE  /\ Len(f[p]) \in Nat /\ Len(events'[p]) \in Nat /\ o[p] \in Int
               /\ \A x \in 1..Len(f[p]) : f[p][x].label = c.label =>
                    x + o[p] \in 1..Len(events'[p]) /\ events'[p][x + o[p]] = f[p][x]
               /\ \A y \in 1..Len(events'[p]) : events'[p][y].label = c.label =>
                    y - o[p] \in 1..Len(f[p]) /\ f[p][y - o[p]] = events'[p][y]
    <3> DEFINE L == Len(events[p])
               D == d[p]
               G == Len(f[p])
    <3>1. /\ L \in Nat /\ G \in Nat /\ D \in 0..L
          /\ Len(events'[p]) = L - D + G
          /\ \A y \in 1..Len(events'[p]) :
              \/ y + D \in 1..L /\ y + D > D /\ events'[p][y] = events[p][y + D]
              \/ y - (L - D) \in 1..G /\ events'[p][y] = f[p][y - (L - D)]
      <4>1. Entries(events[p], d[p], f[p], events'[p])
        BY EntryAfter
      <4> QED BY <4>1 DEF Entries
    <3>2. \A x \in 1..G : events'[p][L - D + x] = f[p][x]
      BY DEF PortShape, Moved
    <3>3. \A x \in 1..L : events[p][x].label <= last_label /\ events[p][x].label \in Nat
      <4>1. \A x \in 1..L : events[p][x] \in Event
        BY ElementOfSeq DEF PortsInv
      <4> QED BY <4>1 DEF PortsInv, Event
    <3>4. o[p] = L - D
      OBVIOUS
    <3> HIDE DEF L, D, G, o
    <3>5. ASSUME NEW x \in 1..G
          PROVE  x + o[p] \in 1..Len(events'[p]) /\ events'[p][x + o[p]] = f[p][x]
      <4>1. x + o[p] = L - D + x /\ x + o[p] \in 1..Len(events'[p])
        BY <3>1, <3>4
      <4> QED BY <3>2, <4>1
    <3>6. ASSUME NEW y \in 1..Len(events'[p]), events'[p][y].label = c.label
          PROVE  y - o[p] \in 1..G /\ f[p][y - o[p]] = events'[p][y]
      <4>1. ~(y + D \in 1..L /\ events'[p][y] = events[p][y + D])
        <5> SUFFICES ASSUME y + D \in 1..L, events'[p][y] = events[p][y + D] PROVE FALSE
          OBVIOUS
        <5>1. events[p][y + D].label <= last_label
          BY <3>3
        <5>2. events[p][y + D].label = last_label + 1
          BY <2>2, <3>6
        <5> QED BY <1>1, <5>1, <5>2
      <4> QED BY <3>1, <3>4, <4>1
    <3>7. Len(events'[p]) \in Nat /\ o[p] \in Int
      BY <3>1, <3>4
    <3> QED BY <3>1, <3>5, <3>6, <3>7 DEF G
  <2>4. Carried(c.label, f, events', o)
    BY <2>3 DEF Carried
  <2>5. Matches(c, events')
    BY <2>1, <2>4, MatchesCarried
  <2> QED BY <1>1, <1>4, <2>5 DEF c
<1>5. \A i \in 1..Len(timing') : Matches(timing'[i].point, events')
  <2> TAKE i \in 1..Len(timing')
  <2>1. i \in 1..(Len(timing) - k) \/ (n = 1 /\ i = Len(timing) - k + n)
    BY <1>1
  <2> QED BY <1>3, <1>4, <2>1
<1> QED BY <1>5 DEF ManifestInv, Matches

\* Z marks positions of a queue of length L, and W the same entries once k have
\* left in front and n have come.
Slides(L, k, n, Z, W) ==
  /\ k <= L
  /\ Z \subseteq 1..L
  /\ W \subseteq 1..(L - k + n)
  /\ \A i \in 1..(L - k) : i \in W <=> i + k \in Z

\* Counting the marked entries of such a queue.
LEMMA CountShift ==
  ASSUME NEW L \in Nat, NEW k \in {0, 1}, NEW n \in {0, 1}, NEW Z, NEW W, Slides(L, k, n, Z, W)
  PROVE  /\ Cardinality(Z) \in Nat
         /\ Cardinality(W) = Cardinality(Z) - (IF k = 1 /\ 1 \in Z THEN 1 ELSE 0)
                                            + (IF n = 1 /\ L - k + n \in W THEN 1 ELSE 0)
<1> DEFINE x == L - k + 1
           V == W \ {x}
           Y == Z \ (IF k = 1 THEN {1} ELSE {})
           g == [i \in V |-> i + k]
<1> USE DEF Slides
<1>1. IsFiniteSet(Z) /\ IsFiniteSet(W)
  <2>1. IsFiniteSet(1..L) /\ IsFiniteSet(1..(L - k + n))
    BY FS_Interval
  <2> QED BY <2>1, FS_Subset
<1>2. V \subseteq 1..(L - k) /\ Y \subseteq Z
  OBVIOUS
<1>3. Cardinality(V) = Cardinality(Y) /\ IsFiniteSet(V)
  <2>1. IsFiniteSet(V)
    BY <1>1, FS_RemoveElement
  <2>2. \A i \in V : i + k \in Y /\ i \in 1..(L - k)
    OBVIOUS
  <2>3. \A y \in Y : y - k \in V /\ (y - k) + k = y
    <3> TAKE y \in Y
    <3>1. y \in Z /\ y \in 1..L /\ y > k
      OBVIOUS
    <3>2. y - k \in 1..(L - k) /\ (y - k) + k = y
      BY <3>1
    <3>3. y - k \in W /\ y - k # x
      BY <3>1, <3>2
    <3> QED BY <3>2, <3>3
  <2> HIDE DEF V, Y
  <2>4. g \in Bijection(V, Y)
    <3>1. g \in [V -> Y]
      BY <2>2
    <3>2. \A a, b \in V : g[a] = g[b] => a = b
      BY <2>2
    <3>3. \A y \in Y : \E a \in V : g[a] = y
      BY <2>3
    <3> QED BY <3>1, <3>2, <3>3 DEF Bijection, Injection, Surjection, IsInjective
  <2>5. ExistsBijection(V, Y)
    BY <2>4 DEF ExistsBijection
  <2> QED BY <2>1, <2>5, FS_Bijection
<1>4. Cardinality(Y) = Cardinality(Z) - (IF k = 1 /\ 1 \in Z THEN 1 ELSE 0)
  <2>1. Cardinality(Z) \in Nat
    BY <1>1, FS_CardinalityType
  <2>2. CASE k = 1
    <3>1. Y = Z \ {1}
      BY <2>2
    <3> HIDE DEF Y
    <3>2. Cardinality(Z \ {1}) = IF 1 \in Z THEN Cardinality(Z) - 1 ELSE Cardinality(Z)
      BY <1>1, FS_RemoveElement
    <3> QED BY <2>1, <2>2, <3>1, <3>2
  <2>3. CASE k = 0
    <3>1. Y = Z
      BY <2>3
    <3> HIDE DEF Y
    <3> QED BY <2>1, <2>3, <3>1
  <2> QED BY <2>2, <2>3
<1>5. Cardinality(W) = Cardinality(V) + (IF n = 1 /\ L - k + n \in W THEN 1 ELSE 0)
  <2>0. Cardinality(W) \in Nat
    BY <1>1, FS_CardinalityType
  <2>1. Cardinality(V) = IF x \in W THEN Cardinality(W) - 1 ELSE Cardinality(W)
    BY <1>1, FS_RemoveElement
  <2>2. x \in W <=> (n = 1 /\ L - k + n \in W)
    OBVIOUS
  <2> HIDE DEF V, x
  <2> QED BY <2>0, <2>1, <2>2
<1>6. Cardinality(Z) \in Nat
  BY <1>1, FS_CardinalityType
<1> QED BY <1>3, <1>4, <1>5, <1>6

\* sync_size_ still counts the synchronizations of the queued points.
LEMMA SyncStep ==
  ASSUME TcuInv, SyncInv, NEW k \in {0, 1}, NEW n \in {0, 1}, NEW h \in {0, 1},
         StepShape(k, n, h), Commits(k, n)
  PROVE  SyncInv'
<1> DEFINE L == Len(timing)
           Sy(i) == Len(timing[i].point.synchronizations)
           Sz(i) == Len(timing'[i].point.synchronizations)
           r == Len(request[1].point.synchronizations)
           Z == {i \in 1..L : Sy(i) = 1}
           W == {i \in 1..Len(timing') : Sz(i) = 1}
           last == L - k + n
<1>1. /\ L \in Nat /\ Len(timing') = L - k + n /\ L >= k
      /\ \A i \in 1..(L - k) : timing'[i] = timing[i + k]
      /\ n = 1 => timing'[L - k + n].point = request[1].point
  BY TimingStep DEF TcuInv
<1>2. \A i \in 1..L : Sy(i) \in Nat /\ Sy(i) <= 1
  <2>1. \A i \in 1..L : timing[i].point.synchronizations \in Seq(Nat)
    <3>1. \A i \in 1..L : timing[i] \in QueueEntry
      BY ElementOfSeq DEF TcuInv, TypeOK
    <3> QED BY <3>1 DEF QueueEntry, TimingPoint
  <2>2. \A i \in 1..L : Sy(i) \in Nat
    BY <2>1, LenProperties
  <2> QED BY <2>2 DEF SyncInv
<1>3. n = 1 => r \in Nat /\ r <= 1 /\ r <= SyncCapacity - sync_size /\ L < TimingCapacity
  <2> SUFFICES ASSUME n = 1
               PROVE  r \in Nat /\ r <= 1 /\ r <= SyncCapacity - sync_size /\ L < TimingCapacity
    OBVIOUS
  <2>1. request # <<>> /\ HasSpace(request[1]) /\ ValidTimingEvents(request[1])
    BY DEF Commits
  <2>2. request[1].point.synchronizations \in Seq(Nat)
    BY <2>1 DEF TcuInv, TypeOK, TimingPoint
  <2> QED BY <2>1, <2>2, LenProperties DEF HasSpace, ValidTimingEvents
<1>4. k = 1 => Len(Head(timing).point.synchronizations) = Sy(1) /\ L >= 1
  BY HeadLabel DEF StepShape, TcuInv
<1>5. sync_size' = sync_size - (IF k = 1 THEN Sy(1) ELSE 0) + (IF n = 1 THEN r ELSE 0)
  BY <1>4 DEF Commits, SyncSizeAfter
<1>6. sync_size = Cardinality(Z) /\ sync_size <= SyncCapacity /\ L <= TimingCapacity
  BY DEF SyncInv
<1>7. /\ \A i \in 1..(L - k) : Sz(i) = Sy(i + k) /\ i + k \in 1..L
      /\ n = 1 => Sz(last) = r
  BY <1>1
<1>8. \A i \in 1..(L - k + n) : Sz(i) \in Nat /\ Sz(i) <= 1
  <2> TAKE i \in 1..(L - k + n)
  <2>1. CASE i \in 1..(L - k)
    BY <1>2, <1>7, <2>1
  <2>2. CASE n = 1 /\ i = last
    BY <1>3, <1>7, <2>2
  <2> QED BY <1>1, <2>1, <2>2
<1> HIDE DEF L, Sy, Sz, r
<1>9. /\ Cardinality(Z) \in Nat
      /\ Cardinality(W) = Cardinality(Z) - (IF k = 1 /\ 1 \in Z THEN 1 ELSE 0)
                                         + (IF n = 1 /\ last \in W THEN 1 ELSE 0)
  <2>1. \A i \in 1..(L - k) : i \in W <=> i + k \in Z
    <3> TAKE i \in 1..(L - k)
    <3>1. i \in 1..Len(timing')
      BY <1>1
    <3> QED BY <1>7, <3>1
  <2>2. Z \subseteq 1..L /\ W \subseteq 1..(L - k + n) /\ k <= L
    BY <1>1
  <2>3. Slides(L, k, n, Z, W) /\ L \in Nat
    BY <1>1, <2>1, <2>2 DEF Slides
  <2> HIDE DEF Z, W
  <2> QED BY <2>3, CountShift
<1>10. k = 1 => (1 \in Z <=> Sy(1) = 1) /\ Sy(1) \in {0, 1}
  BY <1>2, <1>4
<1>11. n = 1 => (last \in W <=> r = 1) /\ r \in {0, 1}
  <2>1. n = 1 => last \in 1..Len(timing')
    BY <1>1
  <2> QED BY <1>3, <1>7, <2>1
<1> HIDE DEF Z, W
<1>12. sync_size' = Cardinality(W)
  BY <1>5, <1>6, <1>9, <1>10, <1>11
<1>13. sync_size' <= SyncCapacity
  BY <1>3, <1>5, <1>6, <1>9, <1>10, CapacityAssumption
<1>14. Len(timing') <= TimingCapacity
  BY <1>1, <1>3, <1>6, CapacityAssumption
<1> QED BY <1>1, <1>8, <1>12, <1>13, <1>14 DEF SyncInv, W, Sz

\* The manifest check of a trigger cannot fail.
LEMMA HeadManifest ==
  ASSUME TcuInv, PortsInv, ManifestInv, timing # <<>>
  PROVE  ManifestHolds(epoch)
<1> DEFINE c == Head(timing).point
           l == c.label
           m == c.manifest
           G == GatheredAt(l)
           id(x) == events[x[1]][x[2]].id
           ids == GatheredIds(l)
<1>1. /\ Len(timing) \in Nat /\ Len(timing) >= 1 /\ c = timing[1].point
      /\ l = last_label - Len(timing) + 1 /\ l \in Nat
  BY HeadLabel DEF TcuInv
<1>2. Matches(c, events)
  BY <1>1 DEF ManifestInv
<1>3. Len(m) \in Nat
  <2>1. c \in TimingPoint
    BY HeadDueType DEF TcuInv, QueueEntry
  <2> QED BY <2>1, LenProperties DEF TimingPoint
<1> HIDE DEF c
<1>4. ASSUME NEW p \in Ports
      PROVE  /\ events[p] \in Seq(Event) /\ Len(events[p]) \in Nat
             /\ Len(events[p]) <= EventCapacity
             /\ \A i \in 1..Len(events[p]) : events[p][i].epoch = epoch /\ events[p][i].label >= l
             /\ \A i \in 1..Len(events[p]) : events[p][i].label = l <=> i <= FrontRun(events[p], l)
             /\ FrontRun(events[p], l) \in 0..Len(events[p])
  <2>1. events[p] \in Seq(Event) /\ Len(events[p]) \in Nat /\ Len(events[p]) <= EventCapacity
    BY LenProperties DEF PortsInv
  <2>2. \A i \in 1..Len(events[p]) : events[p][i] \in Event
    BY <2>1, ElementOfSeq
  <2>3. \A i \in 1..Len(events[p]) : events[p][i].label > last_label - Len(timing) /\ events[p][i].label \in Nat
    BY <2>2 DEF PortsInv, Event
  <2>4. last_label \in Nat
    BY DEF TcuInv, TypeOK
  <2>5. \A i \in 1..Len(events[p]) : events[p][i].label >= l
    BY <1>1, <2>3, <2>4
  <2>6. \A i, j \in 1..Len(events[p]) : i < j => events[p][i].label <= events[p][j].label
    BY DEF PortsInv
  <2>7. \A i \in 1..Len(events[p]) : events[p][i].epoch = epoch
    BY DEF PortsInv
  <2> HIDE DEF l
  <2>8. /\ FrontRun(events[p], l) \in 0..Len(events[p])
        /\ \A i \in 1..Len(events[p]) : events[p][i].label = l <=> i <= FrontRun(events[p], l)
    BY <1>1, <2>1, <2>5, <2>6, FrontRunIs
  <2> QED BY <2>1, <2>5, <2>7, <2>8
<1>5. \A x : x \in G <=> \E p \in Ports : \E i \in 1..Len(events[p]) :
                            x = <<p, i>> /\ events[p][i].label = l
  <2> TAKE x
  <2>1. ASSUME x \in G
        PROVE  \E p \in Ports : \E i \in 1..Len(events[p]) : x = <<p, i>> /\ events[p][i].label = l
    <3>1. /\ x \in Ports \X (1..EventCapacity) /\ x[2] <= FrontRun(events[x[1]], l)
      BY <2>1 DEF GatheredAt
    <3>2. PICK p \in Ports, i \in 1..EventCapacity : x = <<p, i>>
      BY <3>1
    <3>3. i <= FrontRun(events[p], l)
      BY <3>1, <3>2
    <3>4. i \in 1..Len(events[p])
      BY <1>4, <3>3, ProtocolAssumption
    <3> QED BY <1>4, <3>2, <3>3, <3>4
  <2>2. ASSUME NEW p \in Ports, NEW i \in 1..Len(events[p]), x = <<p, i>>, events[p][i].label = l
        PROVE  x \in G
    <3>1. i \in 1..EventCapacity /\ i <= FrontRun(events[p], l)
      BY <1>4, <2>2, ProtocolAssumption
    <3> QED BY <2>2, <3>1 DEF GatheredAt
  <2> QED BY <2>1, <2>2
<1>6. ids = {id(x) : x \in G}
  BY DEF GatheredIds
<1> HIDE DEF G, ids
<1>7. /\ \A i \in 1..Len(m) : \E x \in G : id(x) = m[i]
      /\ \A x \in G : \E i \in 1..Len(m) : m[i] = id(x)
      /\ \A i, j \in 1..Len(m) : m[i] = m[j] => i = j
      /\ \A x, y \in G : id(x) = id(y) => x = y
  <2>1. ASSUME NEW i \in 1..Len(m) PROVE \E x \in G : id(x) = m[i]
    <3>1. PICK p \in Ports : \E j \in 1..Len(events[p]) : events[p][j].label = l /\ events[p][j].id = m[i]
      BY <1>2 DEF Matches
    <3>2. PICK j \in 1..Len(events[p]) : events[p][j].label = l /\ events[p][j].id = m[i]
      BY <3>1
    <3>3. <<p, j>> \in G
      BY <1>5, <3>2
    <3>4. id(<<p, j>>) = m[i]
      BY <3>2
    <3> QED BY <3>3, <3>4
  <2>2. ASSUME NEW x \in G PROVE \E i \in 1..Len(m) : m[i] = id(x)
    <3>0. PICK p \in Ports : \E j \in 1..Len(events[p]) : x = <<p, j>> /\ events[p][j].label = l
      BY <1>5
    <3>1. PICK j \in 1..Len(events[p]) : x = <<p, j>> /\ events[p][j].label = l
      BY <3>0
    <3>2. id(x) = events[p][j].id
      BY <3>1
    <3> QED BY <1>2, <3>1, <3>2 DEF Matches
  <2>3. \A i, j \in 1..Len(m) : m[i] = m[j] => i = j
    BY <1>2 DEF Matches
  <2>4. ASSUME NEW x \in G, NEW y \in G, id(x) = id(y) PROVE x = y
    <3>a. PICK p \in Ports : \E i \in 1..Len(events[p]) : x = <<p, i>> /\ events[p][i].label = l
      BY <1>5
    <3>b. PICK q \in Ports : \E j \in 1..Len(events[q]) : y = <<q, j>> /\ events[q][j].label = l
      BY <1>5
    <3>1. PICK i \in 1..Len(events[p]) : x = <<p, i>> /\ events[p][i].label = l
      BY <3>a
    <3>2. PICK j \in 1..Len(events[q]) : y = <<q, j>> /\ events[q][j].label = l
      BY <3>b
    <3>3. id(x) = events[p][i].id /\ id(y) = events[q][j].id
      BY <3>1, <3>2
    <3>4. p = q /\ i = j
      <4>1. events[p][i].id = events[q][j].id
        BY <2>4, <3>3
      <4> QED BY <1>2, <3>1, <3>2, <4>1 DEF Matches
    <3> QED BY <3>1, <3>2, <3>4
  <2> QED BY <2>1, <2>2, <2>3, <2>4
<1> HIDE DEF id, m, l
<1>8. Cardinality(G) = Len(m)
  <2> DEFINE g == [i \in 1..Len(m) |-> CHOOSE x \in G : id(x) = m[i]]
  <2>1. \A i \in 1..Len(m) : g[i] \in G /\ id(g[i]) = m[i]
    BY <1>7
  <2>2. g \in [1..Len(m) -> G]
    BY <2>1
  <2> HIDE DEF g
  <2>3. \A i, j \in 1..Len(m) : g[i] = g[j] => i = j
    BY <1>7, <2>1
  <2>4. \A x \in G : \E i \in 1..Len(m) : g[i] = x
    BY <1>7, <2>1
  <2>5. g \in Bijection(1..Len(m), G)
    BY <2>2, <2>3, <2>4 DEF Bijection, Injection, Surjection, IsInjective
  <2> QED BY <1>3, <2>5, FS_CountingElements DEF ExistsBijection
<1>9. Cardinality(ids) = Len(m)
  <2> DEFINE g == [i \in 1..Len(m) |-> m[i]]
  <2>1. \A i \in 1..Len(m) : g[i] = m[i] /\ m[i] \in ids
    BY <1>6, <1>7
  <2>2. g \in [1..Len(m) -> ids]
    BY <2>1
  <2> HIDE DEF g
  <2>3. \A i, j \in 1..Len(m) : g[i] = g[j] => i = j
    BY <1>7, <2>1
  <2>4. \A x \in ids : \E i \in 1..Len(m) : g[i] = x
    BY <1>6, <1>7, <2>1
  <2>5. g \in Bijection(1..Len(m), ids)
    BY <2>2, <2>3, <2>4 DEF Bijection, Injection, Surjection, IsInjective
  <2> QED BY <1>3, <2>5, FS_CountingElements DEF ExistsBijection
<1>10. \A p \in Ports : events[p] = <<>> \/ Head(events[p]).label >= l
  <2> SUFFICES ASSUME NEW p \in Ports, events[p] # <<>> PROVE Head(events[p]).label >= l
    OBVIOUS
  <2>1. Len(events[p]) # 0 /\ Head(events[p]) = events[p][1]
    BY <1>4, EmptyByLength
  <2> QED BY <1>4, <2>1
<1>11. \A x \in G : events[x[1]][x[2]].epoch = epoch
  BY <1>4, <1>5
<1>12. \A i \in 1..Len(m) : m[i] \in ids
  BY <1>6, <1>7
<1> QED BY <1>8, <1>9, <1>10, <1>11, <1>12 DEF ManifestHolds, G, ids, m, l, c

-----------------------------------------------------------------------------
(* The invariant, one lemma per action.                                    *)

\* The inductive invariant of the queues.
QueuesInv ==
  /\ TcuInv
  /\ RequestInv
  /\ PortsInv
  /\ ManifestInv
  /\ SyncInv
  /\ fault # "ManifestMismatch"

\* A step that touches no queue keeps what is known of them.
LEMMA QueuesFrame ==
  ASSUME QueuesInv, UNCHANGED <<timing, events, sync_size, last_label, epoch>>
  PROVE  PortsInv' /\ ManifestInv' /\ SyncInv'
<1>1. PortsInv'
  BY DEF QueuesInv, PortsInv
<1>2. ManifestInv'
  <2>1. \A k \in 1..Len(timing) : Matches(timing[k].point, events)
    BY DEF QueuesInv, ManifestInv
  <2>2. \A k \in 1..Len(timing') : Matches(timing'[k].point, events')
    BY <2>1
  <2> QED BY <2>2 DEF ManifestInv, Matches
<1>3. SyncInv'
  BY DEF QueuesInv, SyncInv
<1> QED BY <1>1, <1>2, <1>3

\* The events of a request that the control side builds are well typed.
LEMMA RequestEvents ==
  ASSUME TypeOK, NEW interval, NEW policy, NEW list \in EventChoices, NEW syncs
  PROVE  RequestOf(interval, policy, list, syncs).events \in Seq(Event)
<1> DEFINE e(i) == [epoch |-> epoch, id |-> (last_label + 1) * StagingCapacity + i,
                    label |-> last_label + 1, port |-> list[i].port,
                    flag |-> list[i].flag, target |-> list[i].target]
           E == [i \in 1..Len(list) |-> e(i)]
           Choice == [port : Ports, flag : ExecutionFlag, target : Qubits]
<1>1. list \in Seq(Choice) /\ Len(list) \in Nat
  BY OpenAssumption, LenProperties
<1>2. \A i \in 1..Len(list) : list[i] \in Choice
  BY <1>1, ElementOfSeq
<1>3. epoch \in Nat /\ last_label + 1 \in Nat /\ (last_label + 1) * StagingCapacity \in Nat
  BY ProtocolAssumption DEF TypeOK
<1>4. ASSUME NEW i \in 1..Len(list) PROVE e(i) \in Event
  <2>1. (last_label + 1) * StagingCapacity + i \in Nat
    BY <1>1, <1>3
  <2>2. list[i].port \in Ports /\ list[i].flag \in ExecutionFlag /\ list[i].target \in Qubits
    BY <1>2
  <2> QED BY <1>3, <2>1, <2>2 DEF Event
<1>5. E \in Seq(Event)
  <2> HIDE DEF e
  <2>1. E \in [1..Len(list) -> Event]
    BY <1>4
  <2> QED BY <1>1, <2>1, SeqDef
<1>6. RequestOf(interval, policy, list, syncs).events = E
  BY DEF RequestOf
<1> QED BY <1>5, <1>6

\* A request on the link changes no queue.
LEMMA SubmitKeepsQueues ==
  ASSUME QueuesInv, Submit
  PROVE  QueuesInv'
<1>1. UNCHANGED <<timing, events, sync_size, last_label, epoch, fault>>
  BY DEF Submit, tcuVars, queueVars
<1>2. TcuInv'
  BY SubmitKeeps DEF QueuesInv
<1>3. RequestInv'
  <2>1. PICK interval \in 0..MaxInterval, list \in EventChoices, syncs \in SyncChoices :
          \E policy \in PolicyChoices(interval) :
            request' = <<RequestOf(interval, policy, list, syncs)>>
    BY DEF Submit
  <2>2. PICK policy \in PolicyChoices(interval) :
          request' = <<RequestOf(interval, policy, list, syncs)>>
    BY <2>1
  <2>3. RequestOf(interval, policy, list, syncs).events \in Seq(Event)
    BY RequestEvents DEF QueuesInv, TcuInv
  <2>4. request'[1].events \in Seq(Event)
    BY <2>2, <2>3
  <2> QED BY <2>4 DEF RequestInv
<1> QED BY <1>1, <1>2, <1>3, QueuesFrame DEF QueuesInv

\* An edge keeps the invariant, whether it passes its checks or not.
LEMMA EdgeKeepsQueues ==
  ASSUME QueuesInv, Edge
  PROVE  QueuesInv'
<1>1. PICK results \in ResultChoices, refusal \in {"None", "Preflight"}, sync_paused \in BOOLEAN :
        \/ /\ Step(edge, epoch, request, results, refusal, sync_paused)
           /\ request' = IF output'.admitted THEN <<>> ELSE request
           /\ UNCHANGED <<closed, fault, epoch>>
        \/ /\ Refuse(StepFault(edge, epoch, request, results, refusal, sync_paused))
           /\ UNCHANGED envVars
  BY DEF Edge
<1>2. TcuInv'
  BY EdgeKeeps DEF QueuesInv
<1>3. CASE /\ Step(edge, epoch, request, results, refusal, sync_paused)
           /\ request' = IF output'.admitted THEN <<>> ELSE request
           /\ UNCHANGED <<closed, fault, epoch>>
  <2>1. PICK k, n, h \in {0, 1} : StepShape(k, n, h) /\ Commits(k, n)
    BY <1>3, EdgeCommits DEF QueuesInv
  <2>2. PICK d, f : PortShape(k, n, d, f)
    BY <2>1, EdgePorts DEF QueuesInv
  <2>3. PortsInv'
    BY <1>3, <2>1, <2>2, PortsStep DEF QueuesInv
  <2>4. ManifestInv'
    BY <2>1, <2>2, ManifestStep DEF QueuesInv
  <2>5. SyncInv'
    BY <2>1, SyncStep DEF QueuesInv
  <2>6. RequestInv'
    BY <1>3 DEF QueuesInv, RequestInv
  <2> QED BY <1>2, <1>3, <2>3, <2>4, <2>5, <2>6 DEF QueuesInv
<1>4. CASE /\ Refuse(StepFault(edge, epoch, request, results, refusal, sync_paused))
           /\ UNCHANGED envVars
  <2>1. /\ UNCHANGED <<timing, events, sync_size, last_label, epoch, request>>
        /\ fault' = StepFault(edge, epoch, request, results, refusal, sync_paused)
    BY <1>4 DEF Refuse, queueVars, envVars
  <2>2. fault' # "ManifestMismatch"
    <3> DEFINE state == CurrentTimingState(edge, sync_paused)
               trigger == TriggerFault(epoch, state, refusal)
    <3>1. trigger # "ManifestMismatch"
      <4>1. Triggers(state) => ManifestHolds(epoch)
        BY HeadManifest DEF Triggers, QueuesInv
      <4> HIDE DEF state
      <4> QED BY <4>1 DEF TriggerFault
    <3>2. request # <<>> => AdmissionFault(edge, epoch, request[1], state) # "ManifestMismatch"
      BY DEF AdmissionFault
    <3> HIDE DEF state, trigger
    <3>3. fault' \in {trigger, "FastResultOrder", "None"}
            \/ /\ request # <<>>
               /\ fault' = AdmissionFault(edge, epoch, request[1], state)
      BY <2>1 DEF StepFault, state, trigger
    <3> QED BY <3>1, <3>2, <3>3
  <2>3. RequestInv'
    BY <2>1 DEF QueuesInv, RequestInv
  <2> QED BY <1>2, <2>1, <2>2, <2>3, QueuesFrame DEF QueuesInv
<1> QED BY <1>1, <1>3, <1>4

\* The end of the stream changes no queue.
LEMMA EndKeepsQueues ==
  ASSUME QueuesInv, EndOfStream
  PROVE  QueuesInv'
<1>1. UNCHANGED <<timing, events, sync_size, last_label, epoch, fault, request>>
  BY DEF EndOfStream, queueVars, envVars
<1>2. TcuInv' /\ RequestInv'
  BY <1>1, EndKeeps DEF QueuesInv, RequestInv
<1> QED BY <1>1, <1>2, QueuesFrame DEF QueuesInv

\* Neither does a stuttering step.
LEMMA StutterKeepsQueues ==
  ASSUME QueuesInv, UNCHANGED vars
  PROVE  QueuesInv'
<1>1. UNCHANGED <<timing, events, sync_size, last_label, epoch, fault, request>>
  BY DEF vars, tcuVars, queueVars, envVars
<1>2. TcuInv' /\ RequestInv'
  BY <1>1, StutterKeeps DEF QueuesInv, RequestInv
<1> QED BY <1>1, <1>2, QueuesFrame DEF QueuesInv

\* Empty queues satisfy the invariant.
LEMMA EmptyQueues ==
  ASSUME NEW t, t = <<>>, NEW ev, ev = [p \in Ports |-> <<>>]
  PROVE  /\ Len(t) = 0
         /\ ev \in [Ports -> Seq(Event)]
         /\ \A p \in Ports : Len(ev[p]) = 0
         /\ Cardinality({k \in 1..Len(t) : Len(t[k].point.synchronizations) = 1}) = 0
         /\ 0 <= SyncCapacity /\ 0 <= TimingCapacity /\ 0 <= EventCapacity
<1>1. Len(t) = 0
  OBVIOUS
<1>2. {k \in 1..Len(t) : Len(t[k].point.synchronizations) = 1} = {}
  BY <1>1
<1>3. ev \in [Ports -> Seq(Event)] /\ \A p \in Ports : Len(ev[p]) = 0
  OBVIOUS
<1> QED BY <1>1, <1>2, <1>3, FS_EmptySet, CapacityAssumption, ProtocolAssumption

\* A reset empties the queues.
LEMMA ResetKeepsQueues ==
  ASSUME QueuesInv, Reset
  PROVE  QueuesInv'
<1>1. /\ timing' = <<>> /\ events' = [p \in Ports |-> <<>>] /\ sync_size' = 0
      /\ request' = <<>> /\ fault' = "None"
  BY DEF Reset, ResetTcu
<1>2. TcuInv'
  BY ResetKeeps DEF QueuesInv
<1>3. /\ Len(timing') = 0
      /\ events' \in [Ports -> Seq(Event)]
      /\ \A p \in Ports : Len(events'[p]) = 0
      /\ Cardinality({k \in 1..Len(timing') : Len(timing'[k].point.synchronizations) = 1}) = 0
      /\ 0 <= SyncCapacity /\ 0 <= TimingCapacity /\ 0 <= EventCapacity
  BY <1>1, EmptyQueues
<1>4. RequestInv' /\ PortsInv' /\ ManifestInv' /\ SyncInv'
  BY <1>1, <1>3 DEF RequestInv, PortsInv, ManifestInv, SyncInv
<1> QED BY <1>1, <1>2, <1>4 DEF QueuesInv

-----------------------------------------------------------------------------
(* The theorems.                                                           *)

\* In every reachable state the port queues hold, sorted by label and within
\* their capacity, exactly the events that the manifests of the queued points
\* list, and sync_size_ counts their synchronizations (prepare_admission,
\* prepare_trigger and commit of TcuCycleModel).
THEOREM QueuesInvariant == Spec => []QueuesInv
<1>1. ASSUME Init PROVE QueuesInv
  <2>1. /\ timing = <<>> /\ events = [p \in Ports |-> <<>>] /\ sync_size = 0
        /\ request = <<>> /\ fault = "None"
    BY <1>1 DEF Init, TcuInit
  <2>2. TcuInv
    <3>1. /\ start \in Nat /\ paused = 0 /\ last_label = 0 /\ last_due = 0
          /\ closed = FALSE /\ admitted_policy = "Strict" /\ triggered_policy = "Strict"
          /\ edge \in Nat /\ epoch \in Nat
      BY <1>1, OpenAssumption DEF Init, TcuInit
    <3> QED BY <2>1, <3>1, FreshInv
  <2>3. /\ Len(timing) = 0
        /\ events \in [Ports -> Seq(Event)]
        /\ \A p \in Ports : Len(events[p]) = 0
        /\ Cardinality({k \in 1..Len(timing) : Len(timing[k].point.synchronizations) = 1}) = 0
        /\ 0 <= SyncCapacity /\ 0 <= TimingCapacity /\ 0 <= EventCapacity
    BY <2>1, EmptyQueues
  <2>4. RequestInv /\ PortsInv /\ ManifestInv /\ SyncInv
    BY <2>1, <2>3 DEF RequestInv, PortsInv, ManifestInv, SyncInv
  <2> QED BY <2>1, <2>2, <2>4 DEF QueuesInv
<1>2. QueuesInv /\ [Next]_vars => QueuesInv'
  BY SubmitKeepsQueues, EdgeKeepsQueues, EndKeepsQueues, ResetKeepsQueues, StutterKeepsQueues
     DEF Next
<1> QED BY <1>1, <1>2, PTL DEF Spec

\* The manifest checks of prepare_trigger can never fail and the subtractions of
\* prepare_admission never wrap around: the queues match the manifests, the
\* counts are exact and no queue exceeds its limit.
THEOREM ManifestsAlwaysMatch == Spec => []PortQueuesMatchManifests
<1>1. QueuesInv => PortQueuesMatchManifests
  <2> SUFFICES ASSUME QueuesInv PROVE PortQueuesMatchManifests
    OBVIOUS
  <2> USE DEF QueuesInv
  <2>0. /\ Len(timing) \in Nat /\ last_label \in Nat /\ Len(timing) <= TimingCapacity
        /\ \A p \in Ports : /\ events[p] \in Seq(Event) /\ Len(events[p]) \in Nat
                            /\ Len(events[p]) <= EventCapacity
    BY LenProperties DEF TcuInv, TypeOK, PortsInv, SyncInv
  <2>1. ASSUME NEW k \in 1..Len(timing)
        PROVE  LET point == timing[k].point
               IN  {point.manifest[i] : i \in 1..Len(point.manifest)} =
                   {events[x[1]][x[2]].id :
                      x \in {y \in Ports \X (1..EventCapacity) :
                                /\ y[2] <= Len(events[y[1]])
                                /\ events[y[1]][y[2]].label = point.label}}
    <3> DEFINE point == timing[k].point
    <3> DEFINE G == {y \in Ports \X (1..EventCapacity) :
                        /\ y[2] <= Len(events[y[1]])
                        /\ events[y[1]][y[2]].label = point.label}
               m == point.manifest
    <3>1. Matches(point, events)
      BY <2>1 DEF ManifestInv
    <3> HIDE DEF point
    <3>2. \A i \in 1..Len(m) : \E x \in G : m[i] = events[x[1]][x[2]].id
      <4> TAKE i \in 1..Len(m)
      <4>1. PICK p \in Ports : \E j \in 1..Len(events[p]) :
              events[p][j].label = point.label /\ events[p][j].id = m[i]
        BY <3>1 DEF Matches
      <4>2. PICK j \in 1..Len(events[p]) : events[p][j].label = point.label /\ events[p][j].id = m[i]
        BY <4>1
      <4>3. j \in 1..EventCapacity /\ j <= Len(events[p])
        BY <2>0, ProtocolAssumption
      <4>4. <<p, j>> \in G
        BY <4>2, <4>3
      <4>5. events[<<p, j>>[1]][<<p, j>>[2]].id = m[i]
        BY <4>2
      <4> HIDE DEF G
      <4> QED BY <4>4, <4>5
    <3>3. \A x \in G : \E i \in 1..Len(m) : m[i] = events[x[1]][x[2]].id
      <4> TAKE x \in G
      <4>1. PICK p \in Ports, j \in 1..EventCapacity : x = <<p, j>>
        OBVIOUS
      <4>2. j <= Len(events[p]) /\ events[p][j].label = point.label
        BY <4>1
      <4>3. j \in 1..Len(events[p])
        BY <2>0, <4>2
      <4>4. \E i \in 1..Len(m) : m[i] = events[p][j].id
        BY <3>1, <4>2, <4>3 DEF Matches
      <4> QED BY <4>1, <4>4
    <3> HIDE DEF G, m
    <3>4. {m[i] : i \in 1..Len(m)} = {events[x[1]][x[2]].id : x \in G}
      <4> DEFINE A == {m[i] : i \in 1..Len(m)}
                 B == {events[x[1]][x[2]].id : x \in G}
      <4>1. ASSUME NEW z \in A PROVE z \in B
        BY <3>2
      <4>2. ASSUME NEW z \in B PROVE z \in A
        BY <3>3
      <4> HIDE DEF A, B
      <4>3. A = B
        BY <4>1, <4>2
      <4> QED BY <4>3 DEF A, B
    <3> QED BY <3>4 DEF G, m, point
  <2>2. ASSUME NEW p \in Ports, NEW i \in 1..Len(events[p])
        PROVE  /\ \E k \in 1..Len(timing) : timing[k].point.label = events[p][i].label
               /\ i > 1 => events[p][i - 1].label <= events[p][i].label
    <3>1. /\ events[p][i].label > last_label - Len(timing)
          /\ events[p][i].label <= last_label
          /\ events[p][i].label \in Nat
      <4>1. events[p][i] \in Event
        BY <2>0, ElementOfSeq
      <4> QED BY <4>1 DEF PortsInv, Event
    <3> DEFINE k == events[p][i].label - (last_label - Len(timing))
    <3>2. k \in 1..Len(timing) /\ last_label - Len(timing) + k = events[p][i].label
      BY <2>0, <3>1
    <3> HIDE DEF k
    <3>3. timing[k].point.label = last_label - Len(timing) + k
      BY <3>2 DEF TcuInv, QueueInv
    <3>4. i > 1 => i - 1 \in 1..Len(events[p]) /\ i - 1 < i
      BY <2>0
    <3>5. i > 1 => events[p][i - 1].label <= events[p][i].label
      BY <3>4 DEF PortsInv
    <3> QED BY <3>2, <3>3, <3>5
  <2>3. sync_size = Cardinality({x \in (1..TimingCapacity) \X (1..SyncCapacity) :
                                   /\ x[1] <= Len(timing)
                                   /\ x[2] <= Len(timing[x[1]].point.synchronizations)})
    <3> DEFINE Z == {k \in 1..Len(timing) : Len(timing[k].point.synchronizations) = 1}
               X == {x \in (1..TimingCapacity) \X (1..SyncCapacity) :
                                   /\ x[1] <= Len(timing)
                                   /\ x[2] <= Len(timing[x[1]].point.synchronizations)}
               g == [k \in Z |-> <<k, 1>>]
    <3>1. IsFiniteSet(Z)
      <4>1. IsFiniteSet(1..Len(timing)) /\ Z \subseteq 1..Len(timing)
        BY <2>0, FS_Interval
      <4> QED BY <4>1, FS_Subset
    <3>2. ASSUME NEW k \in Z PROVE <<k, 1>> \in X
      <4>1. k \in 1..TimingCapacity /\ k <= Len(timing) /\ 1 \in 1..SyncCapacity
        BY <2>0, CapacityAssumption
      <4>2. Len(timing[k].point.synchronizations) = 1
        OBVIOUS
      <4>3. <<k, 1>> \in (1..TimingCapacity) \X (1..SyncCapacity)
        BY <4>1
      <4>4. <<k, 1>>[1] = k /\ <<k, 1>>[2] = 1
        OBVIOUS
      <4> HIDE DEF Z
      <4>5. <<k, 1>>[1] <= Len(timing) /\ <<k, 1>>[2] <= Len(timing[<<k, 1>>[1]].point.synchronizations)
        <5>1. 1 <= Len(timing[k].point.synchronizations)
          BY <4>2
        <5> QED BY <4>1, <4>4, <5>1
      <4> QED BY <4>3, <4>5
    <3>3. ASSUME NEW x \in X PROVE \E k \in Z : x = <<k, 1>>
      <4>1. PICK k \in 1..TimingCapacity, j \in 1..SyncCapacity : x = <<k, j>>
        OBVIOUS
      <4>2. k <= Len(timing) /\ j <= Len(timing[k].point.synchronizations)
        BY <4>1
      <4>3. k \in 1..Len(timing)
        BY <2>0, <4>2, CapacityAssumption
      <4>4. Len(timing[k].point.synchronizations) \in Nat /\ Len(timing[k].point.synchronizations) <= 1
        <5>1. timing[k] \in QueueEntry
          BY <4>3, ElementOfSeq DEF TcuInv, TypeOK
        <5>2. timing[k].point.synchronizations \in Seq(Nat)
          BY <5>1 DEF QueueEntry, TimingPoint
        <5> QED BY <4>3, <5>2, LenProperties DEF SyncInv
      <4>5. j = 1 /\ Len(timing[k].point.synchronizations) = 1
        <5> DEFINE s == Len(timing[k].point.synchronizations)
        <5>1. s \in Nat /\ s <= 1 /\ j <= s
          BY <4>2, <4>4
        <5> HIDE DEF s
        <5>2. j \in Nat /\ j >= 1
          BY CapacityAssumption
        <5>3. j = 1 /\ s = 1
          BY <5>1, <5>2
        <5> QED BY <5>3 DEF s
      <4> QED BY <4>1, <4>3, <4>5
    <3> HIDE DEF Z, X
    <3>4. g \in Bijection(Z, X)
      <4>1. g \in [Z -> X] /\ \A k \in Z : g[k] = <<k, 1>>
        BY <3>2
      <4> HIDE DEF g
      <4>2. \A a, b \in Z : g[a] = g[b] => a = b
        BY <4>1
      <4>3. \A x \in X : \E k \in Z : g[k] = x
        BY <3>3, <4>1
      <4> QED BY <4>1, <4>2, <4>3 DEF Bijection, Injection, Surjection, IsInjective
    <3>5. Cardinality(X) = Cardinality(Z)
      BY <3>1, <3>4, FS_Bijection DEF ExistsBijection
    <3>6. sync_size = Cardinality(Z)
      BY DEF SyncInv, Z
    <3> QED BY <3>5, <3>6 DEF X
  <2>4. sync_size <= SyncCapacity /\ fault # "ManifestMismatch"
    BY DEF SyncInv
  <2> HIDE DEF QueuesInv
  <2>5. \A p \in Ports : \A i \in 1..Len(events[p]) :
          /\ \E k \in 1..Len(timing) : timing[k].point.label = events[p][i].label
          /\ i > 1 => events[p][i - 1].label <= events[p][i].label
    BY <2>2, Zenon
  <2>6. Len(timing) <= TimingCapacity /\ \A p \in Ports : Len(events[p]) <= EventCapacity
    BY <2>0, Zenon
  <2> QED BY <2>1, <2>3, <2>4, <2>5, <2>6, Zenon DEF PortQueuesMatchManifests
<1> QED BY <1>1, QueuesInvariant, PTL

\* Once the stream is closed and the timer has passed the last due cycle, the
\* queues are empty, so drained() is true.
THEOREM QueuesDrain == Spec => []DrainsWithTheTimeline
<1>1. QueuesInv => DrainsWithTheTimeline
  <2> SUFFICES ASSUME QueuesInv, closed, last_label = 0 \/ Cycle(edge) > last_due
               PROVE  TcuDrained
    BY DEF DrainsWithTheTimeline
  <2>0. /\ timing \in Seq(QueueEntry) /\ Len(timing) \in Nat /\ last_label \in Nat
        /\ last_due \in Nat /\ Cycle(edge) \in Nat
    BY LenProperties, CycleType DEF QueuesInv, TcuInv, TypeOK
  <2>1. Len(timing) = 0
    <3> SUFFICES ASSUME Len(timing) >= 1 PROVE FALSE
      BY <2>0
    <3>1. Len(timing) \in 1..Len(timing) /\ Len(timing) <= last_label
      BY <2>0 DEF QueuesInv, TcuInv, QueueInv
    <3>2. timing[Len(timing)].due >= Cycle(edge) /\ timing[Len(timing)].due = last_due
      BY <3>1 DEF QueuesInv, TcuInv, QueueInv
    <3> QED BY <2>0, <3>1, <3>2
  <2>2. timing = <<>>
    BY <2>0, <2>1, EmptyByLength
  <2>3. ASSUME NEW p \in Ports PROVE events[p] = <<>>
    <3>1. events[p] \in Seq(Event) /\ Len(events[p]) \in Nat
      BY LenProperties DEF QueuesInv, PortsInv
    <3>2. Len(events[p]) = 0
      <4> SUFFICES ASSUME Len(events[p]) >= 1 PROVE FALSE
        BY <3>1
      <4>1. 1 \in 1..Len(events[p])
        BY <3>1
      <4>2. events[p][1].label \in Nat
        <5>1. events[p][1] \in Event
          BY <3>1, <4>1, ElementOfSeq
        <5> QED BY <5>1 DEF Event
      <4>3. events[p][1].label > last_label - Len(timing) /\ events[p][1].label <= last_label
        BY <4>1 DEF QueuesInv, PortsInv
      <4> QED BY <2>0, <2>1, <4>2, <4>3
    <3> QED BY <3>1, <3>2, EmptyByLength
  <2> QED BY <2>2, <2>3 DEF TcuDrained
<1> QED BY <1>1, QueuesInvariant, PTL
=============================================================================
