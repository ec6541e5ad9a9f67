----------------------------- MODULE SyncProofs -----------------------------
(***************************************************************************)
(* Proofs about neighbour synchronization, for any number of cores, any    *)
(* symmetric topology, any positive delays and any order of the cores.     *)
(*                                                                         *)
(* The argument is about pairs of neighbours.  Between edges two           *)
(* neighbours are even; within an edge the one that runs first may         *)
(* complete a meeting and even book the next one before the other runs, so *)
(* it is one meeting ahead until the other has run.  A link then holds at  *)
(* most two signals.  The lemmas about a pair take the state of the pair   *)
(* as parameters: units ua and ub of cores a and b, links sab and sba,     *)
(* histories mab and mba, and ca and cb, the edges at which the cores ran  *)
(* last.                                                                   *)
(*                                                                         *)
(* The second half proves that the order of the cores within an edge does  *)
(* not matter.  Both simulations are compared with a third description of  *)
(* the edge, in which all the cores that have run did so at once from the  *)
(* state at its beginning.  A core that has not run finds its unit, the    *)
(* signals it can receive and the slots it may fill as they were then,     *)
(* whoever ran before it; and on a link receive and send commute.  The     *)
(* invariant gives what this needs of the links when an edge begins.       *)
(***************************************************************************)
EXTENDS SyncOrder, SequenceTheorems, TLAPS

-----------------------------------------------------------------------------
(* The inductive invariant.                                                *)

\* Types.  Only a run that was not refused needs them.
Signal  == [arrival : Int, consumed : {<<>>} \cup {<<e>> : e \in Int}]
Booking == [target : Cores, deadline : Int, received : BOOLEAN]
Unit    == {<<>>} \cup {<<b>> : b \in Booking}
Meeting == [tick : Int, deadline : Int]

\* The last edge at which core c has run, when the cores D have run at edge n.
Clk(D, n, c) == IF c \in D THEN n ELSE n - 1

\* A unit that holds a booking with t, and one that has t's signal for it.
BookedWith(unit, t)   == unit # <<>> /\ unit[1].target = t
ReceivedFrom(unit, t) == BookedWith(unit, t) /\ unit[1].received

\* The last signal of a link waits for its receiver; so does the one before it.
LastOpen(s)  == s # <<>> /\ Unconsumed(s[Len(s)])
FirstOpen(s) == Len(s) = 2 /\ Unconsumed(s[1])

\* The link to t of a core whose unit is unit and that ran last at edge clk: at most
\* two signals, the last one being that of the booking with t if there is one, and a
\* first signal that is consumed was so before the second arrives.
LinkInv(s, unit, t, clk, n) ==
  /\ Len(s) <= 2
  /\ \A i \in 1..Len(s) : Unconsumed(s[i]) \/ s[i].consumed[1] <= n
  /\ BookedWith(unit, t) => s # <<>> /\ s[Len(s)].arrival = unit[1].deadline
  /\ (~BookedWith(unit, t) /\ s # <<>>) => s[Len(s)].arrival <= clk
  /\ (Len(s) = 2 /\ ~Unconsumed(s[1])) => s[1].consumed[1] < s[2].arrival

\* A booking that has its signal waits only for its deadline.
UnitInv(unit, clk) == (unit # <<>> /\ unit[1].received) => clk < unit[1].deadline

\* Half of Even: what a has heard of b over the link from b.  It has the signal only
\* of b's present booking, which is past its deadline; bookings with each other have
\* some deadline ahead; the only open signal is that of b's booking, not yet heard.
Hears(ua, ub, a, b, sba, clk) ==
  /\ ReceivedFrom(ua, b) => BookedWith(ub, a) /\ ub[1].deadline <= clk
  /\ (BookedWith(ua, b) /\ BookedWith(ub, a)) => Later(ua[1].deadline, ub[1].deadline) > clk
  /\ LastOpen(sba) <=> (BookedWith(ub, a) /\ ~ReceivedFrom(ua, b))
  /\ ~FirstOpen(sba)

\* The meetings that both partners have completed.
Agree(mab, mba) ==
  \A k \in 1..Len(mab) : k \in 1..Len(mba) =>
     /\ mab[k].tick = mba[k].tick
     /\ mab[k].tick = Later(mab[k].deadline, mba[k].deadline)

\* Both have completed the same meetings.
Even(a, b, ua, ub, sab, sba, mab, mba, ca, cb) ==
  /\ Len(mab) = Len(mba)
  /\ Hears(ua, ub, a, b, sba, ca)
  /\ Hears(ub, ua, b, a, sab, cb)

\* b has run at this edge and completed a meeting that a, still booked for it, will
\* complete when its turn comes.  b may already have booked the next meeting.
Ahead(a, b, ua, ub, sab, sba, mab, mba, ca, cb, n) ==
  /\ Len(mba) = Len(mab) + 1
  /\ ca = n - 1 /\ cb = n
  /\ BookedWith(ua, b)
  /\ mba[Len(mba)].tick = n
  /\ n = Later(mba[Len(mba)].deadline, ua[1].deadline)
  /\ IF BookedWith(ub, a)
       THEN /\ LastOpen(sba)
            /\ FirstOpen(sba) <=> ~ReceivedFrom(ua, b)
            /\ FirstOpen(sba) => sba[1].arrival <= n
            /\ ~ub[1].received
            /\ ub[1].deadline > n
       ELSE /\ LastOpen(sba) <=> ~ReceivedFrom(ua, b)
            /\ ~FirstOpen(sba)
  /\ ~LastOpen(sab) /\ ~FirstOpen(sab)

\* The invariant of a pair of neighbours.
PairInv(a, b, ua, ub, sab, sba, mab, mba, ca, cb, n) ==
  /\ Agree(mab, mba)
  /\ \/ Even(a, b, ua, ub, sab, sba, mab, mba, ca, cb)
     \/ Ahead(a, b, ua, ub, sab, sba, mab, mba, ca, cb, n)
     \/ Ahead(b, a, ub, ua, sba, sab, mba, mab, cb, ca, n)

\* The invariant of the network when the cores D have run at edge n.
Types(S, P, M) ==
  /\ S \in [Links -> Seq(Signal)]
  /\ P \in [Cores -> Unit]
  /\ M \in [Links -> Seq(Meeting)]
  /\ \A c \in Cores : P[c] = <<>> \/ <<c, P[c][1].target>> \in Links

UnitAt(P, D, n, c) == UnitInv(P[c], Clk(D, n, c))
LinkAt(S, P, D, n, a, b) == LinkInv(S[<<a, b>>], P[a], b, Clk(D, n, a), n)
PairAt(S, P, M, D, n, a, b) ==
  PairInv(a, b, P[a], P[b], S[<<a, b>>], S[<<b, a>>], M[<<a, b>>], M[<<b, a>>],
          Clk(D, n, a), Clk(D, n, b), n)

NetInv(S, P, M, D, n) ==
  /\ Types(S, P, M)
  /\ \A c \in Cores : UnitAt(P, D, n, c)
  /\ \A a, b \in Cores : <<a, b>> \in Links => LinkAt(S, P, D, n, a, b)
  /\ \A a, b \in Cores : <<a, b>> \in Links => PairAt(S, P, M, D, n, a, b)

\* The cores that have run at the current edge.
Ran == {order[i] : i \in 1..(turn - 1)}

EdgeTypes ==
  /\ order \in Orders
  /\ turn \in 1..(Len(order) + 1)
  /\ plan \in Plans
  /\ now \in Nat

\* The inductive invariant.
IInv == EdgeTypes /\ (refused = "None" => NetInv(signals, pending, met, Ran, now))

-----------------------------------------------------------------------------
(* One link: receive and preflight.                                        *)

\* t is the link s after receive has taken its signal i at edge n.
Takes(s, i, n, t) ==
  /\ t \in Seq(Signal)
  /\ Len(t) = Len(s)
  /\ \A j \in 1..Len(s) : t[j].arrival = s[j].arrival /\ (j # i => t[j] = s[j])
  /\ t[i].consumed = <<n>>

\* A link of at most two signals has none, one or two.
LEMMA UpToTwo == \A k \in Nat : k <= 2 => k = 0 \/ k = 1 \/ k = 2
OBVIOUS

\* Marking signal i of a link as consumed (SyncNetwork::receive) takes that signal
\* and leaves the others and every arrival as they were.
LEMMA MarkSignal ==
  ASSUME NEW s \in Seq(Signal), NEW n \in Int, NEW i \in 1..Len(s)
  PROVE  Takes(s, i, n, [s EXCEPT ![i].consumed = <<n>>])
<1> DEFINE t == [s EXCEPT ![i].consumed = <<n>>]
           x == [s[i] EXCEPT !.consumed = <<n>>]
<1>1. s[i] \in Signal
  OBVIOUS
<1>2. x \in Signal /\ x.arrival = s[i].arrival /\ x.consumed = <<n>>
  BY <1>1 DEF Signal
<1>3. t = [s EXCEPT ![i] = x]
  OBVIOUS
<1> HIDE DEF x
<1>4. t \in Seq(Signal) /\ Len(t) = Len(s)
  BY <1>2, <1>3
<1>5. \A j \in 1..Len(s) : t[j] = IF j = i THEN x ELSE s[j]
  BY <1>3
<1> HIDE DEF t
<1>6. t[i].consumed = <<n>>
  BY <1>2, <1>5
<1>7. \A j \in 1..Len(s) : t[j].arrival = s[j].arrival /\ (j # i => t[j] = s[j])
  BY <1>2, <1>5
<1>8. Takes(s, i, n, t)
  BY <1>4, <1>6, <1>7 DEF Takes
<1> QED BY <1>8 DEF t

\* receive takes signal i when it has arrived and every earlier one is consumed.
LEMMA ReceiveFirstOf ==
  ASSUME NEW s \in Seq(Signal), NEW n \in Int, NEW i \in 1..Len(s),
         Unconsumed(s[i]), s[i].arrival <= n,
         \A j \in 1..Len(s) : j < i => ~Unconsumed(s[j])
  PROVE  Receivable(s, n) # {} /\ Takes(s, i, n, Receive(s, n))
<1>1. i \in Receivable(s, n) /\ \A j \in Receivable(s, n) : j \in 1..Len(s) /\ i <= j
  BY DEF Receivable
<1> DEFINE first == CHOOSE k \in Receivable(s, n) : \A j \in Receivable(s, n) : k <= j
<1>2. first \in Receivable(s, n) /\ \A j \in Receivable(s, n) : first <= j
  BY <1>1
<1> HIDE DEF first
<1>3. first = i
  <2>1. first \in 1..Len(s) /\ i <= first /\ first <= i
    BY <1>1, <1>2
  <2>2. first \in Int /\ i \in Int
    BY <2>1
  <2> QED BY <2>1, <2>2
<1>4. Receive(s, n) = [s EXCEPT ![i].consumed = <<n>>]
  BY <1>1, <1>3 DEF Receive, first
<1> QED BY <1>1, <1>4, MarkSignal

\* receive finds nothing on a short link whose first signal is not open and whose
\* last is consumed or still under way.
LEMMA ReceiveNone ==
  ASSUME NEW s \in Seq(Signal), NEW n \in Int, Len(s) <= 2,
         ~FirstOpen(s), ~(LastOpen(s) /\ s[Len(s)].arrival <= n)
  PROVE  Receivable(s, n) = {} /\ Receive(s, n) = s
<1>0. Len(s) \in Nat
  OBVIOUS
<1>1. Len(s) = 0 \/ Len(s) = 1 \/ Len(s) = 2
  BY <1>0, UpToTwo
<1>2. \A i \in 1..Len(s) : ~(Unconsumed(s[i]) /\ s[i].arrival <= n)
  BY <1>1 DEF FirstOpen, LastOpen
<1>3. Receivable(s, n) = {}
  BY <1>2 DEF Receivable
<1> QED BY <1>3 DEF Receive

\* receive takes the last signal of a short link when it has arrived and is the
\* only open one.
LEMMA ReceiveLast ==
  ASSUME NEW s \in Seq(Signal), NEW n \in Int, Len(s) <= 2,
         ~FirstOpen(s), LastOpen(s), s[Len(s)].arrival <= n
  PROVE  Receivable(s, n) # {} /\ Takes(s, Len(s), n, Receive(s, n))
<1>0. Len(s) \in Nat /\ Len(s) # 0
  BY DEF LastOpen
<1>1. Len(s) = 1 \/ Len(s) = 2
  BY <1>0, UpToTwo
<1>2. \A j \in 1..Len(s) : j < Len(s) => ~Unconsumed(s[j])
  BY <1>1 DEF FirstOpen
<1> QED BY <1>1, <1>2, ReceiveFirstOf DEF LastOpen

\* receive takes the first of two open signals when it has arrived.
LEMMA ReceiveFirst ==
  ASSUME NEW s \in Seq(Signal), NEW n \in Int, FirstOpen(s), s[1].arrival <= n
  PROVE  Receivable(s, n) # {} /\ Takes(s, 1, n, Receive(s, n))
<1>1. 1 \in 1..Len(s) /\ \A j \in 1..Len(s) : j < 1 => ~Unconsumed(s[j])
  BY DEF FirstOpen
<1> QED BY <1>1, ReceiveFirstOf DEF FirstOpen

\* f satisfies the recursion of Occupying.
KeptOf(s, n, f) ==
  f = [i \in 0..Len(s) |->
         IF i = 0 THEN <<>>
         ELSE IF Occupies(s[i], n) THEN Append(f[i - 1], s[i]) ELSE f[i - 1]]

\* Occupying is the last value of any function that satisfies its recursion.
LEMMA OccupyingIs ==
  ASSUME NEW s, NEW n, NEW f, KeptOf(s, n, f)
  PROVE  \E g : KeptOf(s, n, g) /\ Occupying(s, n) = g[Len(s)]
<1> DEFINE g == CHOOSE h : h = [i \in 0..Len(s) |->
         IF i = 0 THEN <<>>
         ELSE IF Occupies(s[i], n) THEN Append(h[i - 1], s[i]) ELSE h[i - 1]]
<1>1. KeptOf(s, n, g)
  BY DEF KeptOf
<1>2. Occupying(s, n) = g[Len(s)]
  BY DEF Occupying
<1> HIDE DEF g
<1> QED BY <1>1, <1>2

\* The recursion of Occupying, one position at a time.
LEMMA KeptStep ==
  ASSUME NEW s, NEW n, NEW f, KeptOf(s, n, f), Len(s) \in Nat
  PROVE  /\ f[0] = <<>>
         /\ \A i \in 1..Len(s) :
              f[i] = IF Occupies(s[i], n) THEN Append(f[i - 1], s[i]) ELSE f[i - 1]
<1>1. 0 \in 0..Len(s) /\ \A i \in 1..Len(s) : i \in 0..Len(s) /\ i # 0
  OBVIOUS
<1> QED BY <1>1 DEF KeptOf

\* When the first of two signals no longer holds a slot, the preflight of
\* SyncNetwork leaves the last signal or nothing.
LEMMA OccupyingLast ==
  ASSUME NEW s \in Seq(Signal), NEW n \in Int, Len(s) <= 2,
         Len(s) = 2 => ~Occupies(s[1], n)
  PROVE  Occupying(s, n) = IF s # <<>> /\ Occupies(s[Len(s)], n) THEN <<s[Len(s)]>> ELSE <<>>
<1>n. Len(s) \in Nat
  OBVIOUS
<1>0. Len(s) = 0 \/ Len(s) = 1 \/ Len(s) = 2
  BY <1>n, UpToTwo
<1> DEFINE last == IF s # <<>> /\ Occupies(s[Len(s)], n) THEN <<s[Len(s)]>> ELSE <<>>
           f == [i \in 0..Len(s) |-> IF i = Len(s) THEN last ELSE <<>>]
<1>1. KeptOf(s, n, f)
  <2>1. CASE Len(s) = 0
    BY <2>1 DEF KeptOf
  <2>2. CASE Len(s) = 1
    BY <2>2 DEF KeptOf
  <2>3. CASE Len(s) = 2
    BY <2>3 DEF KeptOf
  <2> QED BY <1>0, <2>1, <2>2, <2>3
<1>2. PICK g : KeptOf(s, n, g) /\ Occupying(s, n) = g[Len(s)]
  BY <1>1, OccupyingIs
<1>k. /\ g[0] = <<>>
      /\ Len(s) >= 1 => g[1] = IF Occupies(s[1], n) THEN Append(g[0], s[1]) ELSE g[0]
      /\ Len(s) = 2 => g[2] = IF Occupies(s[2], n) THEN Append(g[1], s[2]) ELSE g[1]
  <2>0. \A k \in Nat : (k >= 1 => 1 \in 1..k) /\ (k = 2 => 2 \in 1..k) /\ 1 - 1 = 0 /\ 2 - 1 = 1
    OBVIOUS
  <2>1. /\ 1 - 1 = 0 /\ 2 - 1 = 1
        /\ Len(s) >= 1 => 1 \in 1..Len(s)
        /\ Len(s) = 2 => 2 \in 1..Len(s)
    BY <1>n, <2>0
  <2> QED BY <1>2, <1>n, <2>1, KeptStep
<1>3. CASE Len(s) = 0
  BY <1>2, <1>3, <1>k
<1>4. CASE Len(s) = 1
  BY <1>2, <1>4, <1>k
<1>5. CASE Len(s) = 2
  <2>0. Len(s) >= 1 /\ ~Occupies(s[1], n)
    BY <1>5
  <2>1. g[0] = <<>> /\ g[1] = <<>>
    BY <2>0, <1>k, Zenon
  <2>2. g[2] = IF Occupies(s[2], n) THEN Append(<<>>, s[2]) ELSE <<>>
    BY <2>1, <1>5, <1>k
  <2>3. s # <<>> /\ Append(<<>>, s[2]) = <<s[2]>>
    <3>1. Len(<<>>) # 2 /\ \A x : Append(<<>>, x) = <<x>>
      OBVIOUS
    <3> QED BY <1>5, <3>1, Zenon
  <2> QED BY <1>2, <1>5, <2>2, <2>3
<1> QED BY <1>0, <1>3, <1>4, <1>5

-----------------------------------------------------------------------------
(* One pair of neighbours: the step of a unit.                             *)

\* The types of two units, the two links between them, their histories and clocks.
PairTypes(ua, ub, sab, sba, mab, mba, ca, cb, n) ==
  /\ ua \in Unit /\ ub \in Unit
  /\ sab \in Seq(Signal) /\ sba \in Seq(Signal)
  /\ mab \in Seq(Meeting) /\ mba \in Seq(Meeting)
  /\ n \in Nat /\ ca \in {n - 1, n} /\ cb \in {n - 1, n}

\* The step of a unit: what is left on the link it listens to, whether a signal came
\* and whether it has one.
HeardOn(ua, sba, n) == IF Listens(ua) THEN Receive(sba, n) ELSE sba
Arrives(ua, sba, n) == Listens(ua) /\ Receivable(sba, n) # {}

\* A unit is empty or holds one booking.
LEMMA UnitHeld == \A unit \in Unit : unit = <<>> \/ (unit # <<>> /\ unit[1] \in Booking /\ unit = <<unit[1]>>)
BY DEF Unit

\* Taking the only open signal of a link leaves it without an open signal, and
\* within the link's invariant.
LEMMA TakeLast ==
  ASSUME NEW s \in Seq(Signal), NEW t, NEW n \in Int, NEW clk \in Int, NEW unit, NEW d,
         s # <<>>, Takes(s, Len(s), n, t), ~FirstOpen(s), LinkInv(s, unit, d, clk, n)
  PROVE  ~LastOpen(t) /\ ~FirstOpen(t) /\ LinkInv(t, unit, d, clk, n)
<1>0. Len(s) \in Nat /\ Len(s) <= 2 /\ Len(s) # 0
  BY DEF LinkInv
<1>1. Len(s) = 1 \/ Len(s) = 2
  BY <1>0, UpToTwo
<1>2. t \in Seq(Signal) /\ Len(t) = Len(s) /\ t # <<>>
  BY <1>1 DEF Takes
<1>3. t[Len(s)].consumed = <<n>> /\ t[Len(s)].arrival = s[Len(s)].arrival
  BY <1>1 DEF Takes
<1>4. Len(s) = 2 => t[1] = s[1]
  BY <1>1 DEF Takes
<1>5. ~Unconsumed(t[Len(s)]) /\ t[Len(s)].consumed[1] = n
  BY <1>3 DEF Unconsumed
<1>6. ~LastOpen(t) /\ ~FirstOpen(t)
  BY <1>2, <1>4, <1>5 DEF LastOpen, FirstOpen
<1>7. \A i \in 1..Len(t) : Unconsumed(t[i]) \/ t[i].consumed[1] <= n
  <2>1. CASE Len(s) = 1
    BY <2>1, <1>2, <1>5
  <2>2. CASE Len(s) = 2
    BY <2>2, <1>2, <1>4, <1>5 DEF LinkInv
  <2> QED BY <1>1, <2>1, <2>2
<1>8. (Len(t) = 2 /\ ~Unconsumed(t[1])) => t[1].consumed[1] < t[2].arrival
  BY <1>2, <1>3, <1>4 DEF LinkInv
<1>9. /\ BookedWith(unit, d) => t[Len(t)].arrival = unit[1].deadline
      /\ (~BookedWith(unit, d) /\ t # <<>>) => t[Len(t)].arrival <= clk
  BY <1>2, <1>3 DEF LinkInv
<1> QED BY <1>0, <1>2, <1>6, <1>7, <1>8, <1>9 DEF LinkInv

\* Taking the first of two open signals leaves the second open, and the link within
\* its invariant: the second one arrives later than this edge.
LEMMA TakeFirst ==
  ASSUME NEW s \in Seq(Signal), NEW t, NEW n \in Int, NEW clk \in Int, NEW unit, NEW d,
         FirstOpen(s), LastOpen(s), Takes(s, 1, n, t), n < s[2].arrival, LinkInv(s, unit, d, clk, n)
  PROVE  LastOpen(t) /\ ~FirstOpen(t) /\ LinkInv(t, unit, d, clk, n)
<1>1. Len(s) = 2 /\ Unconsumed(s[2])
  BY DEF FirstOpen, LastOpen
<1>2. t \in Seq(Signal) /\ Len(t) = 2 /\ t # <<>>
  <2>1. t \in Seq(Signal) /\ Len(t) = Len(s)
    BY DEF Takes
  <2>2. Len(t) # 0
    BY <1>1, <2>1
  <2> QED BY <1>1, <2>1, <2>2, EmptySeq
<1>3. t[1].consumed = <<n>>
  BY <1>1 DEF Takes
<1>4. t[2] = s[2]
  BY <1>1 DEF Takes
<1>5. ~Unconsumed(t[1]) /\ t[1].consumed[1] = n
  BY <1>3 DEF Unconsumed
<1>6. LastOpen(t) /\ ~FirstOpen(t)
  BY <1>1, <1>2, <1>4, <1>5 DEF LastOpen, FirstOpen
<1>7. \A i \in 1..Len(t) : Unconsumed(t[i]) \/ t[i].consumed[1] <= n
  BY <1>1, <1>2, <1>4, <1>5
<1>8. (Len(t) = 2 /\ ~Unconsumed(t[1])) => t[1].consumed[1] < t[2].arrival
  BY <1>2, <1>4, <1>5
<1>9. /\ BookedWith(unit, d) => t[Len(t)].arrival = unit[1].deadline
      /\ (~BookedWith(unit, d) /\ t # <<>>) => t[Len(t)].arrival <= clk
  BY <1>1, <1>2, <1>4 DEF LinkInv
<1> QED BY <1>2, <1>6, <1>7, <1>8, <1>9 DEF LinkInv

Got(ua, sba, n) == ua[1].received \/ Arrives(ua, sba, n)

\* SyncUnit::step listening to an even partner: it has the partner's signal exactly
\* when the partner's deadline has come.
LEMMA HearEven ==
  ASSUME NEW a, NEW b, NEW ua \in Unit, NEW ub \in Unit, NEW sba \in Seq(Signal),
         NEW n \in Nat, NEW cb \in {n - 1, n},
         BookedWith(ua, b), Hears(ua, ub, a, b, sba, n - 1), LinkInv(sba, ub, a, cb, n)
  PROVE  /\ HeardOn(ua, sba, n) \in Seq(Signal)
         /\ LinkInv(HeardOn(ua, sba, n), ub, a, cb, n)
         /\ ~FirstOpen(HeardOn(ua, sba, n))
         /\ LastOpen(HeardOn(ua, sba, n)) <=> (BookedWith(ub, a) /\ ~Got(ua, sba, n))
         /\ Got(ua, sba, n) <=> (BookedWith(ub, a) /\ ub[1].deadline <= n)
<1>0. ua # <<>> /\ ua[1] \in Booking /\ ua[1].received \in BOOLEAN
  BY UnitHeld DEF BookedWith, Booking
<1>b. BookedWith(ub, a) => ub[1].deadline \in Int
  BY UnitHeld DEF BookedWith, Booking
<1>1. CASE ua[1].received
  <2>1. HeardOn(ua, sba, n) = sba /\ Got(ua, sba, n)
    BY <1>1 DEF HeardOn, Got, Listens
  <2>2. BookedWith(ub, a) /\ ub[1].deadline <= n - 1
    BY <1>1 DEF Hears, ReceivedFrom
  <2>3. ub[1].deadline <= n
    BY <2>2, <1>b
  <2>4. ~LastOpen(sba) /\ ~FirstOpen(sba)
    BY <1>1 DEF Hears, ReceivedFrom
  <2> QED BY <2>1, <2>2, <2>3, <2>4
<1>2. CASE ~ua[1].received
  <2>1. Listens(ua) /\ HeardOn(ua, sba, n) = Receive(sba, n)
    BY <1>0, <1>2 DEF HeardOn, Listens
  <2>2. Got(ua, sba, n) <=> Receivable(sba, n) # {}
    BY <2>1, <1>2 DEF Got, Arrives
  <2>3. (LastOpen(sba) <=> BookedWith(ub, a)) /\ ~FirstOpen(sba)
    BY <1>2 DEF Hears, ReceivedFrom
  <2>4. Len(sba) <= 2 /\ n \in Int /\ cb \in Int
    BY DEF LinkInv
  <2>5. CASE LastOpen(sba) /\ sba[Len(sba)].arrival <= n
    <3>1. Receivable(sba, n) # {} /\ Takes(sba, Len(sba), n, Receive(sba, n))
      BY <2>3, <2>4, <2>5, ReceiveLast
    <3>2. sba # <<>>
      BY <2>5 DEF LastOpen
    <3>3. /\ ~LastOpen(Receive(sba, n)) /\ ~FirstOpen(Receive(sba, n))
          /\ LinkInv(Receive(sba, n), ub, a, cb, n)
      BY <2>3, <2>4, <3>1, <3>2, TakeLast
    <3>4. ub[1].deadline <= n /\ BookedWith(ub, a)
      BY <2>3, <2>5 DEF LinkInv
    <3>5. Receive(sba, n) \in Seq(Signal)
      BY <3>1 DEF Takes
    <3> QED BY <2>1, <2>2, <3>1, <3>3, <3>4, <3>5
  <2>6. CASE ~(LastOpen(sba) /\ sba[Len(sba)].arrival <= n)
    <3>1. Receivable(sba, n) = {} /\ Receive(sba, n) = sba
      BY <2>3, <2>4, <2>6, ReceiveNone
    <3>2. ~(BookedWith(ub, a) /\ ub[1].deadline <= n)
      BY <2>3, <2>6 DEF LinkInv
    <3> QED BY <2>1, <2>2, <2>3, <3>1, <3>2
  <2> QED BY <2>5, <2>6
<1> QED BY <1>0, <1>1, <1>2

\* SyncUnit::step listening to a partner that is one meeting ahead: the signal of the
\* meeting that the partner has completed is there, and a later one stays.
LEMMA HearAhead ==
  ASSUME NEW a, NEW b, NEW ua \in Unit, NEW ub \in Unit, NEW sab, NEW sba \in Seq(Signal),
         NEW mab, NEW mba, NEW n \in Nat, NEW ca, NEW cb,
         Ahead(a, b, ua, ub, sab, sba, mab, mba, ca, cb, n), LinkInv(sba, ub, a, cb, n)
  PROVE  /\ HeardOn(ua, sba, n) \in Seq(Signal)
         /\ LinkInv(HeardOn(ua, sba, n), ub, a, cb, n)
         /\ ~FirstOpen(HeardOn(ua, sba, n))
         /\ LastOpen(HeardOn(ua, sba, n)) <=> BookedWith(ub, a)
         /\ Got(ua, sba, n)
<1>0. ua # <<>> /\ ua[1] \in Booking /\ ua[1].received \in BOOLEAN /\ BookedWith(ua, b) /\ cb = n
  BY UnitHeld DEF BookedWith, Booking, Ahead
<1>b. BookedWith(ub, a) => ub[1].deadline \in Int /\ ub[1].deadline > n
  BY UnitHeld DEF BookedWith, Booking, Ahead
<1>1. CASE ua[1].received
  <2>1. HeardOn(ua, sba, n) = sba /\ Got(ua, sba, n)
    BY <1>1 DEF HeardOn, Got, Listens
  <2>4. (LastOpen(sba) <=> BookedWith(ub, a)) /\ ~FirstOpen(sba)
    BY <1>0, <1>1 DEF Ahead, ReceivedFrom
  <2> QED BY <2>1, <2>4
<1>2. CASE ~ua[1].received
  <2>1. Listens(ua) /\ HeardOn(ua, sba, n) = Receive(sba, n)
    BY <1>0, <1>2 DEF HeardOn, Listens
  <2>2. Got(ua, sba, n) <=> Receivable(sba, n) # {}
    BY <2>1, <1>2 DEF Got, Arrives
  <2>4. Len(sba) <= 2 /\ n \in Int /\ cb \in Int /\ LastOpen(sba)
    BY <1>0, <1>2 DEF LinkInv, Ahead, ReceivedFrom
  <2>5. CASE BookedWith(ub, a)
    <3>0. FirstOpen(sba) /\ sba[1].arrival <= n
      BY <2>5, <1>2 DEF Ahead, ReceivedFrom
    <3>1. Receivable(sba, n) # {} /\ Takes(sba, 1, n, Receive(sba, n))
      BY <2>4, <3>0, ReceiveFirst
    <3>2. n < sba[2].arrival
      BY <2>5, <3>0, <1>b DEF LinkInv, FirstOpen
    <3>3. /\ LastOpen(Receive(sba, n)) /\ ~FirstOpen(Receive(sba, n))
          /\ LinkInv(Receive(sba, n), ub, a, cb, n)
      BY <2>4, <3>0, <3>1, <3>2, TakeFirst
    <3>5. Receive(sba, n) \in Seq(Signal)
      BY <3>1 DEF Takes
    <3> QED BY <2>1, <2>2, <2>5, <3>1, <3>3, <3>5
  <2>6. CASE ~BookedWith(ub, a)
    <3>0. ~FirstOpen(sba) /\ sba # <<>> /\ sba[Len(sba)].arrival <= n
      BY <2>6, <2>4, <1>0 DEF Ahead, LinkInv, LastOpen
    <3>1. Receivable(sba, n) # {} /\ Takes(sba, Len(sba), n, Receive(sba, n))
      BY <2>4, <3>0, ReceiveLast
    <3>3. /\ ~LastOpen(Receive(sba, n)) /\ ~FirstOpen(Receive(sba, n))
          /\ LinkInv(Receive(sba, n), ub, a, cb, n)
      BY <2>4, <3>0, <3>1, TakeLast
    <3>5. Receive(sba, n) \in Seq(Signal)
      BY <3>1 DEF Takes
    <3> QED BY <2>1, <2>2, <2>6, <3>1, <3>3, <3>5
  <2> QED BY <2>5, <2>6
<1> QED BY <1>0, <1>1, <1>2

\* w is the booking of u, with the signal received or not.
SameBooking(u, w, got) ==
  /\ w \in Unit /\ w # <<>>
  /\ w[1].target = u[1].target /\ w[1].deadline = u[1].deadline
  /\ w[1].received <=> got

\* SyncUnit::step completes a booking whose deadline has come and whose signal has.
LEMMA StepCompletes ==
  ASSUME NEW u \in Unit, NEW n \in Nat, NEW arrived \in BOOLEAN, u # <<>>,
         u[1].deadline <= n, u[1].received \/ arrived
  PROVE  StepUnit(u, arrived, n) = [unit |-> <<>>, paused |-> FALSE, completed |-> TRUE]
<1>1. u[1].deadline \in Int
  BY UnitHeld DEF Booking
<1> QED BY <1>1 DEF StepUnit

\* SyncUnit::step keeps any other booking and remembers that the signal came.
LEMMA StepWaits ==
  ASSUME NEW u \in Unit, NEW n \in Nat, NEW arrived \in BOOLEAN, u # <<>>,
         ~(u[1].deadline <= n /\ (u[1].received \/ arrived))
  PROVE  /\ SameBooking(u, StepUnit(u, arrived, n).unit, u[1].received \/ arrived)
         /\ StepUnit(u, arrived, n).completed = FALSE
<1>1. u[1] \in Booking /\ u[1].deadline \in Int /\ u[1].received \in BOOLEAN
  BY UnitHeld DEF Booking
<1> DEFINE got == u[1].received \/ arrived
           r == [u[1] EXCEPT !.received = got]
<1>2. r \in Booking /\ r.target = u[1].target /\ r.deadline = u[1].deadline /\ r.received = got
  BY <1>1 DEF Booking
<1>3. ~(n >= u[1].deadline /\ got)
  BY <1>1
<1>4. StepUnit(u, arrived, n) = [unit |-> <<r>>, paused |-> n >= u[1].deadline, completed |-> FALSE]
  BY <1>3, Zenon DEF StepUnit
<1> HIDE DEF r
<1>5. <<r>> \in Unit /\ <<r>> # <<>> /\ <<r>>[1] = r
  BY <1>2 DEF Unit
<1>6. StepUnit(u, arrived, n).unit = <<r>> /\ StepUnit(u, arrived, n).completed = FALSE
  BY <1>4
<1>7. SameBooking(u, <<r>>, got)
  BY <1>2, <1>5 DEF SameBooking
<1> QED BY <1>6, <1>7

\* The history of a link after a meeting.
Meets(m, u, n) == Append(m, [tick |-> n, deadline |-> u[1].deadline])
MetAfter(m, u, done, n) == IF done THEN Meets(m, u, n) ELSE m

\* The later of two deadlines.
LEMMA LaterFacts ==
  \A x, y \in Int : /\ Later(x, y) \in Int /\ Later(x, y) = Later(y, x)
                    /\ Later(x, y) >= x /\ Later(x, y) >= y
                    /\ Later(x, y) = x \/ Later(x, y) = y
BY DEF Later

\* What a completed meeting adds to the history of its link.
LEMMA MeetsFacts ==
  ASSUME NEW m \in Seq(Meeting), NEW u \in Unit, u # <<>>, NEW n \in Nat
  PROVE  /\ Meets(m, u, n) \in Seq(Meeting)
         /\ Len(Meets(m, u, n)) = Len(m) + 1
         /\ \A k \in 1..Len(m) : Meets(m, u, n)[k] = m[k]
         /\ Meets(m, u, n)[Len(m) + 1].tick = n
         /\ Meets(m, u, n)[Len(m) + 1].deadline = u[1].deadline
<1> DEFINE r == [tick |-> n, deadline |-> u[1].deadline]
<1>1. r \in Meeting /\ r.tick = n /\ r.deadline = u[1].deadline
  BY UnitHeld DEF Booking, Meeting
<1>2. Meets(m, u, n) = Append(m, r)
  BY DEF Meets
<1> HIDE DEF r
<1> QED BY <1>1, <1>2

\* A core that completes the meeting before its even partner has run is one ahead, on
\* the edge that is the later of the two deadlines.
LEMMA GoAhead ==
  ASSUME NEW a, NEW b, NEW ua \in Unit, NEW ub \in Unit, NEW sab, NEW sba, NEW t,
         NEW mab \in Seq(Meeting), NEW mba \in Seq(Meeting), NEW n \in Nat, NEW cb \in {n - 1, n},
         Even(a, b, ua, ub, sab, sba, mab, mba, n - 1, cb), Agree(mab, mba),
         BookedWith(ua, b), BookedWith(ub, a), ua[1].deadline <= n, ub[1].deadline <= n,
         ~LastOpen(t), ~FirstOpen(t)
  PROVE  PairInv(a, b, <<>>, ub, sab, t, Meets(mab, ua, n), mba, n, cb, n)
<1>0. ua # <<>> /\ ua[1].deadline \in Int /\ ub[1].deadline \in Int
  BY UnitHeld DEF BookedWith, Booking
<1>1. Later(ua[1].deadline, ub[1].deadline) > n - 1
  BY DEF Even, Hears
<1>2. Later(ua[1].deadline, ub[1].deadline) = n
  BY <1>0, <1>1, LaterFacts
<1>3. cb = n - 1
  <2>1. Later(ub[1].deadline, ua[1].deadline) > cb
    BY DEF Even, Hears
  <2>2. Later(ub[1].deadline, ua[1].deadline) = n
    BY <1>0, <1>2, LaterFacts
  <2>3. n > cb
    BY <2>1, <2>2
  <2> QED BY <2>3
<1> DEFINE m == Meets(mab, ua, n)
<1>4. /\ m \in Seq(Meeting) /\ Len(m) = Len(mab) + 1
      /\ \A k \in 1..Len(mab) : m[k] = mab[k]
      /\ m[Len(mab) + 1].tick = n /\ m[Len(mab) + 1].deadline = ua[1].deadline
  <2>1. m \in Seq(Meeting) /\ Len(m) = Len(mab) + 1
    BY <1>0, MeetsFacts
  <2>2. \A k \in 1..Len(mab) : m[k] = mab[k]
    BY <1>0, MeetsFacts
  <2>3. m[Len(mab) + 1].tick = n /\ m[Len(mab) + 1].deadline = ua[1].deadline
    BY <1>0, MeetsFacts
  <2> QED BY <2>1, <2>2, <2>3
<1> HIDE DEF m
<1>5. Agree(m, mba)
  <2>1. Len(mba) = Len(mab) /\ Len(mab) \in Nat
    BY DEF Even
  <2>2. \A k \in 1..Len(mba) : k \in 1..Len(mab)
    BY <2>1
  <2> QED BY <1>4, <2>1, <2>2 DEF Agree
<1>6. Len(m) = Len(mba) + 1 /\ m[Len(m)].tick = n /\ n = Later(m[Len(m)].deadline, ub[1].deadline)
  BY <1>2, <1>4 DEF Even
<1>7. (LastOpen(sab) <=> ~ReceivedFrom(ub, a)) /\ ~FirstOpen(sab)
  BY DEF Even, Hears
<1>8. ~BookedWith(<<>>, b)
  BY DEF BookedWith
<1>9. Ahead(b, a, ub, <<>>, t, sab, mba, m, cb, n, n)
  BY <1>3, <1>6, <1>7, <1>8 DEF Ahead
<1> QED BY <1>5, <1>9 DEF PairInv, m

\* The core that runs after a partner that is ahead completes the same meeting on the
\* same edge; the two are even again.
LEMMA CatchUp ==
  ASSUME NEW a, NEW b, NEW ua \in Unit, NEW ub \in Unit, NEW sab, NEW sba, NEW t,
         NEW mab \in Seq(Meeting), NEW mba \in Seq(Meeting), NEW n \in Nat, NEW cb, NEW ca,
         Ahead(a, b, ua, ub, sab, sba, mab, mba, ca, cb, n), Agree(mab, mba),
         LastOpen(t) <=> BookedWith(ub, a), ~FirstOpen(t)
  PROVE  PairInv(a, b, <<>>, ub, sab, t, Meets(mab, ua, n), mba, n, cb, n)
<1>0. ua # <<>> /\ ua[1].deadline \in Int
  BY UnitHeld DEF BookedWith, Booking, Ahead
<1> DEFINE m == Meets(mab, ua, n)
<1>4. /\ m \in Seq(Meeting) /\ Len(m) = Len(mab) + 1
      /\ \A k \in 1..Len(mab) : m[k] = mab[k]
      /\ m[Len(mab) + 1].tick = n /\ m[Len(mab) + 1].deadline = ua[1].deadline
  BY <1>0, MeetsFacts
<1> HIDE DEF m
<1>1. Len(mba) = Len(mab) + 1 /\ Len(mab) \in Nat
  BY DEF Ahead
<1>2. mba[Len(mba)].tick = n /\ n = Later(mba[Len(mba)].deadline, ua[1].deadline)
  BY DEF Ahead
<1>3. mba[Len(mba)].deadline \in Int
  <2>1. Len(mba) \in 1..Len(mba)
    BY <1>1
  <2>2. mba[Len(mba)] \in Meeting
    BY <2>1
  <2> QED BY <2>2 DEF Meeting
<1>5. Agree(m, mba)
  <2>1. \A k \in 1..Len(m) : k \in 1..Len(mab) \/ k = Len(mba)
    BY <1>1, <1>4
  <2>2. \A k \in 1..Len(mab) : k \in 1..Len(mba)
    BY <1>1
  <2>3. n = Later(m[Len(mba)].deadline, mba[Len(mba)].deadline)
    BY <1>0, <1>1, <1>2, <1>3, <1>4, LaterFacts
  <2>4. m[Len(mba)].tick = n
    BY <1>1, <1>4
  <2> QED BY <1>2, <1>4, <2>1, <2>2, <2>3, <2>4 DEF Agree
<1>8. ~BookedWith(<<>>, b) /\ ~ReceivedFrom(<<>>, b)
  BY DEF BookedWith, ReceivedFrom
<1>9. Hears(<<>>, ub, a, b, t, n)
  BY <1>8 DEF Hears
<1>10. ~ReceivedFrom(ub, a) /\ ~LastOpen(sab) /\ ~FirstOpen(sab)
  BY DEF Ahead, ReceivedFrom
<1>11. Hears(ub, <<>>, b, a, sab, cb)
  BY <1>8, <1>10 DEF Hears
<1>12. Even(a, b, <<>>, ub, sab, t, m, mba, n, cb)
  BY <1>1, <1>4, <1>9, <1>11 DEF Even
<1> QED BY <1>5, <1>12 DEF PairInv, m

\* A core that steps without completing its booking stays even with its partner.
LEMMA StayEven ==
  ASSUME NEW a, NEW b, NEW ua \in Unit, NEW ub \in Unit, NEW w, NEW got, NEW sab, NEW sba, NEW t,
         NEW mab, NEW mba, NEW n \in Nat, NEW cb,
         Even(a, b, ua, ub, sab, sba, mab, mba, n - 1, cb), Agree(mab, mba),
         BookedWith(ua, b), SameBooking(ua, w, got),
         got <=> (BookedWith(ub, a) /\ ub[1].deadline <= n),
         ~(ua[1].deadline <= n /\ got),
         LastOpen(t) <=> (BookedWith(ub, a) /\ ~got), ~FirstOpen(t)
  PROVE  PairInv(a, b, w, ub, sab, t, mab, mba, n, cb, n)
<1>1. BookedWith(w, b) /\ (ReceivedFrom(w, b) <=> got) /\ w[1].deadline = ua[1].deadline
  BY DEF SameBooking, BookedWith, ReceivedFrom
<1>2. ua[1].deadline \in Int
  BY UnitHeld DEF BookedWith, Booking
<1>3. BookedWith(ub, a) => ub[1].deadline \in Int
  BY UnitHeld DEF BookedWith, Booking
<1>4. BookedWith(ub, a) => Later(w[1].deadline, ub[1].deadline) > n
  <2> SUFFICES ASSUME BookedWith(ub, a)
               PROVE  Later(w[1].deadline, ub[1].deadline) > n
    OBVIOUS
  <2>0. /\ Later(ua[1].deadline, ub[1].deadline) \in Int
        /\ Later(ua[1].deadline, ub[1].deadline) >= ua[1].deadline
        /\ Later(ua[1].deadline, ub[1].deadline) >= ub[1].deadline
    BY <1>2, <1>3, LaterFacts
  <2>1. ua[1].deadline > n \/ ub[1].deadline > n
    BY <1>2, <1>3
  <2>2. Later(ua[1].deadline, ub[1].deadline) > n
    BY <1>2, <1>3, <2>0, <2>1
  <2> QED BY <1>1, <2>2
<1>5. Hears(w, ub, a, b, t, n)
  BY <1>1, <1>4 DEF Hears
<1>6. Hears(ub, w, b, a, sab, cb)
  BY <1>1 DEF Hears, Even
<1> QED BY <1>5, <1>6 DEF Even, PairInv

\* What the step of a, booked with b, needs of the pair and what it leaves.
StepPost(a, b, w, ub, sab, t, m, mba, cb, n) ==
  /\ w \in Unit /\ (w = <<>> \/ BookedWith(w, b))
  /\ t \in Seq(Signal) /\ m \in Seq(Meeting)
  /\ UnitInv(w, n)
  /\ LinkInv(t, ub, a, cb, n)
  /\ LinkInv(sab, w, b, n, n)
  /\ PairInv(a, b, w, ub, sab, t, m, mba, n, cb, n)

StepPre(a, b, ua, ub, sab, sba, mab, mba, cb, n) ==
  /\ PairTypes(ua, ub, sab, sba, mab, mba, n - 1, cb, n)
  /\ BookedWith(ua, b)
  /\ LinkInv(sba, ub, a, cb, n)
  /\ LinkInv(sab, ua, b, n - 1, n)
  /\ PairInv(a, b, ua, ub, sab, sba, mab, mba, n - 1, cb, n)

\* The link of a core whose booking is completed: its last signal has arrived.
LEMMA SenderCompletes ==
  ASSUME NEW s \in Seq(Signal), NEW u \in Unit, NEW d, NEW n \in Nat,
         LinkInv(s, u, d, n - 1, n), BookedWith(u, d), u[1].deadline <= n
  PROVE  LinkInv(s, <<>>, d, n, n)
<1>1. ~BookedWith(<<>>, d)
  BY DEF BookedWith
<1> QED BY <1>1 DEF LinkInv

\* The link of a core whose booking goes on.
LEMMA SenderWaits ==
  ASSUME NEW s \in Seq(Signal), NEW u \in Unit, NEW w, NEW got, NEW d, NEW n \in Nat,
         LinkInv(s, u, d, n - 1, n), BookedWith(u, d), SameBooking(u, w, got)
  PROVE  LinkInv(s, w, d, n, n) /\ BookedWith(w, d)
<1>1. BookedWith(w, d) /\ w[1].deadline = u[1].deadline
  BY DEF BookedWith, SameBooking
<1> QED BY <1>1 DEF LinkInv

\* SyncUnit::step of a core that is booked with b keeps the invariant of the pair.
LEMMA StepBooked ==
  ASSUME NEW a, NEW b, NEW ua, NEW ub, NEW sab, NEW sba, NEW mab, NEW mba, NEW cb, NEW n,
         StepPre(a, b, ua, ub, sab, sba, mab, mba, cb, n)
  PROVE  LET step == StepUnit(ua, Arrives(ua, sba, n), n)
         IN  StepPost(a, b, step.unit, ub, sab, HeardOn(ua, sba, n),
                      MetAfter(mab, ua, step.completed, n), mba, cb, n)
<1> DEFINE arrived == Arrives(ua, sba, n)
           step == StepUnit(ua, arrived, n)
           t == HeardOn(ua, sba, n)
           got == Got(ua, sba, n)
<1>0. /\ ua \in Unit /\ ub \in Unit /\ sab \in Seq(Signal) /\ sba \in Seq(Signal)
      /\ mab \in Seq(Meeting) /\ mba \in Seq(Meeting) /\ n \in Nat /\ cb \in {n - 1, n}
  BY DEF StepPre, PairTypes
<1>1. /\ BookedWith(ua, b) /\ LinkInv(sba, ub, a, cb, n) /\ LinkInv(sab, ua, b, n - 1, n)
      /\ PairInv(a, b, ua, ub, sab, sba, mab, mba, n - 1, cb, n)
  BY DEF StepPre
<1>2. ua # <<>> /\ arrived \in BOOLEAN /\ ua[1].received \in BOOLEAN /\ ua[1].deadline \in Int
  BY <1>0, <1>1, UnitHeld DEF BookedWith, Booking, Arrives
<1>3. got <=> ua[1].received \/ arrived
  BY DEF Got
<1> HIDE DEF arrived, step, t, got
<1>c. ASSUME ua[1].deadline <= n, got,
             t \in Seq(Signal), LinkInv(t, ub, a, cb, n),
             PairInv(a, b, <<>>, ub, sab, t, Meets(mab, ua, n), mba, n, cb, n)
      PROVE  StepPost(a, b, step.unit, ub, sab, t, MetAfter(mab, ua, step.completed, n), mba, cb, n)
  <2>1. step.unit = <<>> /\ step.completed
    BY <1>0, <1>2, <1>3, <1>c, StepCompletes DEF step
  <2>2. MetAfter(mab, ua, step.completed, n) = Meets(mab, ua, n)
    BY <2>1 DEF MetAfter
  <2>3. Meets(mab, ua, n) \in Seq(Meeting)
    BY <1>0, <1>2, MeetsFacts
  <2>4. LinkInv(sab, <<>>, b, n, n)
    BY <1>0, <1>1, <1>c, SenderCompletes
  <2>5. UnitInv(<<>>, n) /\ <<>> \in Unit
    BY DEF UnitInv, Unit
  <2> QED BY <1>c, <2>1, <2>2, <2>3, <2>4, <2>5 DEF StepPost
<1>4. CASE Even(a, b, ua, ub, sab, sba, mab, mba, n - 1, cb)
  <2>1. /\ t \in Seq(Signal) /\ LinkInv(t, ub, a, cb, n) /\ ~FirstOpen(t)
        /\ LastOpen(t) <=> (BookedWith(ub, a) /\ ~got)
        /\ got <=> (BookedWith(ub, a) /\ ub[1].deadline <= n)
    BY <1>0, <1>1, <1>4, HearEven DEF Even, t, got
  <2>a. Agree(mab, mba)
    BY <1>1 DEF PairInv
  <2>2. CASE ua[1].deadline <= n /\ got
    <3>1. BookedWith(ub, a) /\ ub[1].deadline <= n /\ ~LastOpen(t)
      BY <2>1, <2>2
    <3>2. PairInv(a, b, <<>>, ub, sab, t, Meets(mab, ua, n), mba, n, cb, n)
      BY <1>0, <1>1, <1>4, <2>1, <2>a, <2>2, <3>1, GoAhead
    <3> QED BY <1>c, <2>1, <2>2, <3>2 DEF step, arrived, t
  <2>3. CASE ~(ua[1].deadline <= n /\ got)
    <3>1. SameBooking(ua, step.unit, got) /\ step.completed = FALSE
      <4>1. ~(ua[1].deadline <= n /\ (ua[1].received \/ arrived))
        BY <1>3, <2>3
      <4>2. SameBooking(ua, step.unit, ua[1].received \/ arrived) /\ step.completed = FALSE
        BY <1>0, <1>2, <4>1, StepWaits DEF step
      <4> QED BY <1>3, <4>2 DEF SameBooking
    <3>2. PairInv(a, b, step.unit, ub, sab, t, mab, mba, n, cb, n)
      BY <1>0, <1>1, <1>4, <2>1, <2>a, <2>3, <3>1, StayEven
    <3>3. LinkInv(sab, step.unit, b, n, n) /\ BookedWith(step.unit, b)
      BY <1>0, <1>1, <3>1, SenderWaits
    <3>4. MetAfter(mab, ua, step.completed, n) = mab
      BY <3>1 DEF MetAfter
    <3>5. step.unit \in Unit /\ UnitInv(step.unit, n)
      BY <1>0, <1>2, <2>3, <3>1 DEF SameBooking, UnitInv
    <3>6. StepPost(a, b, step.unit, ub, sab, t, MetAfter(mab, ua, step.completed, n), mba, cb, n)
      BY <1>0, <2>1, <3>2, <3>3, <3>4, <3>5 DEF StepPost
    <3> QED BY <3>6 DEF step, arrived, t
  <2> QED BY <2>2, <2>3
<1>5. CASE Ahead(a, b, ua, ub, sab, sba, mab, mba, n - 1, cb, n)
  <2>1. /\ t \in Seq(Signal) /\ LinkInv(t, ub, a, cb, n) /\ ~FirstOpen(t)
        /\ LastOpen(t) <=> BookedWith(ub, a)
        /\ got
    BY <1>0, <1>1, <1>5, HearAhead DEF t, got
  <2>2. ua[1].deadline <= n
    <3>1. n = Later(mba[Len(mba)].deadline, ua[1].deadline) /\ Len(mba) = Len(mab) + 1
      BY <1>5 DEF Ahead
    <3>2. Len(mba) \in 1..Len(mba)
      BY <1>0, <3>1
    <3>3. mba[Len(mba)].deadline \in Int
      <4>1. mba[Len(mba)] \in Meeting
        BY <1>0, <3>2
      <4> QED BY <4>1 DEF Meeting
    <3> QED BY <3>1, <3>3, <1>2, LaterFacts
  <2>3. PairInv(a, b, <<>>, ub, sab, t, Meets(mab, ua, n), mba, n, cb, n)
    <3>1. Agree(mab, mba)
      BY <1>1 DEF PairInv
    <3> QED BY <1>0, <1>5, <2>1, <3>1, CatchUp
  <2> QED BY <1>c, <2>1, <2>2, <2>3 DEF step, arrived, t
<1>6. CASE Ahead(b, a, ub, ua, sba, sab, mba, mab, cb, n - 1, n)
  BY <1>0, <1>6 DEF Ahead
<1> QED BY <1>1, <1>4, <1>5, <1>6 DEF PairInv

\* The invariant of a pair does not depend on which of the two is named first.
LEMMA PairSymmetric ==
  ASSUME NEW a, NEW b, NEW ua, NEW ub, NEW sab, NEW sba, NEW mab \in Seq(Meeting), NEW mba \in Seq(Meeting),
         NEW ca, NEW cb, NEW n, PairInv(a, b, ua, ub, sab, sba, mab, mba, ca, cb, n)
  PROVE  PairInv(b, a, ub, ua, sba, sab, mba, mab, cb, ca, n)
<1>1. Agree(mba, mab)
  <2> SUFFICES ASSUME NEW k \in 1..Len(mba), k \in 1..Len(mab)
               PROVE  mba[k].tick = mab[k].tick /\ mba[k].tick = Later(mba[k].deadline, mab[k].deadline)
    BY DEF Agree
  <2>1. mab[k].tick = mba[k].tick /\ mab[k].tick = Later(mab[k].deadline, mba[k].deadline)
    BY DEF PairInv, Agree
  <2>2. mab[k].deadline \in Int /\ mba[k].deadline \in Int
    <3>1. mab[k] \in Meeting /\ mba[k] \in Meeting
      OBVIOUS
    <3> QED BY <3>1 DEF Meeting
  <2> QED BY <2>1, <2>2, LaterFacts
<1>2. Even(a, b, ua, ub, sab, sba, mab, mba, ca, cb) => Even(b, a, ub, ua, sba, sab, mba, mab, cb, ca)
  BY DEF Even
<1> QED BY <1>1, <1>2 DEF PairInv

\* A core that is not booked with b may run: the pair with b does not notice.
LEMMA ClockOther ==
  ASSUME NEW a, NEW b, NEW ua, NEW ub, NEW sab, NEW sba, NEW mab, NEW mba, NEW cb, NEW n \in Nat,
         ~BookedWith(ua, b), PairInv(a, b, ua, ub, sab, sba, mab, mba, n - 1, cb, n)
  PROVE  PairInv(a, b, ua, ub, sab, sba, mab, mba, n, cb, n)
<1>1. CASE Even(a, b, ua, ub, sab, sba, mab, mba, n - 1, cb)
  <2>1. Hears(ua, ub, a, b, sba, n)
    BY <1>1 DEF Even, Hears, ReceivedFrom
  <2> QED BY <1>1, <2>1 DEF Even, PairInv
<1>2. CASE ~Even(a, b, ua, ub, sab, sba, mab, mba, n - 1, cb)
  <2>1. n - 1 # n
    OBVIOUS
  <2> QED BY <1>2, <2>1 DEF PairInv, Ahead
<1> QED BY <1>1, <1>2

\* Neither does it notice what the core books with others.
LEMMA UnitOther ==
  ASSUME NEW a, NEW b, NEW ua, NEW w, NEW ub, NEW sab, NEW sba, NEW mab, NEW mba, NEW ca, NEW cb, NEW n,
         ~BookedWith(ua, b), ~BookedWith(w, b), PairInv(a, b, ua, ub, sab, sba, mab, mba, ca, cb, n)
  PROVE  PairInv(a, b, w, ub, sab, sba, mab, mba, ca, cb, n)
<1>0. ~ReceivedFrom(ua, b) /\ ~ReceivedFrom(w, b)
  BY DEF ReceivedFrom
<1>1. CASE Even(a, b, ua, ub, sab, sba, mab, mba, ca, cb)
  <2>1. Hears(w, ub, a, b, sba, ca)
    BY <1>0, <1>1 DEF Even, Hears
  <2>2. Hears(ub, w, b, a, sab, cb)
    BY <1>0, <1>1 DEF Even, Hears
  <2> QED BY <1>1, <2>1, <2>2 DEF Even, PairInv
<1>2. CASE Ahead(a, b, ua, ub, sab, sba, mab, mba, ca, cb, n)
  BY <1>2 DEF Ahead
<1>3. CASE Ahead(b, a, ub, ua, sba, sab, mba, mab, cb, ca, n)
  <2>1. Ahead(b, a, ub, w, sba, sab, mba, mab, cb, ca, n)
    BY <1>3 DEF Ahead
  <2> QED BY <2>1 DEF PairInv
<1> QED BY <1>1, <1>2, <1>3 DEF PairInv

-----------------------------------------------------------------------------
(* One pair of neighbours: a booking.                                      *)

\* Appending to a sequence of one signal.
LEMMA AppendToOne ==
  ASSUME NEW o \in Seq(Signal), NEW x \in Signal
  PROVE  Len(o) = 1 => /\ Append(o, x) \in Seq(Signal) /\ Len(Append(o, x)) = 2
                       /\ Append(o, x)[1] = o[1] /\ Append(o, x)[2] = x
<1>1. Append(o, x) \in Seq(Signal) /\ Len(Append(o, x)) = Len(o) + 1
  BY AppendProperties
<1>2. Append(o, x)[Len(o) + 1] = x
  BY AppendProperties
<1>3. \A i \in 1..Len(o) : Append(o, x)[i] = o[i]
  BY AppendProperties
<1>4. ASSUME Len(o) = 1 PROVE 1 \in 1..Len(o) /\ Len(o) + 1 = 2
  BY <1>4
<1> QED BY <1>1, <1>2, <1>3, <1>4

\* send from a core that holds no booking: at most the last signal still holds a slot,
\* and the new signal comes behind it.
LEMMA SendFacts ==
  ASSUME NEW s \in Seq(Signal), NEW b, NEW n \in Nat, NEW d \in Nat \ {0},
         LinkInv(s, <<>>, b, n, n), ~FirstOpen(s)
  PROVE  /\ Len(Occupying(s, n)) \in {0, 1}
         /\ Send(s, d, n) \in Seq(Signal) /\ Send(s, d, n) # <<>>
         /\ LET t == Send(s, d, n)
            IN  /\ Unconsumed(t[Len(t)]) /\ t[Len(t)].arrival = n + d
                /\ \/ Len(t) = 1 /\ ~LastOpen(s)
                   \/ Len(t) = 2 /\ s # <<>> /\ t[1] = s[Len(s)] /\ t[1].arrival <= n
                      /\ (Unconsumed(t[1]) \/ t[1].consumed[1] <= n)
<1>0. Len(s) \in Nat /\ Len(s) <= 2 /\ ~BookedWith(<<>>, b)
  BY DEF LinkInv, BookedWith
<1>1. Len(s) = 2 => ~Occupies(s[1], n)
  <2> SUFFICES ASSUME Len(s) = 2 PROVE ~Occupies(s[1], n)
    OBVIOUS
  <2>0. 1 \in 1..Len(s) /\ 2 \in 1..Len(s)
    OBVIOUS
  <2>1. s[1] \in Signal /\ s[2] \in Signal /\ ~Unconsumed(s[1])
    <3>1. s[1] \in Signal /\ s[2] \in Signal
      BY <2>0, ElementOfSeq
    <3> QED BY <3>1 DEF FirstOpen
  <2>2. s[1].consumed[1] < s[2].arrival /\ s[2].arrival <= n
    <3>1. s # <<>>
      OBVIOUS
    <3> QED BY <1>0, <2>1, <3>1 DEF LinkInv
  <2>3. s[1].consumed[1] \in Int /\ s[2].arrival \in Int
    BY <2>1 DEF Signal, Unconsumed
  <2> QED BY <2>1, <2>2, <2>3 DEF Occupies
<1> DEFINE o == Occupying(s, n)
           x == [arrival |-> n + d, consumed |-> <<>>]
<1>2. o = IF s # <<>> /\ Occupies(s[Len(s)], n) THEN <<s[Len(s)]>> ELSE <<>>
  BY <1>0, <1>1, OccupyingLast
<1>3. x \in Signal /\ Unconsumed(x) /\ x.arrival = n + d
  BY DEF Signal, Unconsumed
<1>4. Send(s, d, n) = Append(o, x)
  BY DEF Send
<1> HIDE DEF x, o
<1>5. CASE s # <<>> /\ Occupies(s[Len(s)], n)
  <2>1. Len(s) \in 1..Len(s)
    BY <1>0, <1>5
  <2>2. s[Len(s)] \in Signal
    BY <2>1
  <2>3. o \in Seq(Signal) /\ Len(o) = 1 /\ o[1] = s[Len(s)]
    BY <1>2, <1>5, <2>2
  <2>4. s[Len(s)].arrival <= n /\ (Unconsumed(s[Len(s)]) \/ s[Len(s)].consumed[1] <= n)
    BY <1>0, <1>5, <2>1 DEF LinkInv
  <2>5. /\ Append(o, x) \in Seq(Signal) /\ Len(Append(o, x)) = 2
        /\ Append(o, x)[1] = o[1] /\ Append(o, x)[2] = x
    BY <1>3, <2>3, AppendToOne
  <2>6. Append(o, x) # <<>>
    BY <2>5
  <2> QED BY <1>3, <1>4, <1>5, <2>3, <2>4, <2>5, <2>6 DEF o
<1>6. CASE ~(s # <<>> /\ Occupies(s[Len(s)], n))
  <2>1. o = <<>>
    BY <1>2, <1>6
  <2>2. /\ Append(<<>>, x) \in Seq(Signal) /\ Len(Append(<<>>, x)) = 1
        /\ Append(<<>>, x)[1] = x /\ Append(<<>>, x) # <<>>
    BY <1>3
  <2>3. ~LastOpen(s)
    BY <1>6 DEF LastOpen, Occupies
  <2>4. Len(<<>>) = 0
    OBVIOUS
  <2> QED BY <1>3, <1>4, <2>1, <2>2, <2>3, <2>4 DEF o
<1> QED BY <1>5, <1>6

\* w holds a new booking with b.
Books(w, b, e) ==
  /\ w \in Unit /\ w # <<>> /\ BookedWith(w, b)
  /\ w[1].target = b /\ w[1].deadline = e /\ w[1].received = FALSE

\* The unit after SyncUnit::book.
LEMMA NewBooking ==
  ASSUME NEW b \in Cores, NEW e \in Int
  PROVE  Books(<<BookingOf(b, e)>>, b, e)
BY DEF BookingOf, Unit, Booking, BookedWith, Books

\* What a booking of a with b needs of the pair and what it leaves.
BookPre(a, b, ub, sab, sba, mab, mba, cb, n, d) ==
  /\ PairTypes(<<>>, ub, sab, sba, mab, mba, n, cb, n)
  /\ b \in Cores /\ d \in Nat \ {0}
  /\ LinkInv(sab, <<>>, b, n, n)
  /\ PairInv(a, b, <<>>, ub, sab, sba, mab, mba, n, cb, n)

BookPost(a, b, w, ub, t, sba, mab, mba, cb, n) ==
  /\ w \in Unit /\ BookedWith(w, b) /\ w[1].target = b
  /\ t \in Seq(Signal)
  /\ UnitInv(w, n)
  /\ LinkInv(t, w, b, n, n)
  /\ PairInv(a, b, w, ub, t, sba, mab, mba, n, cb, n)

\* A core that has run and holds no booking has at most its last signal open.
LEMMA IdleSender ==
  ASSUME NEW a, NEW b, NEW ub, NEW sab, NEW sba, NEW mab, NEW mba, NEW cb, NEW n \in Nat,
         PairInv(a, b, <<>>, ub, sab, sba, mab, mba, n, cb, n)
  PROVE  /\ ~FirstOpen(sab)
         /\ \/ Even(a, b, <<>>, ub, sab, sba, mab, mba, n, cb)
            \/ Ahead(b, a, ub, <<>>, sba, sab, mba, mab, cb, n, n)
<1>1. ~BookedWith(<<>>, b) /\ n # n - 1
  BY DEF BookedWith
<1>2. ~Ahead(a, b, <<>>, ub, sab, sba, mab, mba, n, cb, n)
  BY <1>1 DEF Ahead
<1>3. CASE Even(a, b, <<>>, ub, sab, sba, mab, mba, n, cb)
  BY <1>3 DEF Even, Hears
<1>4. CASE Ahead(b, a, ub, <<>>, sba, sab, mba, mab, cb, n, n)
  BY <1>1, <1>4 DEF Ahead
<1> QED BY <1>2, <1>3, <1>4 DEF PairInv

\* SyncUnit::book keeps the invariant of the pair, whether the partners are even or
\* the booking core is one meeting ahead.
LEMMA BookPair ==
  ASSUME NEW a, NEW b, NEW ub, NEW sab, NEW sba, NEW mab, NEW mba, NEW cb, NEW n, NEW d,
         BookPre(a, b, ub, sab, sba, mab, mba, cb, n, d)
  PROVE  BookPost(a, b, <<BookingOf(b, n + d)>>, ub, Send(sab, d, n), sba, mab, mba, cb, n)
<1> DEFINE w == <<BookingOf(b, n + d)>>
           t == Send(sab, d, n)
<1>0. /\ ub \in Unit /\ sab \in Seq(Signal) /\ n \in Nat /\ cb \in {n - 1, n}
      /\ b \in Cores /\ d \in Nat \ {0}
      /\ LinkInv(sab, <<>>, b, n, n)
      /\ PairInv(a, b, <<>>, ub, sab, sba, mab, mba, n, cb, n)
  BY DEF BookPre, PairTypes
<1>1. ~FirstOpen(sab)
  BY <1>0, IdleSender
<1>2. /\ t \in Seq(Signal) /\ t # <<>> /\ Unconsumed(t[Len(t)]) /\ t[Len(t)].arrival = n + d
      /\ \/ Len(t) = 1 /\ ~LastOpen(sab)
         \/ Len(t) = 2 /\ sab # <<>> /\ t[1] = sab[Len(sab)] /\ t[1].arrival <= n
            /\ (Unconsumed(t[1]) \/ t[1].consumed[1] <= n)
  BY <1>0, <1>1, SendFacts
<1>3. n + d \in Int /\ n + d > n
  BY <1>0
<1>4. /\ w \in Unit /\ w # <<>> /\ BookedWith(w, b)
      /\ w[1].target = b /\ w[1].deadline = n + d /\ w[1].received = FALSE
  <2>1. Books(w, b, n + d)
    BY <1>0, <1>3, NewBooking
  <2> QED BY <2>1 DEF Books
<1> HIDE DEF w, t
<1>5. LastOpen(t) /\ (FirstOpen(t) <=> LastOpen(sab)) /\ (FirstOpen(t) => t[1].arrival <= n)
  <2>1. LastOpen(t)
    BY <1>2 DEF LastOpen
  <2>2. CASE Len(t) = 1
    <3>1. ~LastOpen(sab) /\ ~FirstOpen(t)
      BY <1>2, <2>2 DEF FirstOpen
    <3> QED BY <2>1, <3>1
  <2>3. CASE Len(t) = 2
    <3>1. sab # <<>> /\ t[1] = sab[Len(sab)] /\ t[1].arrival <= n
      BY <1>2, <2>3
    <3> QED BY <2>1, <2>3, <3>1 DEF LastOpen, FirstOpen
  <2> QED BY <1>2, <2>2, <2>3
<1>6. LinkInv(t, w, b, n, n)
  <2>1. \A i \in 1..Len(t) : Unconsumed(t[i]) \/ t[i].consumed[1] <= n
    BY <1>2
  <2>2. Len(t) <= 2 /\ ((Len(t) = 2 /\ ~Unconsumed(t[1])) => t[1].consumed[1] < t[2].arrival)
    <3>1. CASE Len(t) = 1
      BY <3>1
    <3>2. CASE Len(t) = 2
      <4>1. t[1] \in Signal
        BY <1>2, <3>2
      <4>2. ~Unconsumed(t[1]) => t[1].consumed[1] \in Int /\ t[1].consumed[1] <= n
        BY <1>2, <3>2, <4>1 DEF Signal, Unconsumed
      <4> QED BY <1>0, <1>2, <1>3, <3>2, <4>2
    <3> QED BY <1>2, <3>1, <3>2
  <2> QED BY <1>2, <1>4, <2>1, <2>2 DEF LinkInv
<1>7. UnitInv(w, n)
  BY <1>4 DEF UnitInv
<1>8. ~BookedWith(<<>>, b) /\ ~ReceivedFrom(<<>>, b) /\ ~ReceivedFrom(w, b)
  BY <1>4 DEF BookedWith, ReceivedFrom
<1>9. PairInv(a, b, w, ub, t, sba, mab, mba, n, cb, n)
  <2>a. Agree(mab, mba)
    BY <1>0 DEF PairInv
  <2>1. CASE Even(a, b, <<>>, ub, sab, sba, mab, mba, n, cb)
    <3>0. BookedWith(ub, a) => ub[1].deadline \in Int
      BY <1>0, UnitHeld DEF BookedWith, Booking
    <3>1. BookedWith(ub, a) => /\ Later(w[1].deadline, ub[1].deadline) > n
                               /\ Later(ub[1].deadline, w[1].deadline) > cb
      <4> SUFFICES ASSUME BookedWith(ub, a)
                   PROVE  /\ Later(w[1].deadline, ub[1].deadline) > n
                          /\ Later(ub[1].deadline, w[1].deadline) > cb
        OBVIOUS
      <4>1. /\ Later(w[1].deadline, ub[1].deadline) \in Int
            /\ Later(w[1].deadline, ub[1].deadline) >= n + d
            /\ Later(ub[1].deadline, w[1].deadline) = Later(w[1].deadline, ub[1].deadline)
        BY <1>3, <1>4, <3>0, LaterFacts
      <4> QED BY <1>0, <1>3, <4>1
    <3>2. ~ReceivedFrom(ub, a)
      BY <2>1, <1>8 DEF Even, Hears
    <3>3. ~FirstOpen(t)
      BY <2>1, <1>5, <1>8 DEF Even, Hears
    <3>4. Hears(w, ub, a, b, sba, n)
      BY <2>1, <1>8, <3>1 DEF Even, Hears
    <3>5. Hears(ub, w, b, a, t, cb)
      BY <1>4, <1>5, <3>1, <3>2, <3>3 DEF Hears
    <3> QED BY <2>1, <2>a, <3>4, <3>5 DEF Even, PairInv
  <2>2. CASE Ahead(b, a, ub, <<>>, sba, sab, mba, mab, cb, n, n)
    <3>1. LastOpen(sab) <=> ~ReceivedFrom(ub, a)
      BY <1>8, <2>2 DEF Ahead
    <3>2. Ahead(b, a, ub, w, sba, t, mba, mab, cb, n, n)
      BY <2>2, <1>3, <1>4, <1>5, <3>1 DEF Ahead
    <3> QED BY <2>a, <3>2 DEF PairInv
  <2> QED BY <1>0, <2>1, <2>2, IdleSender
<1>10. BookPost(a, b, w, ub, t, sba, mab, mba, cb, n)
  BY <1>2, <1>4, <1>6, <1>7, <1>9 DEF BookPost
<1> QED BY <1>10 DEF w, t

-----------------------------------------------------------------------------
(* The network: what one core does at an edge.                             *)

\* Links connect two different cores in both directions, with a positive delay.
LEMMA LinkFacts ==
  /\ \A a, b : <<a, b>> \in Links => a \in Cores /\ b \in Cores /\ a # b /\ <<b, a>> \in Links
  /\ \A l \in Links : Delay[l] \in Nat \ {0}
<1>1. \A a, b : <<a, b>> \in Links => a \in Cores /\ b \in Cores
  BY SyncAssumption DEF Links
<1>2. \A a, b : <<a, b>> \in Links => a # b /\ <<b, a>> \in Links
  <2> SUFFICES ASSUME NEW a, NEW b, <<a, b>> \in Links PROVE a # b /\ <<b, a>> \in Links
    OBVIOUS
  <2>1. <<a, b>>[1] # <<a, b>>[2] /\ << <<a, b>>[2], <<a, b>>[1] >> \in Links
    BY SyncAssumption DEF Links
  <2>2. <<a, b>>[1] = a /\ <<a, b>>[2] = b
    OBVIOUS
  <2> QED BY <2>1, <2>2
<1>3. \A l \in Links : Delay[l] \in Nat \ {0}
  BY SyncAssumption DEF Links
<1> QED BY <1>1, <1>2, <1>3

\* The types of what a pair of neighbours keeps.
LEMMA PairAtTypes ==
  ASSUME NEW S, NEW P, NEW M, NEW D, NEW n \in Nat, Types(S, P, M),
         NEW a, NEW b, <<a, b>> \in Links
  PROVE  PairTypes(P[a], P[b], S[<<a, b>>], S[<<b, a>>], M[<<a, b>>], M[<<b, a>>],
                   Clk(D, n, a), Clk(D, n, b), n)
<1>1. a \in Cores /\ b \in Cores /\ <<b, a>> \in Links
  BY LinkFacts
<1>2. P[a] \in Unit /\ P[b] \in Unit
  BY <1>1 DEF Types
<1>3. /\ S[<<a, b>>] \in Seq(Signal) /\ S[<<b, a>>] \in Seq(Signal)
      /\ M[<<a, b>>] \in Seq(Meeting) /\ M[<<b, a>>] \in Seq(Meeting)
  BY <1>1 DEF Types
<1>4. Clk(D, n, a) \in {n - 1, n} /\ Clk(D, n, b) \in {n - 1, n}
  BY DEF Clk
<1> QED BY <1>2, <1>3, <1>4 DEF PairTypes

\* From S, P, M to T, Q, N only core c and its two links with y change.
Touches(S, P, M, T, Q, N, c, y) ==
  /\ \A x \in Cores : x # c => Q[x] = P[x]
  /\ P[c] = <<>> \/ BookedWith(P[c], y)
  /\ Q[c] = <<>> \/ BookedWith(Q[c], y)
  /\ \A l \in Links : l # <<c, y>> /\ l # <<y, c>> => T[l] = S[l] /\ N[l] = M[l]

\* A core c that changes only its unit and its two links with y keeps the invariant of
\* the network if it keeps that of the pair: the pairs without c are untouched, and
\* those of c with others do not notice.
LEMMA NetChange ==
  ASSUME NEW S, NEW P, NEW M, NEW T, NEW Q, NEW N, NEW D, NEW E, NEW n \in Nat,
         NEW c, NEW y, <<c, y>> \in Links,
         NetInv(S, P, M, D, n), Types(T, Q, N), E = D \cup {c},
         Touches(S, P, M, T, Q, N, c, y),
         UnitAt(Q, E, n, c), LinkAt(T, Q, E, n, c, y), LinkAt(T, Q, E, n, y, c),
         PairAt(T, Q, N, E, n, c, y)
  PROVE  NetInv(T, Q, N, E, n)
<1>0. c \in Cores /\ y \in Cores /\ c # y /\ <<y, c>> \in Links
  BY LinkFacts
<1>1. Types(S, P, M)
  BY DEF NetInv
<1>2. \A x : x # c => Clk(E, n, x) = Clk(D, n, x)
  BY DEF Clk
<1>3. Clk(E, n, c) = n /\ Clk(D, n, c) \in {n - 1, n}
  BY DEF Clk
<1>4. \A x \in Cores : x # c => Q[x] = P[x]
  BY DEF Touches
<1>5. \A z : z # y => ~BookedWith(P[c], z) /\ ~BookedWith(Q[c], z)
  BY DEF Touches, BookedWith
<1>6. \A a, b : (<<a, b>> \in Links /\ <<a, b>> # <<c, y>> /\ <<a, b>> # <<y, c>>)
                  => T[<<a, b>>] = S[<<a, b>>] /\ N[<<a, b>>] = M[<<a, b>>]
  BY DEF Touches
<1>7. \A x \in Cores : UnitAt(Q, E, n, x)
  <2> SUFFICES ASSUME NEW x \in Cores, x # c PROVE UnitAt(Q, E, n, x)
    OBVIOUS
  <2>1. UnitAt(P, D, n, x)
    BY DEF NetInv
  <2> QED BY <2>1, <1>2, <1>4 DEF UnitAt
<1>8. \A a, b \in Cores : <<a, b>> \in Links => LinkAt(T, Q, E, n, a, b)
  <2> SUFFICES ASSUME NEW a \in Cores, NEW b \in Cores, <<a, b>> \in Links,
                      <<a, b>> # <<c, y>>, <<a, b>> # <<y, c>>
               PROVE  LinkAt(T, Q, E, n, a, b)
    OBVIOUS
  <2>1. LinkAt(S, P, D, n, a, b)
    BY DEF NetInv
  <2>2. T[<<a, b>>] = S[<<a, b>>]
    BY <1>6
  <2>3. CASE a # c
    BY <2>1, <2>2, <2>3, <1>2, <1>4 DEF LinkAt
  <2>4. CASE a = c
    <3>1. b # y
      BY <2>4
    <3>2. ~BookedWith(P[c], b) /\ ~BookedWith(Q[c], b)
      BY <3>1, <1>5
    <3>3. S[<<a, b>>] \in Seq(Signal)
      BY <1>1 DEF Types
    <3>4. S[<<a, b>>] # <<>> => S[<<a, b>>][Len(S[<<a, b>>])] \in Signal
      BY <3>3, EmptySeq, ElementOfSeq
    <3>5. S[<<a, b>>] # <<>> => S[<<a, b>>][Len(S[<<a, b>>])].arrival <= n
      <4>1. S[<<a, b>>] # <<>> => S[<<a, b>>][Len(S[<<a, b>>])].arrival \in Int
        BY <3>4 DEF Signal
      <4>2. S[<<a, b>>] # <<>> => S[<<a, b>>][Len(S[<<a, b>>])].arrival <= Clk(D, n, c)
        BY <2>1, <2>4, <3>2 DEF LinkAt, LinkInv
      <4> QED BY <4>1, <4>2, <1>3
    <3> QED BY <2>1, <2>2, <2>4, <3>2, <3>5, <1>3 DEF LinkAt, LinkInv
  <2> QED BY <2>3, <2>4
<1>9. ASSUME NEW z, <<c, z>> \in Links PROVE PairAt(T, Q, N, E, n, c, z)
  <2>1. CASE z = y
    BY <2>1
  <2>2. CASE z # y
    <3>0. z \in Cores /\ z # c /\ <<z, c>> \in Links
      BY <1>9, LinkFacts
    <3>1. PairAt(S, P, M, D, n, c, z)
      BY <1>0, <1>9, <3>0 DEF NetInv
    <3>2. ~BookedWith(P[c], z) /\ ~BookedWith(Q[c], z)
      BY <2>2, <1>5
    <3>3. PairInv(c, z, P[c], P[z], S[<<c, z>>], S[<<z, c>>], M[<<c, z>>], M[<<z, c>>],
                  n, Clk(D, n, z), n)
      <4>1. CASE Clk(D, n, c) = n
        BY <3>1, <4>1 DEF PairAt
      <4>2. CASE Clk(D, n, c) = n - 1
        BY <3>1, <3>2, <4>2, ClockOther DEF PairAt
      <4> QED BY <4>1, <4>2, <1>3
    <3>4. PairInv(c, z, Q[c], P[z], S[<<c, z>>], S[<<z, c>>], M[<<c, z>>], M[<<z, c>>],
                  n, Clk(D, n, z), n)
      BY <3>2, <3>3, UnitOther
    <3>5. /\ Q[z] = P[z] /\ Clk(E, n, z) = Clk(D, n, z)
          /\ T[<<c, z>>] = S[<<c, z>>] /\ T[<<z, c>>] = S[<<z, c>>]
          /\ N[<<c, z>>] = M[<<c, z>>] /\ N[<<z, c>>] = M[<<z, c>>]
      <4>1. <<c, z>> # <<c, y>> /\ <<c, z>> # <<y, c>> /\ <<z, c>> # <<c, y>> /\ <<z, c>> # <<y, c>>
        BY <2>2, <3>0
      <4> QED BY <1>2, <1>4, <1>6, <1>9, <3>0, <4>1
    <3> QED BY <3>4, <3>5, <1>3 DEF PairAt
  <2> QED BY <2>1, <2>2
<1>10. \A a, b \in Cores : <<a, b>> \in Links => PairAt(T, Q, N, E, n, a, b)
  <2> SUFFICES ASSUME NEW a \in Cores, NEW b \in Cores, <<a, b>> \in Links
               PROVE  PairAt(T, Q, N, E, n, a, b)
    OBVIOUS
  <2>0. <<b, a>> \in Links /\ a # b
    BY LinkFacts
  <2>1. CASE a = c
    BY <2>1, <1>9
  <2>2. CASE b = c
    <3>1. PairAt(T, Q, N, E, n, b, a)
      BY <2>0, <2>2, <1>9
    <3>2. N[<<a, b>>] \in Seq(Meeting) /\ N[<<b, a>>] \in Seq(Meeting)
      BY <2>0 DEF Types
    <3> QED BY <3>1, <3>2, PairSymmetric DEF PairAt
  <2>3. CASE a # c /\ b # c
    <3>1. PairAt(S, P, M, D, n, a, b)
      BY DEF NetInv
    <3>2. /\ Q[a] = P[a] /\ Q[b] = P[b]
          /\ Clk(E, n, a) = Clk(D, n, a) /\ Clk(E, n, b) = Clk(D, n, b)
          /\ T[<<a, b>>] = S[<<a, b>>] /\ T[<<b, a>>] = S[<<b, a>>]
          /\ N[<<a, b>>] = M[<<a, b>>] /\ N[<<b, a>>] = M[<<b, a>>]
      <4>1. <<a, b>> # <<c, y>> /\ <<a, b>> # <<y, c>> /\ <<b, a>> # <<c, y>> /\ <<b, a>> # <<y, c>>
        BY <2>3
      <4> QED BY <2>0, <2>3, <1>2, <1>4, <1>6, <4>1
    <3> QED BY <3>1, <3>2 DEF PairAt
  <2> QED BY <2>1, <2>2, <2>3
<1> QED BY <1>7, <1>8, <1>10 DEF NetInv

\* The step of a core without a booking.
LEMMA NetIdle ==
  ASSUME NEW S, NEW P, NEW M, NEW D, NEW n \in Nat, NEW c \in Cores,
         NetInv(S, P, M, D, n), P[c] = <<>>
  PROVE  NetInv(S, P, M, D \cup {c}, n)
<1> DEFINE E == D \cup {c}
<1>1. Types(S, P, M)
  BY DEF NetInv
<1>2. /\ \A x : x # c => Clk(E, n, x) = Clk(D, n, x)
      /\ Clk(E, n, c) = n /\ Clk(D, n, c) \in {n - 1, n}
  BY DEF Clk
<1> HIDE DEF E
<1>3. \A z : ~BookedWith(P[c], z)
  BY DEF BookedWith
<1>7. \A x \in Cores : UnitAt(P, E, n, x)
  <2> TAKE x \in Cores
  <2>1. UnitAt(P, D, n, x)
    BY DEF NetInv
  <2>2. CASE x = c
    BY <2>2 DEF UnitAt, UnitInv
  <2>3. CASE x # c
    BY <2>1, <2>3, <1>2 DEF UnitAt
  <2> QED BY <2>2, <2>3
<1>8. \A a, b \in Cores : <<a, b>> \in Links => LinkAt(S, P, E, n, a, b)
  <2> SUFFICES ASSUME NEW a \in Cores, NEW b \in Cores, <<a, b>> \in Links
               PROVE  LinkAt(S, P, E, n, a, b)
    OBVIOUS
  <2>1. LinkAt(S, P, D, n, a, b)
    BY DEF NetInv
  <2>3. CASE a # c
    BY <2>1, <2>3, <1>2 DEF LinkAt
  <2>4. CASE a = c
    <3>3. S[<<a, b>>] \in Seq(Signal)
      BY <1>1 DEF Types
    <3>4. S[<<a, b>>] # <<>> => S[<<a, b>>][Len(S[<<a, b>>])] \in Signal
      BY <3>3, EmptySeq, ElementOfSeq
    <3>5. S[<<a, b>>] # <<>> => S[<<a, b>>][Len(S[<<a, b>>])].arrival <= n
      <4>1. S[<<a, b>>] # <<>> => S[<<a, b>>][Len(S[<<a, b>>])].arrival \in Int
        BY <3>4 DEF Signal
      <4>2. S[<<a, b>>] # <<>> => S[<<a, b>>][Len(S[<<a, b>>])].arrival <= Clk(D, n, c)
        BY <2>1, <2>4, <1>3 DEF LinkAt, LinkInv
      <4> QED BY <4>1, <4>2, <1>2
    <3> QED BY <2>1, <2>4, <3>5, <1>2, <1>3 DEF LinkAt, LinkInv
  <2> QED BY <2>3, <2>4
<1>9. ASSUME NEW z, <<c, z>> \in Links PROVE PairAt(S, P, M, E, n, c, z)
  <2>0. z \in Cores /\ z # c /\ <<z, c>> \in Links
    BY <1>9, LinkFacts
  <2>1. PairAt(S, P, M, D, n, c, z)
    BY <1>9, <2>0 DEF NetInv
  <2>3. PairInv(c, z, P[c], P[z], S[<<c, z>>], S[<<z, c>>], M[<<c, z>>], M[<<z, c>>],
                n, Clk(D, n, z), n)
    <3>1. CASE Clk(D, n, c) = n
      BY <2>1, <3>1 DEF PairAt
    <3>2. CASE Clk(D, n, c) = n - 1
      BY <2>1, <1>3, <3>2, ClockOther DEF PairAt
    <3> QED BY <3>1, <3>2, <1>2
  <2> QED BY <2>0, <2>3, <1>2 DEF PairAt
<1>10. \A a, b \in Cores : <<a, b>> \in Links => PairAt(S, P, M, E, n, a, b)
  <2> SUFFICES ASSUME NEW a \in Cores, NEW b \in Cores, <<a, b>> \in Links
               PROVE  PairAt(S, P, M, E, n, a, b)
    OBVIOUS
  <2>0. <<b, a>> \in Links /\ a # b
    BY LinkFacts
  <2>1. CASE a = c
    BY <2>1, <1>9
  <2>2. CASE b = c
    <3>1. PairAt(S, P, M, E, n, b, a)
      BY <2>0, <2>2, <1>9
    <3>2. M[<<a, b>>] \in Seq(Meeting) /\ M[<<b, a>>] \in Seq(Meeting)
      BY <1>1, <2>0 DEF Types
    <3> QED BY <3>1, <3>2, PairSymmetric DEF PairAt
  <2>3. CASE a # c /\ b # c
    <3>1. PairAt(S, P, M, D, n, a, b)
      BY DEF NetInv
    <3> QED BY <2>3, <3>1, <1>2 DEF PairAt
  <2> QED BY <2>1, <2>2, <2>3
<1> QED BY <1>1, <1>7, <1>8, <1>10 DEF NetInv, E

\* Heard, Stepped and the history of Serve, as functions of the state.
HeardNet(S, P, n, c) ==
  IF Listens(P[c]) THEN [S EXCEPT ![<<P[c][1].target, c>>] = Receive(@, n)] ELSE S
StepOf(S, P, n, c) ==
  StepUnit(P[c], Listens(P[c]) /\ Receivable(S[<<P[c][1].target, c>>], n) # {}, n)
MetNet(S, P, M, n, c) ==
  IF StepOf(S, P, n, c).completed
    THEN [M EXCEPT ![<<c, P[c][1].target>>] = Append(@, [tick |-> n, deadline |-> P[c][1].deadline])]
    ELSE M

\* SyncUnit::step of core c, with what it receives and the meeting it completes, keeps
\* the invariant of the network.
LEMMA NetStep ==
  ASSUME NEW S, NEW P, NEW M, NEW D, NEW n \in Nat, NEW c \in Cores, c \notin D,
         NetInv(S, P, M, D, n)
  PROVE  /\ StepOf(S, P, n, c).unit \in Unit
         /\ NetInv(HeardNet(S, P, n, c), [P EXCEPT ![c] = StepOf(S, P, n, c).unit],
                   MetNet(S, P, M, n, c), D \cup {c}, n)
<1>1. Types(S, P, M)
  BY DEF NetInv
<1>2. CASE P[c] = <<>>
  <2>1. ~Listens(P[c])
    BY <1>2 DEF Listens
  <2>2. StepOf(S, P, n, c) = [unit |-> <<>>, paused |-> FALSE, completed |-> FALSE]
    BY <1>2 DEF StepOf, StepUnit
  <2>3. HeardNet(S, P, n, c) = S /\ MetNet(S, P, M, n, c) = M /\ StepOf(S, P, n, c).unit = <<>>
    BY <2>1, <2>2 DEF HeardNet, MetNet
  <2>4. [P EXCEPT ![c] = <<>>] = P
    BY <1>1, <1>2 DEF Types
  <2>5. <<>> \in Unit
    BY DEF Unit
  <2> QED BY <2>3, <2>4, <2>5, <1>2, NetIdle
<1>3. CASE P[c] # <<>>
  <2> DEFINE y == P[c][1].target
             ua == P[c]  ub == P[y]
             sab == S[<<c, y>>]  sba == S[<<y, c>>]
             mab == M[<<c, y>>]  mba == M[<<y, c>>]
             cb == Clk(D, n, y)
             E == D \cup {c}
             step == StepUnit(ua, Arrives(ua, sba, n), n)
             t == HeardOn(ua, sba, n)
             m == MetAfter(mab, ua, step.completed, n)
             T == HeardNet(S, P, n, c)
             Q == [P EXCEPT ![c] = StepOf(S, P, n, c).unit]
             N == MetNet(S, P, M, n, c)
  <2>1. <<c, y>> \in Links /\ <<y, c>> \in Links /\ y \in Cores /\ y # c
    BY <1>1, <1>3, LinkFacts DEF Types
  <2>2. StepOf(S, P, n, c) = step
    BY Zenon DEF StepOf, Arrives
  <2>3. BookedWith(ua, y)
    BY <1>3 DEF BookedWith
  <2>4. Clk(D, n, c) = n - 1 /\ Clk(E, n, c) = n /\ Clk(E, n, y) = cb
    BY <2>1 DEF Clk
  <2>5. StepPre(c, y, ua, ub, sab, sba, mab, mba, cb, n)
    <3>1. PairTypes(ua, ub, sab, sba, mab, mba, n - 1, cb, n)
      BY <1>1, <2>1, <2>4, PairAtTypes
    <3>2. LinkAt(S, P, D, n, c, y) /\ LinkAt(S, P, D, n, y, c) /\ PairAt(S, P, M, D, n, c, y)
      BY <2>1 DEF NetInv
    <3> HIDE DEF y
    <3> QED BY <2>3, <2>4, <3>1, <3>2 DEF LinkAt, PairAt, StepPre
  <2>6. StepPost(c, y, step.unit, ub, sab, t, m, mba, cb, n)
    <3> HIDE DEF y
    <3> QED BY <2>5, StepBooked
  <2>7. P \in [Cores -> Unit] /\ S \in [Links -> Seq(Signal)] /\ M \in [Links -> Seq(Meeting)]
    BY <1>1 DEF Types
  <2>8. step.unit \in Unit /\ t \in Seq(Signal) /\ m \in Seq(Meeting)
        /\ (step.unit = <<>> \/ BookedWith(step.unit, y))
    BY <2>6 DEF StepPost
  <2>9. T = [S EXCEPT ![<<y, c>>] = t]
    BY <2>1, <2>7, Zenon DEF HeardNet, HeardOn
  <2>10. N = [M EXCEPT ![<<c, y>>] = m]
    BY <2>1, <2>2, <2>7 DEF MetNet, MetAfter, Meets
  <2>11. Q = [P EXCEPT ![c] = step.unit]
    BY <2>2
  <2> HIDE DEF T, Q, N, step, t, m, y
  <2>12. /\ Q[c] = step.unit /\ Q[y] = ub /\ \A x \in Cores : x # c => Q[x] = P[x]
         /\ Q \in [Cores -> Unit]
    BY <2>1, <2>7, <2>8, <2>11
  <2>13. <<c, y>> # <<y, c>>
    BY <2>1
  <2>14. /\ T[<<y, c>>] = t /\ T[<<c, y>>] = sab /\ T \in [Links -> Seq(Signal)]
         /\ \A l \in Links : l # <<y, c>> => T[l] = S[l]
    BY <2>1, <2>7, <2>8, <2>9, <2>13
  <2>15. /\ N[<<c, y>>] = m /\ N[<<y, c>>] = mba /\ N \in [Links -> Seq(Meeting)]
         /\ \A l \in Links : l # <<c, y>> => N[l] = M[l]
    BY <2>1, <2>7, <2>8, <2>10, <2>13
  <2>16. Types(T, Q, N)
    <3>1. \A x \in Cores : Q[x] = <<>> \/ <<x, Q[x][1].target>> \in Links
      <4> TAKE x \in Cores
      <4>1. CASE x = c
        BY <2>1, <2>8, <2>12, <4>1 DEF BookedWith
      <4>2. CASE x # c
        BY <1>1, <2>12, <4>2 DEF Types
      <4> QED BY <4>1, <4>2
    <3> QED BY <2>12, <2>14, <2>15, <3>1 DEF Types
  <2>17. Touches(S, P, M, T, Q, N, c, y)
    BY <2>3, <2>8, <2>12, <2>14, <2>15 DEF Touches
  <2>18. UnitAt(Q, E, n, c) /\ LinkAt(T, Q, E, n, c, y) /\ LinkAt(T, Q, E, n, y, c)
    BY <2>4, <2>6, <2>12, <2>14 DEF StepPost, UnitAt, LinkAt
  <2>19. PairAt(T, Q, N, E, n, c, y)
    BY <2>4, <2>6, <2>12, <2>14, <2>15 DEF StepPost, PairAt
  <2>20. NetInv(T, Q, N, E, n)
    BY <2>1, <2>16, <2>17, <2>18, <2>19, NetChange
  <2> QED BY <2>2, <2>8, <2>20 DEF T, Q, N
<1> QED BY <1>2, <1>3

\* SyncUnit::book of core c after its step keeps the invariant of the network, and its
\* link has held at most one slot.
LEMMA NetBook ==
  ASSUME NEW S, NEW P, NEW M, NEW D, NEW n \in Nat, NEW c \in D, NEW y, <<c, y>> \in Links,
         NetInv(S, P, M, D, n), P[c] = <<>>
  PROVE  /\ Len(Occupying(S[<<c, y>>], n)) \in {0, 1}
         /\ NetInv([S EXCEPT ![<<c, y>>] = Send(@, Delay[<<c, y>>], n)],
                   [P EXCEPT ![c] = <<BookingOf(y, n + Delay[<<c, y>>])>>], M, D, n)
<1> DEFINE d == Delay[<<c, y>>]
           ub == P[y]
           sab == S[<<c, y>>]  sba == S[<<y, c>>]
           mab == M[<<c, y>>]  mba == M[<<y, c>>]
           cb == Clk(D, n, y)
           w == <<BookingOf(y, n + d)>>
           t == Send(sab, d, n)
           T == [S EXCEPT ![<<c, y>>] = t]
           Q == [P EXCEPT ![c] = w]
<1>1. Types(S, P, M)
  BY DEF NetInv
<1>2. c \in Cores /\ y \in Cores /\ c # y /\ <<y, c>> \in Links /\ d \in Nat \ {0}
  BY LinkFacts
<1>3. Clk(D, n, c) = n /\ D = D \cup {c}
  BY DEF Clk
<1>4. LinkAt(S, P, D, n, c, y) /\ LinkAt(S, P, D, n, y, c) /\ PairAt(S, P, M, D, n, c, y)
  BY <1>2 DEF NetInv
<1>5. BookPre(c, y, ub, sab, sba, mab, mba, cb, n, d)
  <2>1. PairTypes(<<>>, ub, sab, sba, mab, mba, n, cb, n)
    BY <1>1, <1>2, <1>3, PairAtTypes
  <2> QED BY <1>2, <1>3, <1>4, <2>1 DEF BookPre, LinkAt, PairAt
<1>6. BookPost(c, y, w, ub, t, sba, mab, mba, cb, n)
  BY <1>5, BookPair
<1>7. Len(Occupying(sab, n)) \in {0, 1}
  <2>1. ~FirstOpen(sab)
    BY <1>5, IdleSender DEF BookPre
  <2>2. sab \in Seq(Signal)
    BY <1>1, <1>2 DEF Types
  <2>3. LinkInv(sab, <<>>, y, n, n)
    BY <1>5 DEF BookPre
  <2> HIDE DEF sab
  <2> QED BY <1>2, <2>1, <2>2, <2>3, SendFacts
<1>8. P \in [Cores -> Unit] /\ S \in [Links -> Seq(Signal)] /\ M \in [Links -> Seq(Meeting)]
  BY <1>1 DEF Types
<1>9. w \in Unit /\ BookedWith(w, y) /\ w[1].target = y /\ t \in Seq(Signal)
  BY <1>6 DEF BookPost
<1> HIDE DEF w, t
<1>10. /\ Q[c] = w /\ Q[y] = ub /\ (\A x \in Cores : x # c => Q[x] = P[x])
       /\ Q \in [Cores -> Unit]
  BY <1>2, <1>8, <1>9
<1>11. <<c, y>> # <<y, c>>
  BY <1>2
<1>12. /\ T[<<c, y>>] = t /\ T[<<y, c>>] = sba /\ T \in [Links -> Seq(Signal)]
       /\ \A l \in Links : l # <<c, y>> => T[l] = S[l]
  BY <1>2, <1>8, <1>9, <1>11
<1> HIDE DEF T, Q
<1>13. Types(T, Q, M)
  <2>1. \A x \in Cores : Q[x] = <<>> \/ <<x, Q[x][1].target>> \in Links
    <3> TAKE x \in Cores
    <3>1. CASE x = c
      BY <1>9, <1>10, <3>1
    <3>2. CASE x # c
      BY <1>1, <1>10, <3>2 DEF Types
    <3> QED BY <3>1, <3>2
  <2> QED BY <1>8, <1>10, <1>12, <2>1 DEF Types
<1>14. Touches(S, P, M, T, Q, M, c, y)
  BY <1>9, <1>10, <1>12 DEF Touches
<1>15. UnitAt(Q, D, n, c) /\ LinkAt(T, Q, D, n, c, y) /\ LinkAt(T, Q, D, n, y, c)
  BY <1>3, <1>4, <1>6, <1>10, <1>12 DEF BookPost, UnitAt, LinkAt
<1>16. PairAt(T, Q, M, D, n, c, y)
  BY <1>3, <1>6, <1>10, <1>12 DEF BookPost, PairAt
<1>17. NetInv(T, Q, M, D, n)
  BY <1>3, <1>13, <1>14, <1>15, <1>16, NetChange
<1> QED BY <1>7, <1>17 DEF T, Q, t, w

-----------------------------------------------------------------------------
(* The simulator's edges.                                                  *)

\* Each core runs once within an edge, and all have run when it is done.
LEMMA OrderFacts ==
  ASSUME EdgeTypes
  PROVE  /\ order \in Seq(Cores) /\ Len(order) \in Nat
         /\ ~EdgeDone => turn \in 1..Len(order) /\ order[turn] \in Cores /\ order[turn] \notin Ran
         /\ EdgeDone => \A c \in Cores : c \in Ran
<1>1. order \in Seq(Cores) /\ Len(order) \in Nat /\ turn \in 1..(Len(order) + 1)
  BY SyncAssumption DEF EdgeTypes
<1>2. \A c \in Cores : \E i \in 1..Len(order) :
        order[i] = c /\ \A j \in 1..Len(order) : order[j] = c => j = i
  BY SyncAssumption DEF EdgeTypes
<1>3. ASSUME ~EdgeDone
      PROVE  turn \in 1..Len(order) /\ order[turn] \in Cores /\ order[turn] \notin Ran
  <2>1. turn \in 1..Len(order)
    BY <1>1, <1>3 DEF EdgeDone
  <2>2. order[turn] \in Cores
    BY <1>1, <2>1, ElementOfSeq
  <2>3. ASSUME NEW i \in 1..(turn - 1) PROVE order[i] # order[turn]
    <3>1. i \in 1..Len(order) /\ i # turn
      BY <1>1, <2>1
    <3> QED BY <1>2, <2>1, <2>2, <3>1
  <2> QED BY <2>1, <2>2, <2>3 DEF Ran
<1>4. ASSUME EdgeDone, NEW c \in Cores PROVE c \in Ran
  <2>1. turn - 1 = Len(order)
    BY <1>1, <1>4 DEF EdgeDone
  <2> QED BY <1>2, <2>1 DEF Ran
<1> QED BY <1>1, <1>3, <1>4

\* A turn adds its core to those that have run.
LEMMA RanGrows ==
  ASSUME EdgeTypes, ~EdgeDone, turn' = turn + 1, order' = order
  PROVE  Ran' = Ran \cup {order[turn]}
<1>1. turn \in Nat \ {0}
  BY OrderFacts
<1>2. 1..(turn' - 1) = (1..(turn - 1)) \cup {turn}
  BY <1>1
<1> QED BY <1>2 DEF Ran

\* Between two edges every pair of neighbours is even: nobody is a meeting ahead.
LEMMA AllEven ==
  ASSUME NEW S, NEW P, NEW M, NEW D, NEW n \in Nat, NetInv(S, P, M, D, n), \A c \in Cores : c \in D,
         NEW a, NEW b, <<a, b>> \in Links
  PROVE  /\ Agree(M[<<a, b>>], M[<<b, a>>])
         /\ Even(a, b, P[a], P[b], S[<<a, b>>], S[<<b, a>>], M[<<a, b>>], M[<<b, a>>], n, n)
<1>1. a \in Cores /\ b \in Cores
  BY LinkFacts
<1>2. PairAt(S, P, M, D, n, a, b)
  BY <1>1 DEF NetInv
<1>3. Clk(D, n, a) = n /\ Clk(D, n, b) = n /\ n # n - 1
  BY <1>1 DEF Clk
<1> QED BY <1>2, <1>3 DEF PairAt, PairInv, Ahead

\* Simulator::tcu_edge begins a new edge within the invariant.
LEMMA NewEdge ==
  ASSUME NEW S, NEW P, NEW M, NEW D, NEW n \in Nat, NetInv(S, P, M, D, n), \A c \in Cores : c \in D
  PROVE  NetInv(S, P, M, {}, n + 1)
<1>1. \A c \in Cores : Clk(D, n, c) = n
  BY DEF Clk
<1>2. \A c \in Cores : Clk({}, n + 1, c) = n
  BY DEF Clk
<1>3. Types(S, P, M)
  BY DEF NetInv
<1>4. \A c \in Cores : UnitAt(P, {}, n + 1, c)
  BY <1>1, <1>2 DEF NetInv, UnitAt
<1>5. \A a, b \in Cores : <<a, b>> \in Links => LinkAt(S, P, {}, n + 1, a, b)
  <2> SUFFICES ASSUME NEW a \in Cores, NEW b \in Cores, <<a, b>> \in Links
               PROVE  LinkAt(S, P, {}, n + 1, a, b)
    OBVIOUS
  <2> DEFINE s == S[<<a, b>>]
  <2>1. LinkInv(s, P[a], b, n, n)
    BY <1>1 DEF NetInv, LinkAt
  <2>2. s \in Seq(Signal)
    BY <1>3 DEF Types
  <2> HIDE DEF s
  <2>3. \A i \in 1..Len(s) : Unconsumed(s[i]) \/ s[i].consumed[1] <= n + 1
    <3> TAKE i \in 1..Len(s)
    <3>1. s[i] \in Signal
      BY <2>2, ElementOfSeq
    <3>2. Unconsumed(s[i]) \/ s[i].consumed[1] \in Int
      BY <3>1 DEF Signal, Unconsumed
    <3>3. Unconsumed(s[i]) \/ s[i].consumed[1] <= n
      BY <2>1 DEF LinkInv
    <3> QED BY <3>2, <3>3
  <2>4. LinkInv(s, P[a], b, n, n + 1)
    BY <2>1, <2>3 DEF LinkInv
  <2> QED BY <2>4, <1>2 DEF LinkAt, s
<1>6. \A a, b \in Cores : <<a, b>> \in Links => PairAt(S, P, M, {}, n + 1, a, b)
  <2> SUFFICES ASSUME NEW a \in Cores, NEW b \in Cores, <<a, b>> \in Links
               PROVE  PairAt(S, P, M, {}, n + 1, a, b)
    OBVIOUS
  <2>1. /\ Agree(M[<<a, b>>], M[<<b, a>>])
        /\ Even(a, b, P[a], P[b], S[<<a, b>>], S[<<b, a>>], M[<<a, b>>], M[<<b, a>>], n, n)
    BY AllEven
  <2> QED BY <2>1, <1>2 DEF PairAt, PairInv
<1> QED BY <1>3, <1>4, <1>5, <1>6 DEF NetInv

\* The network and units after a reset.
LEMMA EmptyNet ==
  ASSUME NEW D, NEW n \in Nat
  PROVE  NetInv([l \in Links |-> <<>>], [c \in Cores |-> <<>>], [l \in Links |-> <<>>], D, n)
<1> DEFINE S == [l \in Links |-> <<>>]
           P == [c \in Cores |-> <<>>]
<1>0. <<>> \in Seq(Signal) /\ <<>> \in Seq(Meeting) /\ <<>> \in Unit /\ Len(<<>>) = 0
  BY DEF Unit
<1>1. (\A c \in Cores : P[c] = <<>>) /\ (\A a, b : <<a, b>> \in Links => S[<<a, b>>] = <<>>)
  OBVIOUS
<1>2. Types(S, P, S)
  BY <1>0 DEF Types
<1> HIDE DEF S, P
<1>3. \A t : ~BookedWith(<<>>, t) /\ ~ReceivedFrom(<<>>, t)
  BY DEF BookedWith, ReceivedFrom
<1>4. ~LastOpen(<<>>) /\ ~FirstOpen(<<>>)
  BY DEF LastOpen, FirstOpen
<1>5. \A c \in Cores : UnitAt(P, D, n, c)
  BY <1>1 DEF UnitAt, UnitInv
<1>6. \A a, b \in Cores : <<a, b>> \in Links => LinkAt(S, P, D, n, a, b)
  <2>1. \A t, clk : LinkInv(<<>>, <<>>, t, clk, n)
    BY <1>3 DEF LinkInv
  <2> QED BY <1>1, <2>1 DEF LinkAt
<1>7. \A a, b \in Cores : <<a, b>> \in Links => PairAt(S, P, S, D, n, a, b)
  <2>1. \A a, b, clk : Hears(<<>>, <<>>, a, b, <<>>, clk)
    BY <1>3, <1>4 DEF Hears
  <2>2. Agree(<<>>, <<>>)
    BY DEF Agree
  <2>3. \A a, b, x, y : PairInv(a, b, <<>>, <<>>, <<>>, <<>>, <<>>, <<>>, x, y, n)
    BY <2>1, <2>2 DEF PairInv, Even
  <2> QED BY <1>1, <2>3, LinkFacts DEF PairAt
<1> QED BY <1>2, <1>5, <1>6, <1>7 DEF NetInv, S, P

\* A due point books with a neighbour.
LEMMA WantedFacts ==
  ASSUME EdgeTypes, NEW c \in Cores, Wanted(c) # <<>>
  PROVE  <<c, Wanted(c)[1]>> \in Links
<1>1. Wanted(c) = plan[c]
  BY DEF Wanted
<1>2. plan[c][1] \in Neighbours(c)
  BY <1>1 DEF EdgeTypes, Plans
<1> QED BY <1>1, <1>2 DEF Neighbours

\* Core::tcu_edge first steps the unit of its core: NetStep on the current state.
LEMMA ServeStep ==
  ASSUME EdgeTypes, NetInv(signals, pending, met, Ran, now), NEW c \in Cores, c \notin Ran
  PROVE  /\ Stepped(c) = StepOf(signals, pending, now, c) /\ Stepped(c).unit \in Unit
         /\ pending \in [Cores -> Unit]
         /\ NetInv(Heard(c), [pending EXCEPT ![c] = Stepped(c).unit],
                   MetNet(signals, pending, met, now, c), Ran \cup {c}, now)
<1>1. Stepped(c) = StepOf(signals, pending, now, c) /\ Heard(c) = HeardNet(signals, pending, now, c)
  BY Zenon DEF Stepped, StepOf, Heard, HeardNet
<1>2. now \in Nat
  BY DEF EdgeTypes
<1>3. pending \in [Cores -> Unit]
  BY DEF NetInv, Types
<1>4. /\ StepOf(signals, pending, now, c).unit \in Unit
      /\ NetInv(HeardNet(signals, pending, now, c),
                [pending EXCEPT ![c] = StepOf(signals, pending, now, c).unit],
                MetNet(signals, pending, met, now, c), Ran \cup {c}, now)
  BY <1>2, NetStep
<1> QED BY <1>1, <1>3, <1>4, Zenon

\* Core::tcu_edge, step and booking, keeps the invariant of the network.
LEMMA ServeKeeps ==
  ASSUME EdgeTypes, NetInv(signals, pending, met, Ran, now), NEW c \in Cores, c \notin Ran,
         BookFault(c) = "None", Serve(c)
  PROVE  NetInv(signals', pending', met', Ran \cup {c}, now)
<1> DEFINE P1 == [pending EXCEPT ![c] = Stepped(c).unit]
<1>0. now \in Nat
  BY DEF EdgeTypes
<1>1. /\ Stepped(c) = StepOf(signals, pending, now, c)
      /\ pending \in [Cores -> Unit] /\ Stepped(c).unit \in Unit
      /\ NetInv(Heard(c), P1, MetNet(signals, pending, met, now, c), Ran \cup {c}, now)
  BY ServeStep
<1>2. met' = MetNet(signals, pending, met, now, c)
  BY <1>1 DEF Serve, MetNet
<1>3. CASE Wanted(c) = <<>>
  BY <1>1, <1>2, <1>3 DEF Serve
<1>4. CASE Wanted(c) # <<>>
  <2> DEFINE y == Wanted(c)[1]
             w == <<BookingOf(y, now + Delay[<<c, y>>])>>
  <2>1. <<c, y>> \in Links
    BY <1>4, WantedFacts
  <2>2. Stepped(c).unit = <<>>
    BY <1>4 DEF BookFault, Overlaps
  <2>3. P1[c] = <<>>
    BY <1>1, <2>2
  <2>4. signals' = [Heard(c) EXCEPT ![<<c, y>>] = Send(@, Delay[<<c, y>>], now)]
    BY <1>4 DEF Serve
  <2>5. pending' = [P1 EXCEPT ![c] = w]
    <3>1. pending' = [pending EXCEPT ![c] = w]
      BY <1>4 DEF Serve
    <3> HIDE DEF w
    <3> QED BY <3>1, <1>1
  <2> HIDE DEF P1, y
  <2>6. NetInv([Heard(c) EXCEPT ![<<c, y>>] = Send(@, Delay[<<c, y>>], now)],
               [P1 EXCEPT ![c] = w], met', Ran \cup {c}, now)
    BY <1>0, <1>1, <1>2, <2>1, <2>3, NetBook
  <2> QED BY <2>4, <2>5, <2>6
<1> QED BY <1>3, <1>4

-----------------------------------------------------------------------------
(* The theorems.                                                           *)

\* The invariant holds when a simulation begins.
LEMMA InitInvariant == Init => IInv
<1> SUFFICES ASSUME Init PROVE IInv
  OBVIOUS
<1>1. order \in Seq(Cores)
  BY SyncAssumption DEF Init
<1>2. EdgeTypes
  <2>1. plan \in Plans
    BY DEF Init, Plans
  <2>2. turn \in 1..(Len(order) + 1)
    BY <1>1, LenProperties DEF Init
  <2> QED BY <2>1, <2>2 DEF Init, EdgeTypes
<1>3. NetInv(signals, pending, met, Ran, now)
  BY <1>2, EmptyNet DEF Init, EdgeTypes
<1> QED BY <1>2, <1>3 DEF IInv

\* Beginning an edge, Core::tcu_edge of one core and Simulator::reset_at keep it.
LEMMA StepInvariant == IInv /\ [Next]_vars => IInv'
<1> SUFFICES ASSUME IInv, [Next]_vars PROVE IInv'
  OBVIOUS
<1>0. EdgeTypes /\ (refused = "None" => NetInv(signals, pending, met, Ran, now)) /\ now \in Nat
  BY DEF IInv, EdgeTypes
<1>o. order \in Seq(Cores) /\ Len(order) \in Nat
  BY <1>0, OrderFacts
<1>1. CASE BeginEdge
  <2>1. Ran' = {}
    BY <1>1 DEF BeginEdge, Ran
  <2>2. NetInv(signals, pending, met, {}, now + 1)
    BY <1>0, <1>1, NewEdge, OrderFacts DEF BeginEdge
  <2>3. EdgeTypes'
    <3>1. order' = order /\ turn' = 1 /\ plan' \in Plans /\ now' = now + 1
      BY <1>1 DEF BeginEdge
    <3>2. 1 \in 1..(Len(order) + 1)
      BY <1>o
    <3> QED BY <1>0, <3>1, <3>2 DEF EdgeTypes
  <2>4. signals' = signals /\ pending' = pending /\ met' = met /\ now' = now + 1
    BY <1>1 DEF BeginEdge, netVars
  <2>5. NetInv(signals', pending', met', Ran', now')
    BY <2>1, <2>2, <2>4
  <2> QED BY <2>3, <2>5 DEF IInv
<1>2. CASE CoreEdge
  <2> DEFINE c == order[turn]
  <2>1. ~EdgeDone /\ refused = "None" /\ refused' = BookFault(c) /\ turn' = turn + 1
        /\ order' = order /\ plan' = plan /\ now' = now
    BY <1>2 DEF CoreEdge
  <2>2. turn \in 1..Len(order) /\ c \in Cores /\ c \notin Ran /\ Ran' = Ran \cup {c}
    BY <1>0, <2>1, OrderFacts, RanGrows
  <2>3. EdgeTypes'
    <3>1. turn' \in 1..(Len(order) + 1)
      BY <1>o, <2>1, <2>2
    <3> QED BY <1>0, <2>1, <3>1 DEF EdgeTypes
  <2>4. ASSUME refused' = "None" PROVE NetInv(signals', pending', met', Ran', now')
    <3>1. BookFault(c) = "None" /\ Serve(c)
      BY <1>2, <2>1, <2>4 DEF CoreEdge
    <3> HIDE DEF c
    <3>2. NetInv(signals', pending', met', Ran \cup {c}, now)
      BY <1>0, <2>1, <2>2, <3>1, ServeKeeps
    <3> QED BY <2>1, <2>2, <3>2
  <2> QED BY <2>3, <2>4 DEF IInv
<1>3. CASE ResetSession
  <2>1. EdgeTypes'
    <3>1. order' = order /\ turn' = turn /\ plan' = plan /\ now' \in Nat
      BY <1>0, <1>3 DEF ResetSession
    <3> QED BY <1>0, <3>1 DEF EdgeTypes
  <2>2. NetInv(signals', pending', met', Ran', now')
    <3>1. now' \in Nat
      BY <2>1 DEF EdgeTypes
    <3> QED BY <1>3, <3>1, EmptyNet DEF ResetSession
  <2> QED BY <2>1, <2>2 DEF IInv
<1>4. CASE UNCHANGED vars
  BY <1>0, <1>4 DEF IInv, EdgeTypes, Ran, vars, netVars, edgeVars
<1> QED BY <1>1, <1>2, <1>3, <1>4 DEF Next

\* The inductive invariant of neighbour synchronization: within an edge two partners
\* are even or one of them is exactly one meeting ahead, for any number of cores, any
\* topology and any delays.
THEOREM SyncInvariant == Spec => []IInv
BY InitInvariant, StepInvariant, PTL DEF Spec

\* What the invariant says of a link between two edges.
LEMMA SettledFacts ==
  ASSUME IInv, Settled, NEW l \in Links
  PROVE  /\ l = <<l[1], l[2]>> /\ l[1] \in Cores /\ l[2] \in Cores
         /\ LinkAt(signals, pending, Ran, now, l[1], l[2])
         /\ signals[l] \in Seq(Signal)
         /\ Agree(met[l], met[<<l[2], l[1]>>])
         /\ Even(l[1], l[2], pending[l[1]], pending[l[2]], signals[l], signals[<<l[2], l[1]>>],
                 met[l], met[<<l[2], l[1]>>], now, now)
<1>1. EdgeTypes /\ NetInv(signals, pending, met, Ran, now) /\ now \in Nat /\ \A c \in Cores : c \in Ran
  BY OrderFacts DEF IInv, Settled, EdgeTypes
<1>2. l = <<l[1], l[2]>> /\ l[1] \in Cores /\ l[2] \in Cores
  BY SyncAssumption DEF Links
<1>3. LinkAt(signals, pending, Ran, now, l[1], l[2]) /\ signals[l] \in Seq(Signal)
  BY <1>1, <1>2 DEF NetInv, Types
<1> QED BY <1>1, <1>2, <1>3, AllEven

\* Both partners of every synchronization complete it on the same edge, the later of
\* their two deadlines (SyncUnit::step), for any topology, delays and core order.
THEOREM MeetingsAgree == Spec => []PartnersMeetAtLaterDeadline
<1>1. IInv => PartnersMeetAtLaterDeadline
  <2> SUFFICES ASSUME IInv, Settled, NEW l \in Links
               PROVE  LET mine == met[l] theirs == met[<<l[2], l[1]>>]
                      IN  /\ Len(mine) = Len(theirs)
                          /\ \A k \in 1..Len(mine) :
                               /\ mine[k].tick = theirs[k].tick
                               /\ mine[k].tick = Later(mine[k].deadline, theirs[k].deadline)
    BY DEF PartnersMeetAtLaterDeadline
  <2> QED BY SettledFacts DEF Even, Agree
<1> QED BY <1>1, SyncInvariant, PTL

\* Two cores booked with each other never wait past the later of their deadlines: no
\* signal of SyncNetwork is lost or taken by another booking.
THEOREM NoLateBooking == Spec => []MutualBookingsComplete
<1>1. IInv => MutualBookingsComplete
  <2> SUFFICES ASSUME IInv, Settled, NEW l \in Links,
                      PendingWith(l[1], l[2]), PendingWith(l[2], l[1])
               PROVE  now < Later(pending[l[1]][1].deadline, pending[l[2]][1].deadline)
    BY DEF MutualBookingsComplete
  <2>1. Hears(pending[l[1]], pending[l[2]], l[1], l[2], signals[<<l[2], l[1]>>], now)
    BY SettledFacts DEF Even
  <2>2. BookedWith(pending[l[1]], l[2]) /\ BookedWith(pending[l[2]], l[1])
    BY DEF BookedWith, PendingWith
  <2>3. Later(pending[l[1]][1].deadline, pending[l[2]][1].deadline) > now
    BY <2>1, <2>2 DEF Hears
  <2> QED BY <2>3
<1> QED BY <1>1, SyncInvariant, PTL

\* When no unit waits, every signal has been consumed, so Simulator::barrier is not
\* kept from completing.
THEOREM NoSignalLeft == Spec => []IdleUnitsLeaveNoSignal
<1>1. IInv => IdleUnitsLeaveNoSignal
  <2> SUFFICES ASSUME IInv, Settled, \A c \in Cores : pending[c] = <<>>, NEW l \in Links
               PROVE  LinkEmpty(signals[l])
    BY DEF IdleUnitsLeaveNoSignal
  <2>1. /\ l[1] \in Cores /\ l[2] \in Cores /\ signals[l] \in Seq(Signal)
        /\ Hears(pending[l[2]], pending[l[1]], l[2], l[1], signals[l], now)
    BY SettledFacts DEF Even
  <2>2. ~LastOpen(signals[l]) /\ ~FirstOpen(signals[l])
    BY <2>1 DEF Hears, BookedWith
  <2>3. Len(signals[l]) <= 2 /\ Len(signals[l]) \in Nat
    BY <2>1, SettledFacts, LenProperties DEF LinkAt, LinkInv
  <2>4. CASE Len(signals[l]) = 0
    BY <2>4 DEF LinkEmpty
  <2>5. CASE Len(signals[l]) = 1
    BY <2>2, <2>5 DEF LinkEmpty, LastOpen
  <2>6. CASE Len(signals[l]) = 2
    BY <2>2, <2>6 DEF LinkEmpty, LastOpen, FirstOpen
  <2> QED BY <2>3, <2>4, <2>5, <2>6, UpToTwo
<1> QED BY <1>1, SyncInvariant, PTL

\* A link with two slots is never full in SyncNetwork::preflight.
THEOREM LinksHaveRoom == Spec => []TwoSlotsSuffice
<1>1. IInv => TwoSlotsSuffice
  <2> DEFINE c == order[turn]
             y == Wanted(c)[1]
  <2> SUFFICES ASSUME IInv, ~EdgeDone, refused = "None", BookFault(c) = "SyncCapacity"
               PROVE  LinkCapacity[<<c, y>>] < 2
    BY DEF TwoSlotsSuffice
  <2>1. EdgeTypes /\ NetInv(signals, pending, met, Ran, now) /\ now \in Nat
    BY DEF IInv, EdgeTypes
  <2>2. c \in Cores /\ c \notin Ran
    BY <2>1, OrderFacts
  <2> HIDE DEF c
  <2>3. /\ Wanted(c) # <<>> /\ ~Overlaps(Stepped(c).unit, Wanted(c))
        /\ Len(Occupying(Heard(c)[<<c, y>>], now)) >= LinkCapacity[<<c, y>>]
    BY DEF BookFault
  <2>4. <<c, y>> \in Links /\ LinkCapacity[<<c, y>>] \in Nat
    BY <2>1, <2>2, <2>3, WantedFacts, SyncAssumption DEF Links
  <2>5. Stepped(c).unit = <<>>
    BY <2>3 DEF Overlaps
  <2> DEFINE P1 == [pending EXCEPT ![c] = Stepped(c).unit]
  <2>6. /\ pending \in [Cores -> Unit]
        /\ NetInv(Heard(c), P1, MetNet(signals, pending, met, now, c), Ran \cup {c}, now)
    BY <2>1, <2>2, ServeStep
  <2>7. P1[c] = <<>>
    BY <2>2, <2>5, <2>6
  <2> HIDE DEF P1, y
  <2>8. Len(Occupying(Heard(c)[<<c, y>>], now)) \in {0, 1}
    BY <2>1, <2>4, <2>6, <2>7, NetBook
  <2> QED BY <2>3, <2>4, <2>8
<1> QED BY <1>1, SyncInvariant, PTL

-----------------------------------------------------------------------------
(* One link: receive and send commute.                                     *)

\* A link when an edge begins: at most two signals of which only the last may be open,
\* and no signal that was consumed at this edge.
StartLink(s, n) ==
  /\ s \in Seq(Signal)
  /\ Len(s) <= 2
  /\ ~FirstOpen(s)
  /\ \A i \in 1..Len(s) : Unconsumed(s[i]) \/ s[i].consumed[1] < n

\* The signal that send puts on a link with delay d.
Sent(d, n) == [arrival |-> n + d, consumed |-> <<>>]

\* What the preflight of SyncNetwork keeps of such a link: its open signal, or nothing.
LEMMA StartOccupying ==
  ASSUME NEW s, NEW n \in Nat, StartLink(s, n)
  PROVE  /\ Occupying(s, n) = IF LastOpen(s) THEN <<s[Len(s)]>> ELSE <<>>
         /\ LastOpen(s) => Len(s) \in 1..Len(s) /\ s[Len(s)] \in Signal
<1>0. s \in Seq(Signal) /\ Len(s) \in Nat /\ Len(s) <= 2
  BY LenProperties DEF StartLink
<1>1. \A i \in 1..Len(s) : ~Unconsumed(s[i]) => ~Occupies(s[i], n)
  <2> TAKE i \in 1..Len(s)
  <2> HAVE ~Unconsumed(s[i])
  <2>1. s[i] \in Signal
    BY <1>0, ElementOfSeq
  <2>2. s[i].consumed[1] \in Int
    BY <2>1 DEF Signal, Unconsumed
  <2>3. s[i].consumed[1] < n
    BY DEF StartLink
  <2> QED BY <2>2, <2>3 DEF Occupies
<1>2. Len(s) = 2 => ~Occupies(s[1], n)
  <2>1. Len(s) = 2 => 1 \in 1..Len(s)
    BY <1>0
  <2> QED BY <1>1, <2>1 DEF StartLink, FirstOpen
<1>3. s # <<>> => Len(s) \in 1..Len(s)
  <2>1. s # <<>> => Len(s) \in Nat \ {0}
    BY <1>0, EmptySeq
  <2> QED BY <2>1
<1>4. (s # <<>> /\ Occupies(s[Len(s)], n)) <=> LastOpen(s)
  BY <1>1, <1>3 DEF LastOpen, Occupies
<1>5. Occupying(s, n) = IF s # <<>> /\ Occupies(s[Len(s)], n) THEN <<s[Len(s)]>> ELSE <<>>
  BY <1>0, <1>2, OccupyingLast
<1>6. LastOpen(s) => Len(s) \in 1..Len(s) /\ s[Len(s)] \in Signal
  BY <1>0, <1>3, ElementOfSeq DEF LastOpen
<1> QED BY <1>4, <1>5, <1>6

\* A sequence of two signals, spelled out.
LEMMA TwoOf ==
  ASSUME NEW s \in Seq(Signal), Len(s) = 2
  PROVE  s = <<s[1], s[2]>> /\ s[1] \in Signal /\ s[2] \in Signal
OBVIOUS

\* Sequences of one and two signals.
LEMMA ShortSeqs ==
  ASSUME NEW x \in Signal, NEW y \in Signal
  PROVE  /\ <<x>> \in Seq(Signal) /\ Len(<<x>>) = 1 /\ <<x>>[1] = x
         /\ <<x, y>> \in Seq(Signal) /\ Len(<<x, y>>) = 2 /\ <<x, y>>[1] = x /\ <<x, y>>[2] = y
         /\ Append(<<>>, y) = <<y>> /\ Append(<<x>>, y) = <<x, y>>
<1>1. <<x>> \in Seq(Signal) /\ Len(<<x>>) = 1 /\ <<x>>[1] = x
  OBVIOUS
<1>2. <<x, y>> \in Seq(Signal) /\ Len(<<x, y>>) = 2 /\ <<x, y>>[1] = x /\ <<x, y>>[2] = y
  OBVIOUS
<1>3. Append(<<>>, y) = <<y>>
  OBVIOUS
<1>4. Append(<<x>>, y) = <<x, y>>
  <2> DEFINE u == Append(<<x>>, y)
  <2>1. u \in Seq(Signal) /\ Len(u) = 2 /\ u[1] = x /\ u[2] = y
    BY <1>1, AppendToOne
  <2> HIDE DEF u
  <2>2. u = <<x, y>>
    BY <2>1, TwoOf
  <2> QED BY <2>2 DEF u
<1> QED BY <1>1, <1>2, <1>3, <1>4

\* A signal is its arrival and its consumption.
LEMMA SameSignal ==
  ASSUME NEW x \in Signal, NEW y \in Signal, x.arrival = y.arrival, x.consumed = y.consumed
  PROVE  x = y
BY DEF Signal

\* receive takes the open signal of such a link once it has arrived.
LEMMA ReceiveMarks ==
  ASSUME NEW s, NEW n \in Nat, StartLink(s, n), LastOpen(s), s[Len(s)].arrival <= n,
         NEW t, t = Receive(s, n)
  PROVE  /\ Receivable(s, n) # {} /\ t \in Seq(Signal)
         /\ Len(t) = Len(s) /\ t # <<>>
         /\ t[Len(t)] \in Signal /\ t[Len(t)].arrival = s[Len(s)].arrival /\ t[Len(t)].consumed = <<n>>
         /\ Len(s) = 2 => t[1] = s[1]
<1>0. s \in Seq(Signal) /\ Len(s) \in Nat /\ Len(s) <= 2 /\ ~FirstOpen(s) /\ n \in Int
  BY LenProperties DEF StartLink
<1>1. Receivable(s, n) # {} /\ Takes(s, Len(s), n, t)
  BY <1>0, ReceiveLast
<1>2. Len(s) \in 1..Len(s)
  BY StartOccupying
<1>3. /\ t \in Seq(Signal) /\ Len(t) = Len(s)
      /\ t[Len(s)].consumed = <<n>> /\ t[Len(s)].arrival = s[Len(s)].arrival
  BY <1>1, <1>2 DEF Takes
<1>4. t[Len(t)] \in Signal /\ t # <<>>
  BY <1>2, <1>3, ElementOfSeq
<1>5. Len(s) = 2 => t[1] = s[1]
  BY <1>1 DEF Takes
<1> QED BY <1>1, <1>3, <1>4, <1>5

\* A signal received at this edge keeps its slot until the edge is over, so receive does
\* not change what the preflight of the sender counts.
LEMMA ReceiveOccupying ==
  ASSUME NEW s, NEW n \in Nat, StartLink(s, n)
  PROVE  /\ (LastOpen(s) /\ s[Len(s)].arrival <= n) =>
              \E x \in Signal : /\ x.arrival = s[Len(s)].arrival /\ x.consumed = <<n>>
                                /\ Occupying(Receive(s, n), n) = <<x>>
         /\ ~(LastOpen(s) /\ s[Len(s)].arrival <= n) => Receive(s, n) = s /\ Receivable(s, n) = {}
         /\ Len(Occupying(Receive(s, n), n)) = Len(Occupying(s, n))
<1>0. s \in Seq(Signal) /\ Len(s) <= 2 /\ ~FirstOpen(s) /\ n \in Int
  BY DEF StartLink
<1>1. CASE LastOpen(s) /\ s[Len(s)].arrival <= n
  <2> DEFINE t == Receive(s, n)
             x == t[Len(t)]
  <2>1. /\ t \in Seq(Signal) /\ Len(t) = Len(s) /\ t # <<>>
        /\ x \in Signal /\ x.arrival = s[Len(s)].arrival /\ x.consumed = <<n>>
        /\ Len(s) = 2 => t[1] = s[1]
    BY <1>1, ReceiveMarks
  <2> HIDE DEF t
  <2>2. Occupies(x, n)
    <3>1. x.consumed[1] = n /\ n >= n
      BY <2>1
    <3> QED BY <3>1 DEF Occupies
  <2>3. Len(t) = 2 => ~Occupies(t[1], n)
    <3> SUFFICES ASSUME Len(t) = 2 PROVE ~Occupies(s[1], n)
      BY <2>1
    <3>0. Len(s) = 2
      BY <2>1
    <3>1. 1 \in 1..Len(s)
      BY <3>0
    <3>2. ~Unconsumed(s[1]) /\ s[1] \in Signal
      BY <1>0, <3>0, <3>1, ElementOfSeq DEF FirstOpen
    <3>3. s[1].consumed[1] \in Int /\ s[1].consumed[1] < n
      BY <3>1, <3>2 DEF Signal, Unconsumed, StartLink
    <3> QED BY <3>2, <3>3 DEF Occupies
  <2>4. Occupying(t, n) = <<x>>
    BY <1>0, <2>1, <2>2, <2>3, OccupyingLast
  <2>5. Len(<<x>>) = 1 /\ Len(<<s[Len(s)]>>) = 1
    OBVIOUS
  <2>6. Occupying(s, n) = <<s[Len(s)]>>
    BY <1>1, StartOccupying
  <2> QED BY <1>1, <2>1, <2>4, <2>5, <2>6 DEF t
<1>2. CASE ~(LastOpen(s) /\ s[Len(s)].arrival <= n)
  BY <1>0, <1>2, ReceiveNone
<1> QED BY <1>1, <1>2

\* receive and send commute on a link: a signal sent at this edge arrives at a later
\* one, and the pruning in send drops no signal received at this edge.
LEMMA ReceiveSend ==
  ASSUME NEW s, NEW n \in Nat, NEW d \in Nat \ {0}, StartLink(s, n)
  PROVE  /\ Receive(Send(s, d, n), n) = Send(Receive(s, n), d, n)
         /\ Receivable(Send(s, d, n), n) = {} <=> Receivable(s, n) = {}
<1> DEFINE x == Sent(d, n)
           l == s[Len(s)]
           u == Send(s, d, n)
<1>1. x \in Signal /\ Unconsumed(x) /\ x.arrival = n + d /\ ~(x.arrival <= n) /\ n \in Int
  BY DEF Sent, Signal, Unconsumed
<1>2. /\ Send(s, d, n) = Append(Occupying(s, n), x)
      /\ Send(Receive(s, n), d, n) = Append(Occupying(Receive(s, n), n), x)
  BY DEF Send, Sent
<1> HIDE DEF x
<1>3. CASE ~LastOpen(s)
  <2>1. u = <<x>>
    BY <1>1, <1>2, <1>3, StartOccupying, ShortSeqs
  <2>2. Receive(s, n) = s /\ Receivable(s, n) = {}
    BY <1>3, ReceiveOccupying
  <2>3. u \in Seq(Signal) /\ Len(u) = 1 /\ u[1] = x
    BY <1>1, <2>1, ShortSeqs
  <2>4. \A i \in 1..Len(u) : ~(u[i].arrival <= n)
    BY <1>1, <2>3
  <2>5. Receivable(u, n) = {} /\ Receive(u, n) = u
    BY <2>4 DEF Receivable, Receive
  <2> QED BY <2>2, <2>5
<1>4. CASE LastOpen(s)
  <2>0. l \in Signal /\ Unconsumed(l)
    BY <1>4, StartOccupying DEF LastOpen
  <2>1. u = <<l, x>>
    BY <1>1, <1>2, <1>4, <2>0, StartOccupying, ShortSeqs
  <2> HIDE DEF l, u
  <2>2. u \in Seq(Signal) /\ Len(u) = 2 /\ u[1] = l /\ u[2] = x
    BY <1>1, <2>0, <2>1, ShortSeqs
  <2>3. FirstOpen(u)
    BY <2>0, <2>2 DEF FirstOpen
  <2>4. CASE l.arrival <= n
    <3>1. Receivable(u, n) # {} /\ Takes(u, 1, n, Receive(u, n))
      BY <1>1, <2>2, <2>3, <2>4, ReceiveFirst
    <3> DEFINE v == Receive(u, n)
    <3>2. /\ v \in Seq(Signal) /\ Len(v) = 2 /\ v[2] = x
          /\ v[1].arrival = l.arrival /\ v[1].consumed = <<n>>
      BY <2>2, <3>1 DEF Takes
    <3> HIDE DEF v
    <3>3. PICK y \in Signal : /\ y.arrival = l.arrival /\ y.consumed = <<n>>
                              /\ Occupying(Receive(s, n), n) = <<y>>
      BY <1>4, <2>4, ReceiveOccupying DEF l
    <3>4. Send(Receive(s, n), d, n) = <<y, x>>
      BY <1>1, <1>2, <3>3, ShortSeqs
    <3>5. v[1] = y
      BY <3>2, <3>3, TwoOf, SameSignal
    <3>6. v = <<y, x>>
      BY <3>2, <3>5, TwoOf
    <3>7. Receivable(s, n) # {}
      BY <1>4, <2>4, ReceiveMarks DEF l
    <3> QED BY <3>1, <3>4, <3>6, <3>7 DEF v, u
  <2>5. CASE ~(l.arrival <= n)
    <3>1. Receive(s, n) = s /\ Receivable(s, n) = {}
      BY <2>5, ReceiveOccupying DEF l
    <3>2. \A i \in 1..Len(u) : ~(u[i].arrival <= n)
      BY <1>1, <2>2, <2>5
    <3>3. Receivable(u, n) = {}
      BY <3>2 DEF Receivable
    <3>4. Receive(u, n) = u
      BY <3>3 DEF Receive
    <3> QED BY <3>1, <3>3, <3>4 DEF u
  <2> QED BY <2>4, <2>5
<1> QED BY <1>3, <1>4

-----------------------------------------------------------------------------
(* An edge with all its cores at once.                                     *)

\* Core::tcu_edge of core c as functions of the signals S, the units P, the plan and the
\* edge: the targets of its point, its preflight, its signals and its unit afterwards.
WantedOf(S, P, pl, n, c) == IF StepOf(S, P, n, c).paused THEN <<>> ELSE pl[c]
FaultOf(S, P, pl, n, c) ==
  LET w == WantedOf(S, P, pl, n, c)
  IN  IF w = <<>> THEN "None"
      ELSE IF Overlaps(StepOf(S, P, n, c).unit, w) THEN "SyncOverlap"
      ELSE IF Len(Occupying(HeardNet(S, P, n, c)[<<c, w[1]>>], n)) >= LinkCapacity[<<c, w[1]>>]
        THEN "SyncCapacity"
      ELSE "None"
SignalsOf(S, P, pl, n, c) ==
  LET w == WantedOf(S, P, pl, n, c)
  IN  IF w = <<>> THEN HeardNet(S, P, n, c)
      ELSE [HeardNet(S, P, n, c) EXCEPT ![<<c, w[1]>>] = Send(@, Delay[<<c, w[1]>>], n)]
UnitOf(S, P, pl, n, c) ==
  LET w == WantedOf(S, P, pl, n, c)
  IN  IF w = <<>> THEN StepOf(S, P, n, c).unit
      ELSE <<BookingOf(w[1], n + Delay[<<c, w[1]>>])>>
UnitsOf(S, P, pl, n, c) == [P EXCEPT ![c] = UnitOf(S, P, pl, n, c)]

\* The edge with the cores D run at once from the state at its beginning.  A link is
\* received from by its target and sent on by its source.
Listening(P, l) == Listens(P[l[2]]) /\ P[l[2]][1].target = l[1]
Sending(S, P, pl, n, l) ==
  LET w == WantedOf(S, P, pl, n, l[1]) IN w # <<>> /\ w[1] = l[2]
Taken(S, P, n, D, l) == IF l[2] \in D /\ Listening(P, l) THEN Receive(S[l], n) ELSE S[l]
ParSignals(S, P, pl, n, D) ==
  [l \in Links |-> IF l[1] \in D /\ Sending(S, P, pl, n, l)
                     THEN Send(Taken(S, P, n, D, l), Delay[l], n)
                     ELSE Taken(S, P, n, D, l)]
ParUnits(S, P, pl, n, D) ==
  [c \in Cores |-> IF c \in D THEN UnitOf(S, P, pl, n, c) ELSE P[c]]
ParMet(S, P, M, n, D) ==
  [l \in Links |-> IF l[1] \in D THEN MetNet(S, P, M, n, l[1])[l] ELSE M[l]]

\* The state at the beginning of an edge.
Start(S, P, M, pl, n) ==
  /\ n \in Nat
  /\ pl \in Plans
  /\ Types(S, P, M)
  /\ \A l \in Links : StartLink(S[l], n)

\* A link is a pair of two different cores.
LEMMA LinkPair == \A l \in Links : l = <<l[1], l[2]>> /\ l[1] \in Cores /\ l[2] \in Cores /\ l[1] # l[2]
<1> TAKE l \in Links
<1>1. l = <<l[1], l[2]>>
  BY SyncAssumption DEF Links
<1> QED BY <1>1, LinkFacts

\* A due point books with a neighbour.
LEMMA WantedLink ==
  ASSUME NEW S, NEW P, NEW pl \in Plans, NEW n, NEW c \in Cores, WantedOf(S, P, pl, n, c) # <<>>
  PROVE  <<c, WantedOf(S, P, pl, n, c)[1]>> \in Links
<1>1. WantedOf(S, P, pl, n, c) = pl[c]
  BY DEF WantedOf
<1>2. pl[c][1] \in Neighbours(c)
  BY <1>1 DEF Plans
<1> QED BY <1>1, <1>2 DEF Neighbours

\* SyncUnit::step of a core that has not run finds what it would have found first:
\* signals sent at this edge are not yet receivable.
LEMMA SameStep ==
  ASSUME NEW S, NEW P, NEW M, NEW pl, NEW n, Start(S, P, M, pl, n), NEW D, NEW c \in Cores, c \notin D,
         NEW T, T = ParSignals(S, P, pl, n, D), NEW Q, Q = ParUnits(S, P, pl, n, D)
  PROVE  /\ Q[c] = P[c]
         /\ StepOf(T, Q, n, c) = StepOf(S, P, n, c)
         /\ WantedOf(T, Q, pl, n, c) = WantedOf(S, P, pl, n, c)
         /\ UnitOf(T, Q, pl, n, c) = UnitOf(S, P, pl, n, c)
<1>1. Q[c] = P[c]
  BY DEF ParUnits
<1>2. Listens(P[c]) => Receivable(T[<<P[c][1].target, c>>], n) = {} <=>
                        Receivable(S[<<P[c][1].target, c>>], n) = {}
  <2> SUFFICES ASSUME Listens(P[c])
               PROVE  Receivable(T[<<P[c][1].target, c>>], n) = {} <=>
                        Receivable(S[<<P[c][1].target, c>>], n) = {}
    OBVIOUS
  <2> DEFINE l == <<P[c][1].target, c>>
  <2>1. l \in Links /\ l[1] = P[c][1].target /\ l[2] = c
    BY LinkFacts DEF Start, Types, Listens
  <2> HIDE DEF l
  <2>2. Taken(S, P, n, D, l) = S[l]
    BY <2>1 DEF Taken
  <2>3. T[l] = IF l[1] \in D /\ Sending(S, P, pl, n, l) THEN Send(S[l], Delay[l], n) ELSE S[l]
    BY <2>1, <2>2 DEF ParSignals
  <2>4. StartLink(S[l], n) /\ n \in Nat /\ Delay[l] \in Nat \ {0}
    BY <2>1, LinkFacts DEF Start
  <2>5. Receivable(Send(S[l], Delay[l], n), n) = {} <=> Receivable(S[l], n) = {}
    BY <2>4, ReceiveSend
  <2>6. Receivable(T[l], n) = {} <=> Receivable(S[l], n) = {}
    BY <2>3, <2>5
  <2> QED BY <2>6 DEF l
<1>3. (Listens(Q[c]) /\ Receivable(T[<<Q[c][1].target, c>>], n) # {})
      = (Listens(P[c]) /\ Receivable(S[<<P[c][1].target, c>>], n) # {})
  BY <1>1, <1>2
<1>4. StepOf(T, Q, n, c) = StepOf(S, P, n, c)
  BY <1>1, <1>3, Zenon DEF StepOf
<1>5. WantedOf(T, Q, pl, n, c) = WantedOf(S, P, pl, n, c)
  BY <1>4 DEF WantedOf
<1>6. UnitOf(T, Q, pl, n, c) = UnitOf(S, P, pl, n, c)
  BY <1>4, <1>5, Zenon DEF UnitOf
<1> QED BY <1>1, <1>4, <1>5, <1>6

\* The link a core hears is its own to consume; the other links stay.
LEMMA SameHeard ==
  ASSUME NEW S, NEW P, NEW M, NEW pl, NEW n, Start(S, P, M, pl, n), NEW D, NEW c \in Cores, c \notin D,
         NEW T, T = ParSignals(S, P, pl, n, D), NEW Q, Q = ParUnits(S, P, pl, n, D),
         NEW H, H = HeardNet(T, Q, n, c)
  PROVE  /\ DOMAIN H = Links /\ H = [l \in Links |-> H[l]]
         /\ \A l \in Links : H[l] = IF l[2] = c /\ Listening(P, l) THEN Receive(T[l], n) ELSE T[l]
<1>1. Q[c] = P[c]
  BY SameStep
<1>2. T = [l \in Links |-> T[l]] /\ DOMAIN T = Links
  BY DEF ParSignals
<1>3. CASE Listens(P[c])
  <2> DEFINE k == <<P[c][1].target, c>>
  <2>1. k \in Links /\ k[1] = P[c][1].target /\ k[2] = c
    BY <1>3, LinkFacts DEF Start, Types, Listens
  <2>2. H = [T EXCEPT ![k] = Receive(@, n)]
    BY <1>1, <1>3 DEF HeardNet
  <2>3. \A l \in Links : (l[2] = c /\ Listening(P, l)) <=> l = k
    <3> TAKE l \in Links
    <3>1. l = <<l[1], l[2]>>
      BY LinkPair
    <3> QED BY <1>3, <3>1, <2>1 DEF Listening
  <2> HIDE DEF k
  <2>4. DOMAIN H = Links /\ H = [l \in Links |-> H[l]]
    BY <1>2, <2>2
  <2>5. \A l \in Links : H[l] = IF l = k THEN Receive(T[l], n) ELSE T[l]
    BY <1>2, <2>1, <2>2
  <2> QED BY <2>3, <2>4, <2>5
<1>4. CASE ~Listens(P[c])
  <2>1. H = T
    BY <1>1, <1>4 DEF HeardNet
  <2>2. \A l \in Links : ~(l[2] = c /\ Listening(P, l))
    BY <1>4 DEF Listening
  <2> QED BY <1>2, <2>1, <2>2
<1> QED BY <1>3, <1>4

\* Before any core has run, nothing has changed.
LEMMA ParEmpty ==
  ASSUME NEW S, NEW P, NEW M, NEW pl, NEW n, Start(S, P, M, pl, n)
  PROVE  /\ ParSignals(S, P, pl, n, {}) = S
         /\ ParUnits(S, P, pl, n, {}) = P
         /\ ParMet(S, P, M, n, {}) = M
<1>1. S = [l \in Links |-> S[l]] /\ P = [c \in Cores |-> P[c]] /\ M = [l \in Links |-> M[l]]
  BY DEF Start, Types
<1>2. ParSignals(S, P, pl, n, {}) = [l \in Links |-> S[l]]
  BY DEF ParSignals, Taken
<1>3. ParUnits(S, P, pl, n, {}) = [c \in Cores |-> P[c]]
  BY DEF ParUnits
<1>4. ParMet(S, P, M, n, {}) = [l \in Links |-> M[l]]
  BY DEF ParMet
<1> QED BY <1>1, <1>2, <1>3, <1>4

\* The preflight of a core counts the slots it would have counted first.
LEMMA SameRoom ==
  ASSUME NEW S, NEW P, NEW M, NEW pl, NEW n, Start(S, P, M, pl, n), NEW D, NEW c \in Cores, c \notin D,
         NEW T, T = ParSignals(S, P, pl, n, D), NEW Q, Q = ParUnits(S, P, pl, n, D),
         NEW k \in Links, k[1] = c
  PROVE  Len(Occupying(HeardNet(T, Q, n, c)[k], n)) = Len(Occupying(S[k], n))
<1>1. k[2] # c
  BY LinkPair
<1>2. HeardNet(T, Q, n, c)[k] = T[k]
  BY <1>1, SameHeard
<1>3. T[k] = Taken(S, P, n, D, k)
  BY DEF ParSignals
<1>4. StartLink(S[k], n) /\ n \in Nat
  BY DEF Start
<1>5. Len(Occupying(Receive(S[k], n), n)) = Len(Occupying(S[k], n))
  BY <1>4, ReceiveOccupying
<1>6. T[k] = S[k] \/ T[k] = Receive(S[k], n)
  BY <1>3 DEF Taken
<1> QED BY <1>2, <1>5, <1>6

\* SyncUnit::preflight of a core fails exactly when it would have failed first.
LEMMA SameFault ==
  ASSUME NEW S, NEW P, NEW M, NEW pl, NEW n, Start(S, P, M, pl, n), NEW D, NEW c \in Cores, c \notin D,
         NEW T, T = ParSignals(S, P, pl, n, D), NEW Q, Q = ParUnits(S, P, pl, n, D)
  PROVE  FaultOf(T, Q, pl, n, c) = FaultOf(S, P, pl, n, c)
<1> DEFINE w == WantedOf(S, P, pl, n, c)
           k == <<c, w[1]>>
<1>1. WantedOf(T, Q, pl, n, c) = w /\ StepOf(T, Q, n, c) = StepOf(S, P, n, c)
  BY SameStep
<1>2. CASE w = <<>>
  BY <1>1, <1>2 DEF FaultOf
<1>3. CASE w # <<>>
  <2>0. pl \in Plans
    BY DEF Start
  <2>1. k \in Links /\ k[1] = c
    BY <1>3, <2>0, WantedLink
  <2>2. Len(Occupying(HeardNet(T, Q, n, c)[k], n)) = Len(Occupying(S[k], n))
    <3> HIDE DEF k
    <3> QED BY <2>1, SameRoom
  <2>3. S = ParSignals(S, P, pl, n, {}) /\ P = ParUnits(S, P, pl, n, {}) /\ c \notin {}
    BY ParEmpty
  <2>4. Len(Occupying(HeardNet(S, P, n, c)[k], n)) = Len(Occupying(S[k], n))
    <3> HIDE DEF k
    <3> QED BY <2>1, <2>3, SameRoom
  <2> QED BY <1>1, <2>2, <2>4, Zenon DEF FaultOf
<1> QED BY <1>2, <1>3

\* The signals after one more core has run.
LEMMA ParStepSignals ==
  ASSUME NEW S, NEW P, NEW M, NEW pl, NEW n, Start(S, P, M, pl, n), NEW D, NEW c \in Cores, c \notin D,
         NEW T, T = ParSignals(S, P, pl, n, D), NEW Q, Q = ParUnits(S, P, pl, n, D)
  PROVE  SignalsOf(T, Q, pl, n, c) = ParSignals(S, P, pl, n, D \cup {c})
<1> DEFINE w == WantedOf(S, P, pl, n, c)
           H == HeardNet(T, Q, n, c)
           E == D \cup {c}
           R == SignalsOf(T, Q, pl, n, c)
           Y == ParSignals(S, P, pl, n, E)
<1>1. WantedOf(T, Q, pl, n, c) = w
  BY SameStep
<1>2. /\ DOMAIN H = Links /\ H = [l \in Links |-> H[l]]
      /\ \A l \in Links : H[l] = IF l[2] = c /\ Listening(P, l) THEN Receive(T[l], n) ELSE T[l]
  BY SameHeard
<1>3. R = [l \in Links |-> R[l]] /\ \A l \in Links :
        R[l] = IF l[1] = c /\ Sending(S, P, pl, n, l) THEN Send(H[l], Delay[l], n) ELSE H[l]
  <2>1. \A l \in Links : (l[1] = c /\ Sending(S, P, pl, n, l)) <=> (w # <<>> /\ l = <<c, w[1]>>)
    <3> TAKE l \in Links
    <3>1. l = <<l[1], l[2]>>
      BY LinkPair
    <3> QED BY <3>1 DEF Sending
  <2>2. R = IF w = <<>> THEN H ELSE [H EXCEPT ![<<c, w[1]>>] = Send(@, Delay[<<c, w[1]>>], n)]
    BY <1>1, Zenon DEF SignalsOf
  <2> HIDE DEF R, H, w
  <2>3. CASE w = <<>>
    BY <1>2, <2>1, <2>2, <2>3
  <2>4. CASE w # <<>>
    <3>1. R = [H EXCEPT ![<<c, w[1]>>] = Send(@, Delay[<<c, w[1]>>], n)]
      BY <2>2, <2>4
    <3>2. R = [l \in Links |-> R[l]]
      BY <1>2, <3>1
    <3>3. \A l \in Links : R[l] = IF l = <<c, w[1]>> THEN Send(H[l], Delay[l], n) ELSE H[l]
      BY <1>2, <3>1
    <3> QED BY <2>1, <2>4, <3>2, <3>3
  <2> QED BY <2>3, <2>4
<1>4. Y = [l \in Links |-> Y[l]] /\ \A l \in Links :
        Y[l] = IF l[1] \in E /\ Sending(S, P, pl, n, l)
                 THEN Send(Taken(S, P, n, E, l), Delay[l], n) ELSE Taken(S, P, n, E, l)
  BY DEF ParSignals
<1>5. \A l \in Links :
        T[l] = IF l[1] \in D /\ Sending(S, P, pl, n, l)
                 THEN Send(Taken(S, P, n, D, l), Delay[l], n) ELSE Taken(S, P, n, D, l)
  BY DEF ParSignals
<1> HIDE DEF R, Y, H
<1>6. \A l \in Links : R[l] = Y[l]
  <2> TAKE l \in Links
  <2>0. l[1] # l[2]
    BY LinkPair
  <2>1. CASE l[1] = c
    <3>1. H[l] = T[l] /\ T[l] = Taken(S, P, n, D, l)
      BY <1>2, <1>5, <2>0, <2>1
    <3>2. Taken(S, P, n, E, l) = Taken(S, P, n, D, l)
      BY <2>0, <2>1 DEF Taken
    <3> QED BY <1>3, <1>4, <2>1, <3>1, <3>2
  <2>2. CASE l[1] # c /\ l[2] # c
    <3>1. Taken(S, P, n, E, l) = Taken(S, P, n, D, l)
      BY <2>2 DEF Taken
    <3> QED BY <1>2, <1>3, <1>4, <1>5, <2>2, <3>1
  <2>3. CASE l[1] # c /\ l[2] = c
    <3>1. Taken(S, P, n, D, l) = S[l]
      BY <2>3 DEF Taken
    <3>2. Taken(S, P, n, E, l) = IF Listening(P, l) THEN Receive(S[l], n) ELSE S[l]
      BY <2>3 DEF Taken
    <3>3. StartLink(S[l], n) /\ n \in Nat /\ Delay[l] \in Nat \ {0}
      BY LinkFacts DEF Start
    <3>4. Receive(Send(S[l], Delay[l], n), n) = Send(Receive(S[l], n), Delay[l], n)
      BY <3>3, ReceiveSend
    <3>5. R[l] = IF Listening(P, l) THEN Receive(T[l], n) ELSE T[l]
      BY <1>2, <1>3, <2>3
    <3>6. T[l] = IF l[1] \in D /\ Sending(S, P, pl, n, l) THEN Send(S[l], Delay[l], n) ELSE S[l]
      BY <1>5, <3>1
    <3>7. l[1] \in E <=> l[1] \in D
      BY <2>3
    <3>8. Y[l] = IF l[1] \in D /\ Sending(S, P, pl, n, l)
                   THEN Send(Taken(S, P, n, E, l), Delay[l], n) ELSE Taken(S, P, n, E, l)
      BY <1>4, <3>7
    <3> QED BY <3>2, <3>4, <3>5, <3>6, <3>8
  <2> QED BY <2>1, <2>2, <2>3
<1>7. [l \in Links |-> R[l]] = [l \in Links |-> Y[l]]
  BY <1>6
<1> QED BY <1>3, <1>4, <1>7 DEF R, Y

\* The units after one more core has run.
LEMMA ParStepUnits ==
  ASSUME NEW S, NEW P, NEW M, NEW pl, NEW n, Start(S, P, M, pl, n), NEW D, NEW c \in Cores, c \notin D,
         NEW T, T = ParSignals(S, P, pl, n, D), NEW Q, Q = ParUnits(S, P, pl, n, D)
  PROVE  UnitsOf(T, Q, pl, n, c) = ParUnits(S, P, pl, n, D \cup {c})
<1>1. UnitOf(T, Q, pl, n, c) = UnitOf(S, P, pl, n, c)
  BY SameStep
<1>2. Q = [x \in Cores |-> IF x \in D THEN UnitOf(S, P, pl, n, x) ELSE P[x]]
  BY DEF ParUnits
<1>3. [Q EXCEPT ![c] = UnitOf(S, P, pl, n, c)]
      = [x \in Cores |-> IF x \in D \cup {c} THEN UnitOf(S, P, pl, n, x) ELSE P[x]]
  BY <1>2
<1> QED BY <1>1, <1>3 DEF ParUnits, UnitsOf

\* What the step of a core adds to the histories, link by link.
LEMMA MetNetAt ==
  ASSUME NEW S, NEW P, NEW M, NEW pl, NEW n, Start(S, P, M, pl, n), NEW c \in Cores,
         NEW N, N = [l \in Links |-> N[l]], NEW T, NEW Q,
         Q[c] = P[c], StepOf(T, Q, n, c) = StepOf(S, P, n, c)
  PROVE  /\ MetNet(T, Q, N, n, c) = [l \in Links |-> MetNet(T, Q, N, n, c)[l]]
         /\ \A l \in Links :
              MetNet(T, Q, N, n, c)[l] =
                IF StepOf(S, P, n, c).completed /\ l = <<c, P[c][1].target>>
                  THEN Append(N[l], [tick |-> n, deadline |-> P[c][1].deadline]) ELSE N[l]
<1> DEFINE k == <<c, P[c][1].target>>
           e == [tick |-> n, deadline |-> P[c][1].deadline]
           R == MetNet(T, Q, N, n, c)
<1>1. R = IF StepOf(S, P, n, c).completed THEN [N EXCEPT ![k] = Append(@, e)] ELSE N
  BY Zenon DEF MetNet
<1> HIDE DEF k, e, R
<1>2. CASE StepOf(S, P, n, c).completed
  <2>1. R = [N EXCEPT ![k] = Append(@, e)]
    BY <1>1, <1>2
  <2>2. R = [l \in Links |-> R[l]] /\ \A l \in Links : R[l] = IF l = k THEN Append(N[l], e) ELSE N[l]
    BY <2>1
  <2> QED BY <1>2, <2>2 DEF k, e, R
<1>3. CASE ~StepOf(S, P, n, c).completed
  <2>1. R = N
    BY <1>1, <1>3
  <2> QED BY <1>3, <2>1 DEF R
<1> QED BY <1>2, <1>3

\* The meetings after one more core has run.
LEMMA ParStepMet ==
  ASSUME NEW S, NEW P, NEW M, NEW pl, NEW n, Start(S, P, M, pl, n), NEW D, NEW c \in Cores, c \notin D,
         NEW T, T = ParSignals(S, P, pl, n, D), NEW Q, Q = ParUnits(S, P, pl, n, D),
         NEW N, N = ParMet(S, P, M, n, D)
  PROVE  MetNet(T, Q, N, n, c) = ParMet(S, P, M, n, D \cup {c})
<1> DEFINE R == MetNet(T, Q, N, n, c)
           Z == MetNet(S, P, M, n, c)
           Y == ParMet(S, P, M, n, D \cup {c})
<1>1. Q[c] = P[c] /\ StepOf(T, Q, n, c) = StepOf(S, P, n, c)
  BY SameStep
<1>2. N = [l \in Links |-> N[l]] /\ \A l \in Links :
        N[l] = IF l[1] \in D THEN MetNet(S, P, M, n, l[1])[l] ELSE M[l]
  BY DEF ParMet
<1>3. M = [l \in Links |-> M[l]]
  BY DEF Start, Types
<1>4. /\ R = [l \in Links |-> R[l]]
      /\ \A l \in Links :
           R[l] = IF StepOf(S, P, n, c).completed /\ l = <<c, P[c][1].target>>
                    THEN Append(N[l], [tick |-> n, deadline |-> P[c][1].deadline]) ELSE N[l]
  BY <1>1, <1>2, MetNetAt
<1>5. \A l \in Links :
           Z[l] = IF StepOf(S, P, n, c).completed /\ l = <<c, P[c][1].target>>
                    THEN Append(M[l], [tick |-> n, deadline |-> P[c][1].deadline]) ELSE M[l]
  BY <1>3, MetNetAt
<1>6. Y = [l \in Links |-> Y[l]] /\ \A l \in Links :
        Y[l] = IF l[1] \in D \cup {c} THEN MetNet(S, P, M, n, l[1])[l] ELSE M[l]
  BY DEF ParMet
<1> HIDE DEF R, Y
<1>7. \A l \in Links : R[l] = Y[l]
  <2> TAKE l \in Links
  <2>1. CASE l[1] = c
    <3>1. N[l] = M[l] /\ Y[l] = Z[l]
      BY <1>2, <1>6, <2>1
    <3>2. Z[l] = IF StepOf(S, P, n, c).completed /\ l = <<c, P[c][1].target>>
                   THEN Append(M[l], [tick |-> n, deadline |-> P[c][1].deadline]) ELSE M[l]
      BY <1>5
    <3>3. R[l] = IF StepOf(S, P, n, c).completed /\ l = <<c, P[c][1].target>>
                   THEN Append(N[l], [tick |-> n, deadline |-> P[c][1].deadline]) ELSE N[l]
      BY <1>4
    <3> QED BY <3>1, <3>2, <3>3, Zenon
  <2>2. CASE l[1] # c
    <3>1. l # <<c, P[c][1].target>>
      BY <2>2
    <3>2. Y[l] = N[l]
      BY <1>2, <1>6, <2>2
    <3> QED BY <1>4, <3>1, <3>2
  <2> QED BY <2>1, <2>2
<1>8. [l \in Links |-> R[l]] = [l \in Links |-> Y[l]]
  BY <1>7
<1> QED BY <1>4, <1>6, <1>8 DEF R, Y

-----------------------------------------------------------------------------
(* The two simulations.                                                    *)

\* The network of the reverse simulation is the same code.
LEMMA SameNetwork ==
  /\ \A s, n : Backward!Receivable(s, n) = Receivable(s, n)
  /\ \A s, n : Backward!Receive(s, n) = Receive(s, n)
  /\ \A s, n : Backward!Occupying(s, n) = Occupying(s, n)
  /\ \A s, d, n : Backward!Send(s, d, n) = Send(s, d, n)
<1>1. \A s, n : Backward!Receivable(s, n) = Receivable(s, n)
  BY Zenon DEF Backward!Receivable, Receivable, Backward!Unconsumed, Unconsumed
<1>2. \A s, n : Backward!Receive(s, n) = Receive(s, n)
  BY Zenon DEF Backward!Receive, Receive, Backward!Receivable, Receivable, Backward!Unconsumed,
               Unconsumed
<1>3. \A s, n : Backward!Occupying(s, n) = Occupying(s, n)
  BY Zenon DEF Backward!Occupying, Occupying, Backward!Occupies, Occupies,
               Backward!Unconsumed, Unconsumed
<1>4. \A s, d, n : Backward!Send(s, d, n) = Send(s, d, n)
  BY <1>3, Zenon DEF Backward!Send, Send
<1> QED BY <1>1, <1>2, <1>3, <1>4

\* So are its units.
LEMMA SameUnits ==
  /\ \A u, a, n : Backward!StepUnit(u, a, n) = StepUnit(u, a, n)
  /\ \A u : Backward!Listens(u) = Listens(u)
  /\ \A u, t : Backward!Overlaps(u, t) = Overlaps(u, t)
  /\ \A t, d : Backward!BookingOf(t, d) = BookingOf(t, d)
BY Zenon DEF Backward!StepUnit, StepUnit, Backward!Listens, Listens, Backward!Overlaps, Overlaps,
             Backward!BookingOf, BookingOf

\* Core::tcu_edge of the forward simulation, as a function of its state.
LEMMA ForwardCore ==
  ASSUME CoreEdge, NEW c, c = order[turn]
  PROVE  /\ refused' = FaultOf(signals, pending, plan, now, c)
         /\ refused' = "None" =>
              /\ signals' = SignalsOf(signals, pending, plan, now, c)
              /\ pending' = UnitsOf(signals, pending, plan, now, c)
              /\ met' = MetNet(signals, pending, met, now, c)
<1>1. Stepped(c) = StepOf(signals, pending, now, c) /\ Heard(c) = HeardNet(signals, pending, now, c)
  BY Zenon DEF Stepped, StepOf, Heard, HeardNet
<1>2. Wanted(c) = WantedOf(signals, pending, plan, now, c)
  BY <1>1, Zenon DEF Wanted, WantedOf
<1>3. BookFault(c) = FaultOf(signals, pending, plan, now, c)
  BY <1>1, <1>2, Zenon DEF BookFault, FaultOf
<1>4. Serve(c) => /\ signals' = SignalsOf(signals, pending, plan, now, c)
                  /\ pending' = UnitsOf(signals, pending, plan, now, c)
                  /\ met' = MetNet(signals, pending, met, now, c)
  <2> SUFFICES ASSUME Serve(c) PROVE /\ signals' = SignalsOf(signals, pending, plan, now, c)
                  /\ pending' = UnitsOf(signals, pending, plan, now, c)
                  /\ met' = MetNet(signals, pending, met, now, c)
    OBVIOUS
  <2>1. signals' = SignalsOf(signals, pending, plan, now, c)
    BY <1>1, <1>2, Zenon DEF Serve, SignalsOf
  <2>2. pending' = UnitsOf(signals, pending, plan, now, c)
    BY <1>1, <1>2, Zenon DEF Serve, UnitOf, UnitsOf
  <2>3. met' = MetNet(signals, pending, met, now, c)
    BY <1>1, Zenon DEF Serve, MetNet
  <2> QED BY <2>1, <2>2, <2>3
<1> QED BY <1>3, <1>4 DEF CoreEdge

\* Core::tcu_edge of the reverse simulation, as the same function of its own state.
LEMMA BackwardCore ==
  ASSUME Backward!CoreEdge, NEW c, c = order_r[turn]
  PROVE  /\ refused_r = "None" /\ turn' = turn + 1
         /\ order_r' = order_r /\ plan' = plan /\ now' = now
         /\ refused_r' = FaultOf(signals_r, pending_r, plan, now, c)
         /\ refused_r' = "None" =>
              /\ signals_r' = SignalsOf(signals_r, pending_r, plan, now, c)
              /\ pending_r' = UnitsOf(signals_r, pending_r, plan, now, c)
              /\ met_r' = MetNet(signals_r, pending_r, met_r, now, c)
<1>1. /\ Backward!Stepped(c) = StepOf(signals_r, pending_r, now, c)
      /\ Backward!Heard(c) = HeardNet(signals_r, pending_r, now, c)
  BY SameNetwork, SameUnits, Zenon DEF Backward!Stepped, StepOf, Backward!Heard, HeardNet
<1>2. Backward!Wanted(c) = WantedOf(signals_r, pending_r, plan, now, c)
  BY <1>1, Zenon DEF Backward!Wanted, WantedOf
<1>3. Backward!BookFault(c) = FaultOf(signals_r, pending_r, plan, now, c)
  BY <1>1, <1>2, SameNetwork, SameUnits, Zenon DEF Backward!BookFault, FaultOf
<1>4. ASSUME Backward!Serve(c)
      PROVE  /\ signals_r' = SignalsOf(signals_r, pending_r, plan, now, c)
             /\ pending_r' = UnitsOf(signals_r, pending_r, plan, now, c)
             /\ met_r' = MetNet(signals_r, pending_r, met_r, now, c)
  <2>1. signals_r' = SignalsOf(signals_r, pending_r, plan, now, c)
    BY <1>1, <1>2, <1>4, SameNetwork, Zenon DEF Backward!Serve, SignalsOf
  <2>2. pending_r' = UnitsOf(signals_r, pending_r, plan, now, c)
    BY <1>1, <1>2, <1>4, SameUnits, Zenon DEF Backward!Serve, UnitOf, UnitsOf
  <2>3. met_r' = MetNet(signals_r, pending_r, met_r, now, c)
    BY <1>1, <1>4, Zenon DEF Backward!Serve, MetNet
  <2> QED BY <2>1, <2>2, <2>3
<1> QED BY <1>3, <1>4 DEF Backward!CoreEdge

\* The cores that have run at the current edge in reverse.
Ran_r == {order_r[i] : i \in 1..(turn - 1)}

\* The reverse order runs every core once too.
LEMMA ReversedFacts ==
  ASSUME EdgeTypes, order_r = Reversed(order)
  PROVE  /\ Len(order_r) = Len(order)
         /\ ~EdgeDone => order_r[turn] \in Cores /\ order_r[turn] \notin Ran_r
         /\ EdgeDone => \A c \in Cores : c \in Ran_r
<1> DEFINE n == Len(order)
<1>1. order \in Seq(Cores) /\ n \in Nat /\ turn \in 1..(n + 1)
  BY OrderFacts DEF EdgeTypes
<1>2. \A c \in Cores : \E i \in 1..n : order[i] = c /\ \A j \in 1..n : order[j] = c => j = i
  BY SyncAssumption DEF EdgeTypes
<1>3. \A i \in 1..n : n + 1 - i \in 1..n
  BY <1>1
<1>4. \A i \in 1..n : order[i] \in Cores
  BY <1>1, ElementOfSeq
<1>5. order_r = [i \in 1..n |-> order[n + 1 - i]] /\ \A i \in 1..n : order_r[i] = order[n + 1 - i]
  BY DEF Reversed
<1>6. Len(order_r) = n
  <2>1. order_r \in [1..n -> Cores]
    BY <1>3, <1>4, <1>5
  <2>2. order_r \in Seq(Cores) /\ DOMAIN order_r = 1..n
    BY <1>1, <2>1
  <2> QED BY <1>1, <2>2, LenProperties
<1> HIDE DEF n
<1>7. ASSUME ~EdgeDone PROVE order_r[turn] \in Cores /\ order_r[turn] \notin Ran_r
  <2>1. turn \in 1..n
    BY <1>1, <1>7 DEF EdgeDone, n
  <2>2. order_r[turn] = order[n + 1 - turn] /\ n + 1 - turn \in 1..n
    BY <1>3, <1>5, <2>1
  <2>3. ASSUME NEW i \in 1..(turn - 1) PROVE order_r[i] # order_r[turn]
    <3>1. i \in 1..n /\ n + 1 - i # n + 1 - turn
      BY <1>1, <2>1
    <3>2. order_r[i] = order[n + 1 - i] /\ n + 1 - i \in 1..n
      BY <1>3, <1>5, <3>1
    <3> QED BY <1>2, <1>4, <2>2, <3>1, <3>2
  <2> QED BY <1>4, <2>2, <2>3 DEF Ran_r
<1>8. ASSUME EdgeDone, NEW c \in Cores PROVE c \in Ran_r
  <2>1. turn - 1 = n
    BY <1>1, <1>8 DEF EdgeDone, n
  <2>2. PICK i \in 1..n : order[i] = c
    BY <1>2
  <2>3. n + 1 - i \in 1..n /\ n + 1 - (n + 1 - i) = i
    BY <1>1, <1>3
  <2>4. order_r[n + 1 - i] = c
    BY <1>5, <2>2, <2>3
  <2> QED BY <2>1, <2>3, <2>4 DEF Ran_r
<1> QED BY <1>6, <1>7, <1>8 DEF n

\* A turn adds its core to those that have run in reverse.
LEMMA RanRGrows ==
  ASSUME EdgeTypes, ~EdgeDone, turn' = turn + 1, order_r' = order_r
  PROVE  Ran_r' = Ran_r \cup {order_r[turn]}
<1>1. turn \in Nat \ {0}
  BY OrderFacts
<1>2. 1..(turn' - 1) = (1..(turn - 1)) \cup {turn}
  BY <1>1
<1> QED BY <1>2 DEF Ran_r

\* What the invariant of neighbour synchronization says between two edges is what the
\* lemmas about an edge need when it begins.
LEMMA StartFromDone ==
  ASSUME NEW S, NEW P, NEW M, NEW D, NEW n \in Nat, NetInv(S, P, M, D, n), \A c \in Cores : c \in D,
         NEW pl \in Plans
  PROVE  Start(S, P, M, pl, n + 1)
<1>1. Types(S, P, M)
  BY DEF NetInv
<1>2. ASSUME NEW l \in Links PROVE StartLink(S[l], n + 1)
  <2>1. l = <<l[1], l[2]>> /\ l[1] \in Cores /\ l[2] \in Cores
    BY LinkPair
  <2> DEFINE a == l[1]
             b == l[2]
             s == S[l]
  <2>2. s \in Seq(Signal)
    BY <1>1, <1>2 DEF Types
  <2>3. LinkAt(S, P, D, n, a, b)
    BY <1>2, <2>1 DEF NetInv
  <2>4. Even(a, b, P[a], P[b], S[<<a, b>>], S[<<b, a>>], M[<<a, b>>], M[<<b, a>>], n, n)
    BY <1>2, <2>1, AllEven
  <2>5. ~FirstOpen(s)
    BY <2>1, <2>4 DEF Even, Hears
  <2>6. LinkInv(s, P[a], b, Clk(D, n, a), n)
    BY <2>1, <2>3 DEF LinkAt
  <2> HIDE DEF s
  <2>7. Len(s) <= 2
    BY <2>6 DEF LinkInv
  <2>8. \A i \in 1..Len(s) : Unconsumed(s[i]) \/ s[i].consumed[1] < n + 1
    <3> TAKE i \in 1..Len(s)
    <3>1. s[i] \in Signal
      BY <2>2, ElementOfSeq
    <3>2. Unconsumed(s[i]) \/ s[i].consumed[1] \in Int
      BY <3>1 DEF Signal, Unconsumed
    <3>3. Unconsumed(s[i]) \/ s[i].consumed[1] <= n
      BY <2>6 DEF LinkInv
    <3> QED BY <3>2, <3>3
  <2> QED BY <2>2, <2>5, <2>7, <2>8 DEF StartLink, s
<1> QED BY <1>1, <1>2 DEF Start

\* One simulation within an edge that began with S0, P0 and M0, when the cores D have run:
\* it has failed if one of them fails, and is otherwise what they do at once.
Half(S, P, M, ref, S0, P0, M0, pl, n, D) ==
  /\ ref = "None" <=> \A c \in Cores : c \in D => FaultOf(S0, P0, pl, n, c) = "None"
  /\ ref = "None" => /\ S = ParSignals(S0, P0, pl, n, D)
                     /\ P = ParUnits(S0, P0, pl, n, D)
                     /\ M = ParMet(S0, P0, M0, n, D)

\* A simulation that begins an edge.
LEMMA HalfBegin ==
  ASSUME NEW S, NEW P, NEW M, NEW pl, NEW n, Start(S, P, M, pl, n)
  PROVE  Half(S, P, M, "None", S, P, M, pl, n, {})
BY ParEmpty DEF Half

\* A simulation that has failed stays as it is for the rest of the edge.
LEMMA HalfSkip ==
  ASSUME NEW S, NEW P, NEW M, NEW ref, NEW S0, NEW P0, NEW M0, NEW pl, NEW n, NEW D,
         Half(S, P, M, ref, S0, P0, M0, pl, n, D), ref # "None", NEW c
  PROVE  Half(S, P, M, ref, S0, P0, M0, pl, n, D \cup {c})
BY DEF Half

\* A simulation runs one more core.
LEMMA HalfStep ==
  ASSUME NEW S, NEW P, NEW M, NEW S0, NEW P0, NEW M0, NEW pl, NEW n, NEW D,
         Start(S0, P0, M0, pl, n), Half(S, P, M, "None", S0, P0, M0, pl, n, D),
         NEW c \in Cores, c \notin D,
         NEW S1, NEW P1, NEW M1, NEW ref,
         ref = FaultOf(S, P, pl, n, c),
         ref = "None" => /\ S1 = SignalsOf(S, P, pl, n, c)
                         /\ P1 = UnitsOf(S, P, pl, n, c)
                         /\ M1 = MetNet(S, P, M, n, c)
  PROVE  Half(S1, P1, M1, ref, S0, P0, M0, pl, n, D \cup {c})
<1>1. /\ S = ParSignals(S0, P0, pl, n, D)
      /\ P = ParUnits(S0, P0, pl, n, D)
      /\ M = ParMet(S0, P0, M0, n, D)
      /\ \A x \in Cores : x \in D => FaultOf(S0, P0, pl, n, x) = "None"
  BY DEF Half
<1>2. ref = FaultOf(S0, P0, pl, n, c)
  BY <1>1, SameFault
<1>3. ref = "None" <=> \A x \in Cores : x \in D \cup {c} => FaultOf(S0, P0, pl, n, x) = "None"
  BY <1>1, <1>2
<1>4. SignalsOf(S, P, pl, n, c) = ParSignals(S0, P0, pl, n, D \cup {c})
  BY <1>1, ParStepSignals
<1>5. UnitsOf(S, P, pl, n, c) = ParUnits(S0, P0, pl, n, D \cup {c})
  BY <1>1, ParStepUnits
<1>6. MetNet(S, P, M, n, c) = ParMet(S0, P0, M0, n, D \cup {c})
  BY <1>1, ParStepMet
<1> QED BY <1>3, <1>4, <1>5, <1>6 DEF Half

\* Once every core has run, the outcome does not depend on who ran when.
LEMMA ParAll ==
  ASSUME NEW D, NEW E, \A c \in Cores : c \in D, \A c \in Cores : c \in E,
         NEW S, NEW P, NEW M, NEW pl, NEW n
  PROVE  /\ ParSignals(S, P, pl, n, D) = ParSignals(S, P, pl, n, E)
         /\ ParUnits(S, P, pl, n, D) = ParUnits(S, P, pl, n, E)
         /\ ParMet(S, P, M, n, D) = ParMet(S, P, M, n, E)
<1>1. \A l \in Links : l[1] \in D /\ l[2] \in D /\ l[1] \in E /\ l[2] \in E
  BY LinkPair
<1>2. \A l \in Links : Taken(S, P, n, D, l) = Taken(S, P, n, E, l)
  BY <1>1 DEF Taken
<1>3. ParSignals(S, P, pl, n, D) = ParSignals(S, P, pl, n, E)
  BY <1>1, <1>2 DEF ParSignals
<1>4. ParUnits(S, P, pl, n, D) = ParUnits(S, P, pl, n, E)
  BY DEF ParUnits
<1>5. ParMet(S, P, M, n, D) = ParMet(S, P, M, n, E)
  BY <1>1 DEF ParMet
<1> QED BY <1>3, <1>4, <1>5

-----------------------------------------------------------------------------
(* The invariant and the theorem.                                          *)

\* The two simulations agree.
Equal ==
  /\ refused = "None" <=> refused_r = "None"
  /\ refused = "None" => signals = signals_r /\ pending = pending_r /\ met = met_r

\* Both simulations came from the state S, P and M at the beginning of the edge.
FromStart(S, P, M) ==
  /\ Start(S, P, M, plan, now)
  /\ Half(signals, pending, met, refused, S, P, M, plan, now, Ran)
  /\ Half(signals_r, pending_r, met_r, refused_r, S, P, M, plan, now, Ran_r)

\* The inductive invariant of the two simulations.
BothInv ==
  /\ IInv
  /\ order_r = Reversed(order)
  /\ (EdgeDone /\ Equal) \/ \E S, P, M : FromStart(S, P, M)

\* After an edge the two simulations agree.
LEMMA EdgeOutcome == BothInv /\ EdgeDone => Equal
<1> SUFFICES ASSUME BothInv, EdgeDone, NEW S, NEW P, NEW M, FromStart(S, P, M) PROVE Equal
  BY DEF BothInv
<1>1. EdgeTypes /\ order_r = Reversed(order)
  BY DEF BothInv, IInv
<1>2. (\A c \in Cores : c \in Ran) /\ (\A c \in Cores : c \in Ran_r)
  BY <1>1, OrderFacts, ReversedFacts
<1>3. refused = "None" <=> refused_r = "None"
  BY <1>2 DEF FromStart, Half
<1>4. /\ ParSignals(S, P, plan, now, Ran) = ParSignals(S, P, plan, now, Ran_r)
      /\ ParUnits(S, P, plan, now, Ran) = ParUnits(S, P, plan, now, Ran_r)
      /\ ParMet(S, P, M, now, Ran) = ParMet(S, P, M, now, Ran_r)
  BY <1>2, ParAll
<1> QED BY <1>3, <1>4 DEF FromStart, Half, Equal

\* The invariant holds when both simulations begin.
LEMMA BothInitInv == BothInit => BothInv
<1> SUFFICES ASSUME BothInit PROVE BothInv
  OBVIOUS
<1>1. IInv /\ order_r = Reversed(order)
  BY InitInvariant DEF BothInit
<1>2. EdgeDone
  <2>1. order \in Seq(Cores) /\ turn = Len(order) + 1
    BY SyncAssumption DEF BothInit, Init
  <2>2. Len(order) \in Nat
    BY <2>1, LenProperties
  <2> QED BY <2>1, <2>2 DEF EdgeDone
<1>3. Equal
  BY DEF BothInit, Init, Backward!Init, Backward!Links, Links, Equal
<1> QED BY <1>1, <1>2, <1>3 DEF BothInv

\* A new edge begins from the state that both simulations share.
LEMMA BothBegin ==
  ASSUME BothInv, BeginEdge, Backward!BeginEdge
  PROVE  BothInv'
<1>1. IInv' /\ Equal /\ EdgeDone /\ refused = "None"
  BY StepInvariant, EdgeOutcome DEF BothInv, Next, BeginEdge
<1>2. /\ signals' = signals /\ pending' = pending /\ met' = met /\ refused' = refused /\ order' = order
      /\ turn' = 1 /\ now' = now + 1 /\ plan' \in Plans
  BY DEF BeginEdge, netVars
<1>3. /\ signals_r' = signals_r /\ pending_r' = pending_r /\ met_r' = met_r
      /\ refused_r' = refused_r /\ order_r' = order_r
  BY DEF Backward!BeginEdge, Backward!netVars
<1>4. order_r' = Reversed(order)'
  BY <1>2, <1>3 DEF BothInv, Reversed
<1>5. Start(signals, pending, met, plan', now')
  <2>1. EdgeTypes /\ NetInv(signals, pending, met, Ran, now) /\ now \in Nat
    BY <1>1 DEF BothInv, IInv, EdgeTypes
  <2>2. \A c \in Cores : c \in Ran
    BY <1>1, <2>1, OrderFacts
  <2> QED BY <1>2, <2>1, <2>2, StartFromDone
<1>6. Ran' = {} /\ Ran_r' = {}
  BY <1>2 DEF Ran, Ran_r
<1>7. Half(signals, pending, met, "None", signals, pending, met, plan', now', {})
  BY <1>5, HalfBegin
<1>8. /\ signals_r' = signals /\ pending_r' = pending /\ met_r' = met /\ refused_r' = "None"
      /\ refused' = "None"
  BY <1>1, <1>2, <1>3 DEF Equal
<1>9. FromStart(signals, pending, met)'
  <2>1. Start(signals, pending, met, plan, now)'
    BY <1>2, <1>5
  <2>2. Half(signals, pending, met, refused, signals, pending, met, plan, now, Ran)'
    BY <1>2, <1>6, <1>7, <1>8
  <2>3. Half(signals_r, pending_r, met_r, refused_r, signals, pending, met, plan, now, Ran_r)'
    BY <1>2, <1>6, <1>7, <1>8
  <2> QED BY <2>1, <2>2, <2>3 DEF FromStart
<1> QED BY <1>1, <1>4, <1>9 DEF BothInv

\* Simulator::reset_at leaves both simulations empty.
LEMMA BothReset ==
  ASSUME BothInv, ResetSession, Backward!ResetSession
  PROVE  BothInv'
<1>1. IInv' /\ Equal /\ EdgeDone
  BY StepInvariant, EdgeOutcome DEF BothInv, Next, ResetSession
<1>2. order' = order /\ turn' = turn /\ order_r' = order_r
  BY DEF ResetSession, Backward!ResetSession
<1>3. EdgeDone' /\ order_r' = Reversed(order)'
  BY <1>1, <1>2 DEF BothInv, Reversed, EdgeDone
<1>4. Equal'
  BY DEF ResetSession, Backward!ResetSession, Backward!Links, Links, Equal
<1> QED BY <1>1, <1>3, <1>4 DEF BothInv

\* Core::tcu_edge of one core in each simulation keeps the invariant.
LEMMA BothCores ==
  ASSUME BothInv, CoreEdges
  PROVE  BothInv'
<1> DEFINE c == order[turn]
           d == order_r[turn]
<1>0. IInv /\ EdgeTypes /\ order_r = Reversed(order) /\ ~EdgeDone /\ turn' = turn + 1
  BY DEF BothInv, IInv, CoreEdges
<1>1. PICK S, P, M : FromStart(S, P, M)
  BY <1>0 DEF BothInv
<1>2. order' = order /\ plan' = plan /\ now' = now /\ order_r' = order_r
  BY BackwardCore DEF CoreEdges, CoreEdge, forwardVars, backwardVars
<1>3. /\ c \in Cores /\ c \notin Ran /\ Ran' = Ran \cup {c}
      /\ d \in Cores /\ d \notin Ran_r /\ Ran_r' = Ran_r \cup {d}
  BY <1>0, <1>2, OrderFacts, RanGrows, ReversedFacts, RanRGrows
<1>4. IInv'
  <2>1. CASE CoreEdge
    BY <1>0, <2>1, StepInvariant DEF Next
  <2>2. CASE refused # "None" /\ UNCHANGED <<forwardVars, plan, now>>
    <3>1. refused' # "None" /\ turn \in 1..Len(order) /\ Len(order) \in Nat
      BY <1>0, <2>2, OrderFacts DEF forwardVars, netVars
    <3>2. EdgeTypes'
      BY <1>0, <1>2, <3>1 DEF EdgeTypes
    <3> QED BY <3>1, <3>2 DEF IInv
  <2> QED BY <2>1, <2>2 DEF CoreEdges
<1>5. order_r' = Reversed(order)'
  BY <1>0, <1>2 DEF Reversed
<1>6. Start(S, P, M, plan', now')
  BY <1>1, <1>2 DEF FromStart
<1>7. Half(signals', pending', met', refused', S, P, M, plan, now, Ran \cup {c})
  <2>0. Start(S, P, M, plan, now) /\ Half(signals, pending, met, refused, S, P, M, plan, now, Ran)
    BY <1>1 DEF FromStart
  <2>1. CASE CoreEdge
    <3>1. /\ refused = "None"
          /\ refused' = FaultOf(signals, pending, plan, now, c)
          /\ refused' = "None" =>
              /\ signals' = SignalsOf(signals, pending, plan, now, c)
              /\ pending' = UnitsOf(signals, pending, plan, now, c)
              /\ met' = MetNet(signals, pending, met, now, c)
      BY <2>1, ForwardCore DEF CoreEdge
    <3> HIDE DEF c
    <3> QED BY <1>3, <2>0, <3>1, HalfStep
  <2>2. CASE refused # "None" /\ UNCHANGED <<forwardVars, plan, now>>
    <3>1. signals' = signals /\ pending' = pending /\ met' = met /\ refused' = refused
      BY <2>2 DEF forwardVars, netVars
    <3>2. Half(signals, pending, met, refused, S, P, M, plan, now, Ran \cup {c})
      <4> HIDE DEF c
      <4> QED BY <2>0, <2>2, HalfSkip
    <3> QED BY <3>1, <3>2
  <2> QED BY <2>1, <2>2 DEF CoreEdges
<1>8. Half(signals_r', pending_r', met_r', refused_r', S, P, M, plan, now, Ran_r \cup {d})
  <2>0. /\ Start(S, P, M, plan, now)
        /\ Half(signals_r, pending_r, met_r, refused_r, S, P, M, plan, now, Ran_r)
    BY <1>1 DEF FromStart
  <2>1. CASE Backward!CoreEdge
    <3>1. /\ refused_r = "None"
          /\ refused_r' = FaultOf(signals_r, pending_r, plan, now, d)
          /\ refused_r' = "None" =>
              /\ signals_r' = SignalsOf(signals_r, pending_r, plan, now, d)
              /\ pending_r' = UnitsOf(signals_r, pending_r, plan, now, d)
              /\ met_r' = MetNet(signals_r, pending_r, met_r, now, d)
      BY <2>1, BackwardCore
    <3> HIDE DEF d
    <3> QED BY <1>3, <2>0, <3>1, HalfStep
  <2>2. CASE refused_r # "None" /\ UNCHANGED <<backwardVars, plan, now>>
    <3>1. signals_r' = signals_r /\ pending_r' = pending_r /\ met_r' = met_r /\ refused_r' = refused_r
      BY <2>2 DEF backwardVars
    <3>2. Half(signals_r, pending_r, met_r, refused_r, S, P, M, plan, now, Ran_r \cup {d})
      <4> HIDE DEF d
      <4> QED BY <2>0, <2>2, HalfSkip
    <3> QED BY <3>1, <3>2
  <2> QED BY <2>1, <2>2 DEF CoreEdges
<1> HIDE DEF c, d
<1>9. \E S1, P1, M1 : FromStart(S1, P1, M1)'
  <2>1. /\ Start(S, P, M, plan', now')
        /\ Half(signals', pending', met', refused', S, P, M, plan', now', Ran')
        /\ Half(signals_r', pending_r', met_r', refused_r', S, P, M, plan', now', Ran_r')
    BY <1>2, <1>3, <1>6, <1>7, <1>8
  <2> QED BY <2>1 DEF FromStart
<1> QED BY <1>4, <1>5, <1>9 DEF BothInv

\* The invariant of the two simulations: at any time within an edge, each is where all
\* the cores it has run so far would have brought it at once from their common start.
THEOREM BothInvariant == BothSpec => []BothInv
<1>1. BothInv /\ [BothNext]_bothVars => BothInv'
  <2> SUFFICES ASSUME BothInv, [BothNext]_bothVars PROVE BothInv'
    OBVIOUS
  <2>1. CASE UNCHANGED bothVars
    BY <2>1 DEF BothInv, IInv, EdgeTypes, Ran, Ran_r, FromStart, Equal, EdgeDone, Reversed, bothVars,
               vars, netVars, edgeVars, backwardVars
  <2> QED BY <2>1, BothBegin, BothCores, BothReset DEF BothNext
<1> QED BY <1>1, BothInitInv, PTL DEF BothSpec

\* The outcome of an edge, in bookings, signals, meetings and refusals, does not depend on
\* whether Simulator::tcu_edge runs the cores in registration order or in reverse.
THEOREM OutcomeIndependentOfOrder == BothSpec => []OrderIndependent
<1>1. BothInv => OrderIndependent
  BY EdgeOutcome DEF Equal, OrderIndependent
<1> QED BY <1>1, BothInvariant, PTL

=============================================================================
