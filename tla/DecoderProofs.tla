---------------------------- MODULE DecoderProofs ----------------------------
(***************************************************************************)
(* Proofs about the decoder system: what a core reads are the corrections  *)
(* of its own windows, result slots match jobs, requests wait only for a   *)
(* consumer, and the ticks that the simulation skips are idle.             *)
(*                                                                         *)
(* The invariant of the transport holds at every step of a barrier; it is  *)
(* proved for each of the four parts of step and for each command.  On     *)
(* top of it, an account of the bits of each client relates the history    *)
(* to the sessions, the jobs and the packets on the link.                  *)
(***************************************************************************)
EXTENDS Decoder, SubsequenceProofs

-----------------------------------------------------------------------------
(* The inductive invariant.                                                *)

\* A packet on the request link.
Packet == [id : Nat, core : Cores, decoder : DecoderIds, bits : Seq({0, 1}), sent : Nat, arrival : Nat,
           transmitted : BOOLEAN]

\* The requests and jobs of a transport.
Requests(t) == {t.requests[i] : i \in 1..Len(t.requests)}
Resets(t) == {t.reset_request[i] : i \in 1..Len(t.reset_request)}
Jobs(t) == {t.jobs[i] : i \in 1..Len(t.jobs)}
Packets(t) == Requests(t) \cup Resets(t)

\* The fields of a transport, a session and a job.
IsTransport(t) ==
  t \in [sessions : {t.sessions}, requests : {t.requests}, reset_request : {t.reset_request}, jobs : {t.jobs},
         available : {t.available}, tx_available : {t.tx_available}, rx_available : {t.rx_available},
         next : {t.next}, fault : {t.fault}]
IsSession(s) == s \in [measurements : Seq({0, 1}), result : {s.result}, submitted : BOOLEAN]
IsJob(j) ==
  /\ j \in [id : Nat, core : Cores, decoder : DecoderIds, start : Nat, completion : Nat, result : {j.result},
            arrival : Seq(Nat), started : BOOLEAN, completed : BOOLEAN]
  /\ Len(j.arrival) <= 1

\* The types of a transport.
TypeInv(t) ==
  /\ IsTransport(t)
  /\ t.sessions = [c \in Clients |-> t.sessions[c]] /\ \A c \in Clients : IsSession(t.sessions[c])
  /\ Lists(t.requests, Requests(t)) /\ Requests(t) \subseteq Packet
  /\ t.reset_request \in Seq(Packet) /\ Len(t.reset_request) <= 1
  /\ Lists(t.jobs, Jobs(t)) /\ \A j \in Jobs(t) : IsJob(j)
  /\ t.available \in [DecoderIds -> Nat]
  /\ t.tx_available \in Nat /\ t.rx_available \in Nat /\ t.next \in Nat

\* The identities: unused ones from next on, and none twice.
IdInv(t) ==
  /\ \A x \in Packets(t) \cup Jobs(t) : x.id < t.next
  /\ \A x, y \in Requests(t) : x.id = y.id => x = y
  /\ \A x, y \in Jobs(t) : x.id = y.id => x = y
  /\ \A x \in Requests(t), j \in Jobs(t) : x.id # j.id

\* The request link keeps the order.
LinkInv(t) ==
  /\ \A p \in Packets(t) : p.arrival <= t.tx_available + LinkLatency
  /\ \A x \in Requests(t), p \in Resets(t) :
       \/ x.id < p.id /\ x.arrival < p.arrival
       \/ p.id < x.id /\ p.arrival < x.arrival
  /\ \A j \in Jobs(t), p \in Resets(t) : Owner(j) = Owner(p) => j.id < p.id

\* The result slots, and the one job of a session that waits for a result.
SlotInv(t) ==
  /\ Reserved(t) <= ResultCapacity
  /\ \A x, y \in Jobs(t) : Owner(x) = Owner(y) => x = y
  /\ \A c \in Clients : t.sessions[c].submitted <=> \E j \in Jobs(t) : Owner(j) = c

\* The invariant of the transport.
TransportInv(t) == TypeInv(t) /\ IdInv(t) /\ LinkInv(t) /\ SlotInv(t)

\* The transport has done all that is due up to a tick.
SentUpTo(t, tick) ==
  /\ \A p \in Packets(t) : p.sent <= tick => p.transmitted
  /\ \A p \in Resets(t) : tick < p.arrival
JobsUpTo(t, tick) ==
  \A j \in Jobs(t) : /\ j.start <= tick => j.started
                     /\ j.completion <= tick => j.completed
                     /\ j.arrival # <<>> => tick < j.arrival[1]
Idle(t, tick) ==
  /\ SentUpTo(t, tick) /\ JobsUpTo(t, tick) /\ ~Admissible(t, tick)
  /\ Unsent(t) # {} => tick < t.rx_available

\* The registers of a core.
Registers == [decoder : Nat, count : Nat, low : [1..WordBits -> {0, 1}], high : [1..WordBits -> {0, 1}]]
\* The clocks, the registers and the programs of the cores.
WorldInv ==
  /\ now \in Nat /\ epoch \in Nat /\ served \in 0..CoreCount /\ settled \in BOOLEAN
  /\ settled => (OnEdge => served = CoreCount)
  /\ registers \in [Cores -> Registers]
  /\ made \in [Cores -> Nat] /\ pending \in [Cores -> Seq(Accesses)]
  /\ \A core \in Cores : /\ made[core] <= Len(Menu[core])
                         /\ pending[core] # <<>> => made[core] < Len(Menu[core])

\* The inductive invariant.
Inv ==
  /\ WorldInv
  /\ TransportInv(transport)
  /\ Running /\ settled => Idle(transport, now)

-----------------------------------------------------------------------------
(* Parameters and durations.                                               *)

\* The owner of a packet or a job is a client.
LEMMA ClientIs ==
  ASSUME NEW x, x.core \in Cores, x.decoder \in DecoderIds
  PROVE  Owner(x) \in Clients
  BY DEF Owner, Clients

\* What the assumptions say of the parameters.
LEMMA ConstantsNat ==
  /\ CoreCount \in Nat \ {0} /\ RequestCapacity \in Nat \ {0} /\ ResultCapacity \in Nat \ {0}
  /\ LinkLatency \in Nat \ {0} /\ BytesPerTick \in Nat \ {0} /\ CpuPeriod \in Nat \ {0}
  /\ PacketOverhead \in Nat
  /\ \A d \in DecoderIds : /\ DecoderConfig[d].measurements \in Nat \ {0} /\ DecoderConfig[d].outputs \in Nat \ {0}
                           /\ DecoderConfig[d].latency \in Nat \ {0}
                           /\ DecoderConfig[d].initiation_interval \in Nat \ {0}
  BY DecoderAssumption

\* A quotient is an integer.
LEMMA DivInt ==
  ASSUME NEW a \in Int, NEW b \in Nat \ {0}
  PROVE  a \div b \in Int
  OBVIOUS

\* A packet takes at least one tick of its link.
LEMMA DurationNat ==
  ASSUME NEW n \in Nat
  PROVE  Duration(n) \in Nat \ {0}
<1> DEFINE m == (n + 7) \div 8
           a == PacketOverhead + m + BytesPerTick - 1
           k == a \div BytesPerTick
<1>1. m \in Int
  OBVIOUS
<1> HIDE DEF m
<1>2. a \in Int
  BY <1>1, ConstantsNat
<1> HIDE DEF a
<1>3. k \in Int
  BY <1>2, ConstantsNat, DivInt
<1> HIDE DEF k
<1>4. Later(1, k) \in Nat \ {0}
  BY <1>3 DEF Later
<1>5. Duration(n) = Later(1, k)
  BY DEF Duration, k, a, m
<1> QED BY <1>4, <1>5

\* There are finitely many clients.
LEMMA ClientsFinite == IsFiniteSet(Clients)
<1>1. IsFiniteSet(Cores)
  BY ConstantsNat, FS_Interval DEF Cores
<1>2. IsFiniteSet(DecoderIds)
  BY DecoderAssumption
<1> QED BY <1>1, <1>2, FS_Product DEF Clients

-----------------------------------------------------------------------------
(* The request link and resets.                                            *)

\* A packet of which transmission has begun by a tick.
SentBy(p, tick) == [p EXCEPT !.transmitted = @ \/ p.sent <= tick]

\* Noticing that transmission has begun changes nothing else of a packet.
LEMMA SentByIs ==
  ASSUME NEW p \in Packet, NEW tick \in Nat
  PROVE  /\ SentBy(p, tick) \in Packet
         /\ SentBy(p, tick).id = p.id /\ SentBy(p, tick).core = p.core /\ SentBy(p, tick).decoder = p.decoder
         /\ SentBy(p, tick).arrival = p.arrival /\ SentBy(p, tick).sent = p.sent
         /\ SentBy(p, tick).bits = p.bits
         /\ Owner(SentBy(p, tick)) = Owner(p)
         /\ p.sent <= tick => SentBy(p, tick).transmitted
         /\ (p.sent <= tick => p.transmitted) => SentBy(p, tick) = p
  BY DEF SentBy, Packet, Owner

\* What a reset that has arrived leaves.
Keeps(t, tick, x) == ResetArrives(t, tick) => ~Cancelled(x, t.reset_request[1])
Clears(t, tick, c) == ResetArrives(t, tick) /\ Owner(t.reset_request[1]) = c

\* The fields that the request link and the decoders do not share.
Alike(t, u) ==
  /\ u.available = t.available /\ u.tx_available = t.tx_available /\ u.rx_available = t.rx_available
  /\ u.next = t.next /\ u.fault = t.fault

\* The transport after advance_transmission.
Transmitted(t, tick, u) ==
  /\ IsTransport(u) /\ Alike(t, u)
  /\ u.sessions = [c \in Clients |-> IF Clears(t, tick, c) THEN ClearSession ELSE t.sessions[c]]
  /\ Lists(u.requests, {SentBy(x, tick) : x \in {y \in Requests(t) : Keeps(t, tick, y)}})
  /\ Lists(u.jobs, {x \in Jobs(t) : Keeps(t, tick, x)})
  /\ u.reset_request \in Seq(Packet) /\ Len(u.reset_request) <= 1
  /\ Resets(u) = IF ResetArrives(t, tick) THEN {} ELSE {SentBy(x, tick) : x \in Resets(t)}

\* Nor the order of the packets.
LEMMA SentList ==
  ASSUME NEW s, NEW S, Lists(s, S), S \subseteq Packet, \A x, y \in S : x.id = y.id => x = y,
         NEW tick \in Nat
  PROVE  Lists([i \in 1..Len(s) |-> SentBy(s[i], tick)], {SentBy(x, tick) : x \in S})
<1> DEFINE f == [x \in S |-> SentBy(x, tick)]
<1>0. Len(s) \in Nat /\ \A i \in 1..Len(s) : s[i] \in S
  BY ListsSeq
<1>1. \A x, y \in S : f[x] = f[y] => x = y
  <2> SUFFICES ASSUME NEW x \in S, NEW y \in S, SentBy(x, tick) = SentBy(y, tick) PROVE x = y
    OBVIOUS
  <2>1. SentBy(x, tick).id = x.id /\ SentBy(y, tick).id = y.id
    BY SentByIs
  <2> QED BY <2>1
<1>2. [i \in 1..Len(s) |-> f[s[i]]] = [i \in 1..Len(s) |-> SentBy(s[i], tick)]
  BY <1>0
<1>3. {f[x] : x \in S} = {SentBy(x, tick) : x \in S}
  OBVIOUS
<1> HIDE DEF f
<1>4. Lists([i \in 1..Len(s) |-> f[s[i]]], {f[x] : x \in S})
  BY <1>1, ListsMap
<1> QED BY <1>2, <1>3, <1>4

\* The same for the queue of resets.
LEMMA SentResets ==
  ASSUME NEW s \in Seq(Packet), NEW tick \in Nat
  PROVE  /\ [i \in 1..Len(s) |-> SentBy(s[i], tick)] \in Seq(Packet)
         /\ Len([i \in 1..Len(s) |-> SentBy(s[i], tick)]) = Len(s)
         /\ {[k \in 1..Len(s) |-> SentBy(s[k], tick)][i] : i \in 1..Len(s)} =
              {SentBy(x, tick) : x \in {s[i] : i \in 1..Len(s)}}
<1> DEFINE r == [i \in 1..Len(s) |-> SentBy(s[i], tick)]
<1>1. \A i \in 1..Len(s) : r[i] = SentBy(s[i], tick) /\ SentBy(s[i], tick) \in Packet
  BY SentByIs
<1>2. Len(s) \in Nat
  OBVIOUS
<1>3. r \in Seq(Packet) /\ Len(r) = Len(s)
  <2>1. r \in [1..Len(s) -> Packet]
    BY <1>1
  <2> HIDE DEF r
  <2> QED BY <1>2, <2>1
<1> HIDE DEF r
<1>4. {r[i] : i \in 1..Len(s)} = {SentBy(x, tick) : x \in {s[i] : i \in 1..Len(s)}}
  BY <1>1
<1> QED BY <1>3, <1>4 DEF r

\* advance_transmission does that.
LEMMA TransmittedIs ==
  ASSUME NEW t, TransportInv(t), NEW tick \in Nat
  PROVE  Transmitted(t, tick, AdvanceTransmission(t, tick))
<1> DEFINE u == AdvanceTransmission(t, tick)
           r == [i \in 1..Len(t.requests) |-> SentBy(t.requests[i], tick)]
           q == [i \in 1..Len(t.reset_request) |-> SentBy(t.reset_request[i], tick)]
           p == t.reset_request[1]
           kept(s) == At(s, {i \in 1..Len(s) : ~Cancelled(s[i], p)})
           R == {SentBy(x, tick) : x \in Requests(t)}
<1> SUFFICES Transmitted(t, tick, u)
  OBVIOUS
<1>t. /\ IsTransport(t)
      /\ t.sessions = [c \in Clients |-> t.sessions[c]]
      /\ t.reset_request \in Seq(Packet) /\ Len(t.reset_request) <= 1
      /\ Lists(t.requests, Requests(t)) /\ Requests(t) \subseteq Packet /\ Lists(t.jobs, Jobs(t))
  BY DEF TransportInv, TypeInv
<1>1. Lists(r, R)
  <2>1. \A x, y \in Requests(t) : x.id = y.id => x = y
    BY DEF TransportInv, IdInv
  <2> HIDE DEF r, R
  <2> QED BY <1>t, <2>1, SentList DEF r, R
<1>2. /\ q \in Seq(Packet) /\ Len(q) = Len(t.reset_request)
      /\ {q[i] : i \in 1..Len(q)} = {SentBy(x, tick) : x \in Resets(t)}
  BY <1>t, SentResets DEF Resets
<1>a. Len(r) = Len(t.requests)
  <2>1. Len(t.requests) \in Nat
    BY <1>t, ListsSeq
  <2> QED BY <2>1
<1>3. CASE ~ResetArrives(t, tick)
  <2>1. /\ IsTransport(u) /\ Alike(t, u) /\ u.requests = r /\ u.reset_request = q
        /\ u.jobs = t.jobs /\ u.sessions = t.sessions
    <3>1. u = [t EXCEPT !.requests = r, !.reset_request = q]
      BY <1>3 DEF AdvanceTransmission, SentBy
    <3> HIDE DEF r, q, u
    <3> QED BY <1>t, <3>1 DEF IsTransport, Alike
  <2> HIDE DEF u, r, q
  <2>2. \A x : Keeps(t, tick, x) /\ \A c : ~Clears(t, tick, c)
    BY <1>3 DEF Keeps, Clears
  <2>3. R = {SentBy(x, tick) : x \in {y \in Requests(t) : Keeps(t, tick, y)}}
        /\ Jobs(t) = {x \in Jobs(t) : Keeps(t, tick, x)}
    BY <2>2
  <2>4. u.sessions = [c \in Clients |-> IF Clears(t, tick, c) THEN ClearSession ELSE t.sessions[c]]
    BY <1>t, <2>1, <2>2
  <2>5. Resets(u) = {SentBy(x, tick) : x \in Resets(t)}
    BY <1>2, <2>1 DEF Resets
  <2>7. Lists(u.requests, R) /\ Lists(u.jobs, Jobs(t)) /\ u.reset_request \in Seq(Packet) /\ Len(u.reset_request) <= 1
    BY <1>t, <1>1, <1>2, <2>1
  <2> HIDE DEF R
  <2> QED BY <1>3, <2>1, <2>3, <2>4, <2>5, <2>7 DEF Transmitted
<1>4. CASE ResetArrives(t, tick)
  <2>0. p \in Packet /\ Owner(p) \in Clients
    <3>1. p \in Packet
      BY <1>t, <1>4 DEF ResetArrives
    <3>2. p.core \in Cores /\ p.decoder \in DecoderIds
      BY <3>1 DEF Packet
    <3> QED BY <3>1, <3>2, ClientIs
  <2>1. /\ IsTransport(u) /\ Alike(t, u) /\ u.requests = kept(r) /\ u.reset_request = <<>>
        /\ u.jobs = kept(t.jobs) /\ u.sessions = [t.sessions EXCEPT ![Owner(p)] = ClearSession]
    <3> DEFINE v == [t EXCEPT !.requests = r, !.reset_request = q]
    <3>1. u = [v EXCEPT !.reset_request = <<>>, !.requests = kept(@), !.jobs = kept(@),
                        !.sessions[Owner(p)] = ClearSession]
      BY <1>4 DEF AdvanceTransmission, SentBy
    <3> HIDE DEF r, q, u
    <3>2. /\ IsTransport(v) /\ Alike(t, v) /\ v.requests = r /\ v.jobs = t.jobs /\ v.sessions = t.sessions
      BY <1>t DEF IsTransport, Alike
    <3> HIDE DEF v, kept, p
    <3>3. u = [v EXCEPT !.reset_request = <<>>, !.requests = kept(v.requests), !.jobs = kept(v.jobs),
                        !.sessions = [v.sessions EXCEPT ![Owner(p)] = ClearSession]]
      BY <3>1, <3>2 DEF IsTransport
    <3>4. /\ IsTransport(u) /\ Alike(v, u) /\ u.requests = kept(v.requests) /\ u.reset_request = <<>>
          /\ u.jobs = kept(v.jobs) /\ u.sessions = [v.sessions EXCEPT ![Owner(p)] = ClearSession]
      BY <3>2, <3>3 DEF IsTransport, Alike
    <3> QED BY <3>2, <3>4 DEF Alike
  <2>2. Lists(kept(r), {SentBy(x, tick) : x \in {y \in Requests(t) : Keeps(t, tick, y)}})
    <3> DEFINE Q == {x \in R : ~Cancelled(x, p)}
               P == {i \in 1..Len(r) : ~Cancelled(r[i], p)}
    <3>1. \A i \in 1..Len(r) : i \in P <=> r[i] \in Q
      <4>1. \A i \in 1..Len(r) : r[i] \in R
        BY <1>1, ListsSeq
      <4> HIDE DEF R, r
      <4> QED BY <4>1
    <3>2. Lists(At(r, P), {x \in R : x \in Q})
      <4> HIDE DEF Q, P, R, r
      <4> QED BY <1>1, <3>1, KeptList
    <3>3. {x \in R : x \in Q} = {SentBy(x, tick) : x \in {y \in Requests(t) : Keeps(t, tick, y)}}
      <4>1. \A y \in Requests(t) : Cancelled(SentBy(y, tick), p) <=> Cancelled(y, p)
        <5> SUFFICES ASSUME NEW y \in Requests(t) PROVE Cancelled(SentBy(y, tick), p) <=> Cancelled(y, p)
          OBVIOUS
        <5>1. Owner(SentBy(y, tick)) = Owner(y) /\ SentBy(y, tick).id = y.id
          BY <1>t, SentByIs
        <5> QED BY <5>1 DEF Cancelled
      <4>2. \A y : Keeps(t, tick, y) <=> ~Cancelled(y, p)
        BY <1>4 DEF Keeps
      <4> HIDE DEF p
      <4> QED BY <4>1, <4>2
    <3> QED BY <3>2, <3>3
  <2>3. Lists(kept(t.jobs), {x \in Jobs(t) : Keeps(t, tick, x)})
    <3> DEFINE Q == {x \in Jobs(t) : Keeps(t, tick, x)}
               P == {i \in 1..Len(t.jobs) : ~Cancelled(t.jobs[i], p)}
    <3>1. \A i \in 1..Len(t.jobs) : i \in P <=> t.jobs[i] \in Q
      <4>1. \A i \in 1..Len(t.jobs) : t.jobs[i] \in Jobs(t)
        BY DEF Jobs
      <4> QED BY <1>4, <4>1 DEF Keeps
    <3>2. Lists(At(t.jobs, P), {x \in Jobs(t) : x \in Q})
      <4> HIDE DEF Q, P
      <4> QED BY <1>t, <3>1, KeptList
    <3>3. {x \in Jobs(t) : x \in Q} = Q
      OBVIOUS
    <3> QED BY <3>2, <3>3
  <2>4. u.sessions = [c \in Clients |-> IF Clears(t, tick, c) THEN ClearSession ELSE t.sessions[c]]
    <3>1. \A c : Clears(t, tick, c) <=> Owner(p) = c
      BY <1>4 DEF Clears
    <3> HIDE DEF p, u
    <3> QED BY <1>t, <2>0, <2>1, <3>1
  <2> HIDE DEF u, r, q, kept
  <2>5. u.reset_request = <<>> /\ Resets(u) = {}
    BY <2>1 DEF Resets
  <2>7. u.reset_request \in Seq(Packet) /\ Len(u.reset_request) <= 1
    BY <2>5
  <2> QED BY <1>4, <2>1, <2>2, <2>3, <2>4, <2>5, <2>7 DEF Transmitted
<1> QED BY <1>3, <1>4

\* The sessions that hold a result slot.
Slots(t) == {c \in Clients : t.sessions[c].result # <<>> \/ t.sessions[c].submitted}

\* Reserved counts the slots.
LEMMA SlotsFinite ==
  ASSUME NEW t
  PROVE  IsFiniteSet(Slots(t)) /\ Reserved(t) = Cardinality(Slots(t)) /\ Reserved(t) \in Nat
<1>1. IsFiniteSet(Slots(t))
  BY ClientsFinite, FS_Subset DEF Slots
<1>2. Reserved(t) = Cardinality(Slots(t))
  BY DEF Reserved, Slots
<1> QED BY <1>1, <1>2, FS_CardinalityType

\* Fewer sessions hold fewer slots.
LEMMA FewerSlots ==
  ASSUME NEW t, NEW u, Slots(u) \subseteq Slots(t)
  PROVE  Reserved(u) <= Reserved(t)
  BY SlotsFinite, FS_Subset

\* The fields of a packet.
LEMMA PacketFields ==
  ASSUME NEW p \in Packet
  PROVE  /\ p.id \in Nat /\ p.core \in Cores /\ p.decoder \in DecoderIds /\ p.bits \in Seq({0, 1})
         /\ p.sent \in Nat /\ p.arrival \in Nat /\ p.transmitted \in BOOLEAN /\ Owner(p) \in Clients
  BY ClientIs DEF Packet

\* A list of at most one element.
LEMMA OneElement ==
  ASSUME NEW a \in Seq(Nat), Len(a) <= 1, a # <<>>
  PROVE  a[1] \in Nat /\ a = <<a[1]>>
<1>1. Len(a) = 1
  <2>1. IsSeq(a)
    BY DEF IsSeq
  <2>2. Len(a) \in Nat /\ Len(a) # 0
    BY <2>1, IsSeqLen
  <2>3. \A n \in Nat : n # 0 /\ n <= 1 => n = 1
    OBVIOUS
  <2> QED BY <2>2, <2>3, Zenon
<1>2. a[1] \in Nat
  BY <1>1, ElementOfSeq
<1>3. PICK n : n = a[1]
  OBVIOUS
<1>4. <<n>> \in Seq(Nat) /\ Len(<<n>>) = 1 /\ <<n>>[1] = n
  BY <1>2, <1>3
<1>5. \A i \in 1..Len(a) : a[i] = <<n>>[i]
  BY <1>1, <1>3, <1>4
<1>6. a = <<n>>
  BY <1>1, <1>4, <1>5, SeqEqual
<1> QED BY <1>2, <1>3, <1>6

\* The fields of a job.
LEMMA JobFields ==
  ASSUME NEW j, IsJob(j)
  PROVE  /\ j.id \in Nat /\ j.core \in Cores /\ j.decoder \in DecoderIds /\ j.start \in Nat /\ j.completion \in Nat
         /\ j.arrival \in Seq(Nat) /\ Len(j.arrival) <= 1 /\ j.started \in BOOLEAN /\ j.completed \in BOOLEAN
         /\ Owner(j) \in Clients
         /\ j.arrival # <<>> => j.arrival[1] \in Nat /\ j.arrival = <<j.arrival[1]>>
<1>1. /\ j.id \in Nat /\ j.core \in Cores /\ j.decoder \in DecoderIds /\ j.start \in Nat /\ j.completion \in Nat
      /\ j.arrival \in Seq(Nat) /\ Len(j.arrival) <= 1 /\ j.started \in BOOLEAN /\ j.completed \in BOOLEAN
  BY DEF IsJob
<1>2. j.arrival # <<>> => j.arrival[1] \in Nat /\ j.arrival = <<j.arrival[1]>>
  BY <1>1, OneElement
<1>3. Owner(j) \in Clients
  BY <1>1, ClientIs
<1> QED BY <1>1, <1>2, <1>3

\* The fields of a cleared session.
LEMMA ClearIs ==
  /\ IsSession(ClearSession) /\ ClearSession.result = <<>> /\ ~ClearSession.submitted
  /\ ClearSession.measurements = <<>>
  BY DEF ClearSession, IsSession

\* advance_transmission keeps the invariant of the transport and leaves nothing
\* due on the request link.
LEMMA TransmissionStep ==
  ASSUME NEW t, TransportInv(t), NEW tick \in Nat, NEW u, Transmitted(t, tick, u)
  PROVE  TransportInv(u) /\ SentUpTo(u, tick) /\ u.fault = t.fault
<1> DEFINE R == {y \in Requests(t) : Keeps(t, tick, y)}
           J == {x \in Jobs(t) : Keeps(t, tick, x)}
           p == t.reset_request[1]
<1>1. /\ Requests(u) = {SentBy(x, tick) : x \in R} /\ Lists(u.requests, Requests(u))
      /\ Jobs(u) = J /\ Lists(u.jobs, Jobs(u))
  <2>1. Lists(u.requests, {SentBy(x, tick) : x \in R}) /\ Lists(u.jobs, J)
    BY DEF Transmitted
  <2> HIDE DEF R, J
  <2>2. Requests(u) = {SentBy(x, tick) : x \in R}
    BY <2>1, ListsRange DEF Requests
  <2>3. Jobs(u) = J
    BY <2>1, ListsRange DEF Jobs
  <2> QED BY <2>1, <2>2, <2>3
<1>2. /\ Requests(t) \subseteq Packet /\ Resets(t) \subseteq Packet /\ \A j \in Jobs(t) : IsJob(j)
      /\ t.tx_available \in Nat /\ t.next \in Nat
  BY DEF TransportInv, TypeInv, Resets
<1>3. \A x \in R : /\ SentBy(x, tick) \in Packet /\ SentBy(x, tick).id = x.id
                   /\ SentBy(x, tick).arrival = x.arrival /\ Owner(SentBy(x, tick)) = Owner(x)
                   /\ SentBy(x, tick).sent = x.sent /\ (x.sent <= tick => SentBy(x, tick).transmitted)
  BY <1>2, SentByIs
<1>4. \A x \in Resets(t) :
           /\ SentBy(x, tick) \in Packet /\ SentBy(x, tick).id = x.id
           /\ SentBy(x, tick).arrival = x.arrival /\ Owner(SentBy(x, tick)) = Owner(x)
           /\ SentBy(x, tick).sent = x.sent /\ (x.sent <= tick => SentBy(x, tick).transmitted)
  BY <1>2, SentByIs
<1>5. \A x \in Requests(u) : /\ x \in Packet
                             /\ \E y \in R : /\ x = SentBy(y, tick) /\ x.id = y.id /\ x.arrival = y.arrival
                                             /\ Owner(x) = Owner(y) /\ x.sent = y.sent
                                             /\ (x.sent <= tick => x.transmitted)
  BY <1>1, <1>3
<1>6. \A x \in Resets(u) : /\ ~ResetArrives(t, tick) /\ x \in Packet
                           /\ \E y \in Resets(t) : /\ x.id = y.id /\ x.arrival = y.arrival
                                                   /\ Owner(x) = Owner(y) /\ x.sent = y.sent
                                                   /\ (x.sent <= tick => x.transmitted)
  BY <1>4 DEF Transmitted
<1>7. /\ IsTransport(u) /\ u.available = t.available /\ u.tx_available = t.tx_available
      /\ u.rx_available = t.rx_available /\ u.next = t.next /\ u.fault = t.fault
      /\ u.reset_request \in Seq(Packet) /\ Len(u.reset_request) <= 1
      /\ u.sessions = [c \in Clients |-> IF Clears(t, tick, c) THEN ClearSession ELSE t.sessions[c]]
  BY DEF Transmitted, Alike
<1>8. ResetArrives(t, tick) => p \in Resets(t) /\ p \in Packet /\ \A q \in Resets(t) : q = p
  <2>1. t.reset_request \in Seq(Packet) /\ Len(t.reset_request) <= 1
    BY DEF TransportInv, TypeInv
  <2> QED BY <2>1 DEF ResetArrives, Resets
<1>9. \A j \in J : j \in Jobs(t) /\ Keeps(t, tick, j)
  OBVIOUS
<1>a. \A y \in R : y \in Requests(t)
  OBVIOUS
<1> HIDE DEF R, J, p
<1>10. TypeInv(u)
  <2>1. \A c \in Clients : IsSession(u.sessions[c])
    BY <1>7, ClearIs DEF TransportInv, TypeInv
  <2>2. u.sessions = [c \in Clients |-> u.sessions[c]]
    BY <1>7
  <2>3. \A j \in Jobs(u) : IsJob(j)
    BY <1>1, <1>2, <1>9
  <2>4. Requests(u) \subseteq Packet
    BY <1>5
  <2>5. t.available \in [DecoderIds -> Nat] /\ t.tx_available \in Nat /\ t.rx_available \in Nat /\ t.next \in Nat
    BY DEF TransportInv, TypeInv
  <2> QED BY <1>1, <1>7, <2>1, <2>2, <2>3, <2>4, <2>5 DEF TypeInv
<1>11. IdInv(u)
  <2>1. \A x \in Packets(t) \cup Jobs(t) : x.id < t.next
    BY DEF TransportInv, IdInv
  <2>2. /\ \A x, y \in Requests(t) : x.id = y.id => x = y
        /\ \A x, y \in Jobs(t) : x.id = y.id => x = y
        /\ \A x \in Requests(t), j \in Jobs(t) : x.id # j.id
    BY DEF TransportInv, IdInv
  <2>3. \A x \in Packets(u) \cup Jobs(u) : x.id < u.next
    BY <1>1, <1>5, <1>6, <1>7, <1>9, <1>a, <2>1 DEF Packets
  <2>4. \A x, y \in Requests(u) : x.id = y.id => x = y
    BY <1>5, <1>a, <2>2
  <2>5. \A x, y \in Jobs(u) : x.id = y.id => x = y
    BY <1>1, <1>9, <2>2
  <2>6. \A x \in Requests(u), j \in Jobs(u) : x.id # j.id
    BY <1>1, <1>5, <1>9, <1>a, <2>2
  <2> QED BY <2>3, <2>4, <2>5, <2>6 DEF IdInv
<1>12. LinkInv(u)
  <2>1. /\ \A q \in Packets(t) : q.arrival <= t.tx_available + LinkLatency
        /\ \A x \in Requests(t), q \in Resets(t) :
             \/ x.id < q.id /\ x.arrival < q.arrival
             \/ q.id < x.id /\ q.arrival < x.arrival
        /\ \A j \in Jobs(t), q \in Resets(t) : Owner(j) = Owner(q) => j.id < q.id
    BY DEF TransportInv, LinkInv
  <2>2. \A q \in Packets(u) : q.arrival <= u.tx_available + LinkLatency
    BY <1>5, <1>6, <1>7, <1>a, <2>1 DEF Packets
  <2>3. \A x \in Requests(u), q \in Resets(u) :
             \/ x.id < q.id /\ x.arrival < q.arrival
             \/ q.id < x.id /\ q.arrival < x.arrival
    BY <1>5, <1>6, <1>a, <2>1
  <2>4. \A j \in Jobs(u), q \in Resets(u) : Owner(j) = Owner(q) => j.id < q.id
    BY <1>1, <1>6, <1>9, <2>1
  <2> QED BY <2>2, <2>3, <2>4 DEF LinkInv
<1>13. SlotInv(u)
  <2>1. /\ Reserved(t) <= ResultCapacity
        /\ \A x, y \in Jobs(t) : Owner(x) = Owner(y) => x = y
        /\ \A c \in Clients : t.sessions[c].submitted <=> \E j \in Jobs(t) : Owner(j) = c
    BY DEF TransportInv, SlotInv
  <2>2. \A x, y \in Jobs(u) : Owner(x) = Owner(y) => x = y
    BY <1>1, <1>9, <2>1
  <2>3. ASSUME NEW c \in Clients PROVE u.sessions[c].submitted <=> \E j \in Jobs(u) : Owner(j) = c
    <3>1. CASE Clears(t, tick, c)
      <4>1. ~u.sessions[c].submitted
        BY <1>7, <3>1, ClearIs
      <4>2. ASSUME NEW j \in Jobs(u), Owner(j) = c PROVE FALSE
        <5>1. Owner(p) = c /\ ResetArrives(t, tick)
          BY <3>1 DEF Clears, p
        <5>2. j.id < p.id /\ ~Cancelled(j, p)
          BY <1>1, <1>8, <1>9, <4>2, <5>1 DEF Keeps, p, TransportInv, LinkInv
        <5> QED BY <4>2, <5>1, <5>2 DEF Cancelled
      <4> QED BY <4>1, <4>2
    <3>2. CASE ~Clears(t, tick, c)
      <4>1. u.sessions[c] = t.sessions[c]
        BY <1>7, <3>2
      <4>2. ASSUME NEW j \in Jobs(t), Owner(j) = c PROVE j \in Jobs(u)
        <5>1. Keeps(t, tick, j)
          BY <3>2, <4>2 DEF Keeps, Clears, Cancelled
        <5> QED BY <1>1, <5>1 DEF J
      <4> QED BY <1>1, <1>9, <2>1, <4>1, <4>2
    <3> QED BY <3>1, <3>2
  <2>4. Slots(u) \subseteq Slots(t)
    <3> SUFFICES ASSUME NEW c \in Clients, u.sessions[c].result # <<>> \/ u.sessions[c].submitted
                 PROVE  t.sessions[c].result # <<>> \/ t.sessions[c].submitted
      BY DEF Slots
    <3> QED BY <1>7, ClearIs
  <2>5. Reserved(u) <= ResultCapacity
    BY <2>1, <2>4, FewerSlots, SlotsFinite, ConstantsNat
  <2> QED BY <2>2, <2>3, <2>5 DEF SlotInv
<1>14. SentUpTo(u, tick)
  <2>1. \A q \in Packets(u) : q.sent <= tick => q.transmitted
    BY <1>5, <1>6 DEF Packets
  <2>2. ASSUME NEW q \in Resets(u) PROVE tick < q.arrival
    <3>1. PICK y \in Resets(t) : q.arrival = y.arrival
      BY <1>6
    <3>2. ~ResetArrives(t, tick)
      BY <1>6
    <3>3. t.reset_request \in Seq(Packet) /\ Len(t.reset_request) <= 1
      BY DEF TransportInv, TypeInv
    <3>4. PICK i \in 1..Len(t.reset_request) : y = t.reset_request[i]
      BY DEF Resets
    <3>5. i = 1 /\ t.reset_request # <<>> /\ y = t.reset_request[1] /\ y \in Packet
      BY <3>3, <3>4
    <3>6. ~(y.arrival <= tick) /\ y.arrival \in Nat
      BY <3>2, <3>5, PacketFields DEF ResetArrives
    <3> QED BY <3>1, <3>6
  <2> QED BY <2>1, <2>2 DEF SentUpTo
<1> QED BY <1>7, <1>10, <1>11, <1>12, <1>13, <1>14 DEF TransportInv

-----------------------------------------------------------------------------
(* Jobs and their results.                                                 *)

\* A job whose start and completion up to a tick have been noticed.
Progress(j, tick) == [j EXCEPT !.started = @ \/ j.start <= tick, !.completed = @ \/ j.completion <= tick]

\* Noticing its start and completion changes nothing else of a job.
LEMMA ProgressIs ==
  ASSUME NEW j, IsJob(j), NEW tick \in Nat
  PROVE  LET g == Progress(j, tick)
         IN  /\ IsJob(g) /\ g.id = j.id /\ g.core = j.core /\ g.decoder = j.decoder /\ Owner(g) = Owner(j)
             /\ g.arrival = j.arrival /\ g.start = j.start /\ g.completion = j.completion
             /\ (g.start <= tick => g.started) /\ (g.completion <= tick => g.completed)
             /\ (j.start <= tick => j.started) /\ (j.completion <= tick => j.completed) => g = j
             /\ Returned(g, tick) <=> Returned(j, tick)
<1> DEFINE g == Progress(j, tick)
<1>1. /\ g \in [id : Nat, core : Cores, decoder : DecoderIds, start : Nat, completion : Nat, result : {j.result},
                arrival : Seq(Nat), started : BOOLEAN, completed : BOOLEAN]
      /\ g.id = j.id /\ g.core = j.core /\ g.decoder = j.decoder /\ g.arrival = j.arrival
      /\ g.start = j.start /\ g.completion = j.completion /\ g.result = j.result
      /\ (g.start <= tick => g.started) /\ (g.completion <= tick => g.completed)
  BY DEF IsJob, Progress
<1>2. (j.start <= tick => j.started) /\ (j.completion <= tick => j.completed) => g = j
  BY DEF IsJob, Progress
<1> HIDE DEF g
<1>3. IsJob(g) /\ Owner(g) = Owner(j) /\ (Returned(g, tick) <=> Returned(j, tick))
  BY <1>1 DEF IsJob, Owner, Returned
<1> QED BY <1>1, <1>2, <1>3 DEF g

\* Nor the order of the jobs.
LEMMA ProgressList ==
  ASSUME NEW s, NEW S, Lists(s, S), \A j \in S : IsJob(j), \A x, y \in S : x.id = y.id => x = y,
         NEW tick \in Nat
  PROVE  Lists([i \in 1..Len(s) |-> Progress(s[i], tick)], {Progress(x, tick) : x \in S})
<1> DEFINE f == [x \in S |-> Progress(x, tick)]
<1>0. Len(s) \in Nat /\ \A i \in 1..Len(s) : s[i] \in S
  BY ListsSeq
<1>1. \A x, y \in S : f[x] = f[y] => x = y
  <2> SUFFICES ASSUME NEW x \in S, NEW y \in S, Progress(x, tick) = Progress(y, tick) PROVE x = y
    OBVIOUS
  <2>1. Progress(x, tick).id = x.id /\ Progress(y, tick).id = y.id
    BY ProgressIs
  <2> QED BY <2>1
<1>2. [i \in 1..Len(s) |-> f[s[i]]] = [i \in 1..Len(s) |-> Progress(s[i], tick)]
  BY <1>0
<1>3. {f[x] : x \in S} = {Progress(x, tick) : x \in S}
  OBVIOUS
<1> HIDE DEF f
<1>4. Lists([i \in 1..Len(s) |-> f[s[i]]], {f[x] : x \in S})
  BY <1>1, ListsMap
<1> QED BY <1>2, <1>3, <1>4

\* The session c has a result among the jobs that return at a tick.
Answered(t, tick, c) == \E j \in Jobs(t) : Returned(j, tick) /\ Owner(j) = c

\* The transport after advance_jobs.
Worked(t, tick, u) ==
  /\ IsTransport(u) /\ Alike(t, u) /\ u.requests = t.requests /\ u.reset_request = t.reset_request
  /\ Lists(u.jobs, {Progress(x, tick) : x \in {y \in Jobs(t) : ~Returned(y, tick)}})
  /\ u.sessions = [c \in Clients |-> u.sessions[c]]
  /\ \A c \in Clients :
       IF Answered(t, tick, c)
         THEN /\ IsSession(u.sessions[c]) /\ u.sessions[c].measurements = t.sessions[c].measurements
              /\ ~u.sessions[c].submitted /\ u.sessions[c].result # <<>>
         ELSE u.sessions[c] = t.sessions[c]

\* A result that arrives closes the submission.
LEMMA SessionAfterIs ==
  ASSUME NEW s, IsSession(s), NEW r, r # <<>>
  PROVE  /\ IsSession(SessionAfter(s, r)) /\ SessionAfter(s, r).measurements = s.measurements
         /\ ~SessionAfter(s, r).submitted /\ SessionAfter(s, r).result # <<>>
<1>1. PICK x : x = Added(IF s.result = <<>> THEN {} ELSE s.result[1], r)
  OBVIOUS
<1>2. SessionAfter(s, r) = [s EXCEPT !.submitted = FALSE, !.result = <<x>>]
  BY <1>1 DEF SessionAfter, IsSession
<1>3. <<x>> # <<>>
  OBVIOUS
<1> QED BY <1>2, <1>3 DEF IsSession

\* The jobs that return to client c at a tick.
ResultsOf(t, tick, c) ==
  LET g == [i \in 1..Len(t.jobs) |-> Progress(t.jobs[i], tick)]
  IN  At(g, {i \in 1..Len(g) : Returned(g[i], tick) /\ Owner(g[i]) = c})

\* They are listed, each once.
LEMMA ResultsAre ==
  ASSUME NEW t, TransportInv(t), NEW tick \in Nat, NEW c \in Clients
  PROVE  Lists(ResultsOf(t, tick, c), {Progress(x, tick) : x \in {y \in Jobs(t) : Returned(y, tick) /\ Owner(y) = c}})
<1> DEFINE g == [i \in 1..Len(t.jobs) |-> Progress(t.jobs[i], tick)]
           G == {Progress(x, tick) : x \in Jobs(t)}
           Q == {x \in G : Returned(x, tick) /\ Owner(x) = c}
           P == {i \in 1..Len(g) : Returned(g[i], tick) /\ Owner(g[i]) = c}
<1>t. Lists(t.jobs, Jobs(t)) /\ \A j \in Jobs(t) : IsJob(j)
  BY DEF TransportInv, TypeInv
<1>1. Lists(g, G)
  <2>1. \A x, y \in Jobs(t) : x.id = y.id => x = y
    BY DEF TransportInv, IdInv
  <2> HIDE DEF g, G
  <2> QED BY <1>t, <2>1, ProgressList DEF g, G
<1>2. \A i \in 1..Len(g) : g[i] \in G
  BY <1>1, ListsSeq
<1>3. \A x \in Jobs(t) : /\ Returned(Progress(x, tick), tick) <=> Returned(x, tick)
                         /\ Owner(Progress(x, tick)) = Owner(x)
  BY <1>t, ProgressIs
<1>4. \A i \in 1..Len(g) : i \in P <=> g[i] \in Q
  <2> HIDE DEF g, G
  <2> QED BY <1>2
<1>5. {x \in G : x \in Q} = {Progress(x, tick) : x \in {y \in Jobs(t) : Returned(y, tick) /\ Owner(y) = c}}
  BY <1>3
<1>6. ResultsOf(t, tick, c) = At(g, P)
  BY DEF ResultsOf
<1> HIDE DEF Q, P, g, G
<1>7. Lists(At(g, P), {x \in G : x \in Q})
  BY <1>1, <1>4, KeptList
<1> QED BY <1>5, <1>6, <1>7

\* advance_jobs does that.
LEMMA WorkedIs ==
  ASSUME NEW t, TransportInv(t), NEW tick \in Nat
  PROVE  Worked(t, tick, AdvanceJobs(t, tick))
<1> DEFINE u == AdvanceJobs(t, tick)
           g == [i \in 1..Len(t.jobs) |-> Progress(t.jobs[i], tick)]
           G == {Progress(x, tick) : x \in Jobs(t)}
           out(c) == At(g, {i \in 1..Len(g) : Returned(g[i], tick) /\ Owner(g[i]) = c})
           left == At(g, {i \in 1..Len(g) : ~Returned(g[i], tick)})
           sessions == [c \in Clients |-> SessionAfter(t.sessions[c], out(c))]
<1> SUFFICES Worked(t, tick, u)
  OBVIOUS
<1>t. /\ IsTransport(t) /\ t.sessions = [c \in Clients |-> t.sessions[c]]
      /\ \A c \in Clients : IsSession(t.sessions[c])
      /\ Lists(t.jobs, Jobs(t)) /\ \A j \in Jobs(t) : IsJob(j)
  BY DEF TransportInv, TypeInv
<1>1. Lists(g, G)
  <2>1. \A x, y \in Jobs(t) : x.id = y.id => x = y
    BY DEF TransportInv, IdInv
  <2> HIDE DEF g, G
  <2> QED BY <1>t, <2>1, ProgressList DEF g, G
<1>2. /\ IsTransport(u) /\ Alike(t, u) /\ u.requests = t.requests /\ u.reset_request = t.reset_request
      /\ u.jobs = left /\ u.sessions = sessions
  <2>1. u = [t EXCEPT !.jobs = left, !.sessions = sessions]
    BY <1>t DEF AdvanceJobs, Progress, IsTransport
  <2> HIDE DEF left, sessions, u
  <2> QED BY <1>t, <2>1 DEF IsTransport, Alike
<1>3. \A x \in Jobs(t) : /\ Returned(Progress(x, tick), tick) <=> Returned(x, tick)
                         /\ Owner(Progress(x, tick)) = Owner(x)
  BY <1>t, ProgressIs
<1>4. \A i \in 1..Len(g) : g[i] \in G
  BY <1>1, ListsSeq
<1>5. Lists(left, {Progress(x, tick) : x \in {y \in Jobs(t) : ~Returned(y, tick)}})
  <2> DEFINE Q == {x \in G : ~Returned(x, tick)}
             P == {i \in 1..Len(g) : ~Returned(g[i], tick)}
  <2>1. \A i \in 1..Len(g) : i \in P <=> g[i] \in Q
    <3> HIDE DEF g, G
    <3> QED BY <1>4
  <2>2. Lists(At(g, P), {x \in G : x \in Q})
    <3> HIDE DEF Q, P, g, G
    <3> QED BY <1>1, <2>1, KeptList
  <2>3. {x \in G : x \in Q} = {Progress(x, tick) : x \in {y \in Jobs(t) : ~Returned(y, tick)}}
    BY <1>3
  <2> QED BY <2>2, <2>3
<1>6. ASSUME NEW c \in Clients PROVE out(c) = <<>> <=> ~Answered(t, tick, c)
  <2> DEFINE A == {Progress(x, tick) : x \in {y \in Jobs(t) : Returned(y, tick) /\ Owner(y) = c}}
  <2>1. Lists(out(c), A)
    BY ResultsAre DEF ResultsOf
  <2>2. A = {} <=> ~Answered(t, tick, c)
    BY DEF Answered
  <2> HIDE DEF A, out
  <2>3. A = {} => out(c) = <<>>
    BY <2>1, ListsNone
  <2>4. out(c) = <<>> => A = {}
    BY <2>1, ListsNothing
  <2> QED BY <2>2, <2>3, <2>4
<1> HIDE DEF out
<1>7. ASSUME NEW c \in Clients
      PROVE  IF Answered(t, tick, c)
               THEN /\ IsSession(u.sessions[c]) /\ u.sessions[c].measurements = t.sessions[c].measurements
                    /\ ~u.sessions[c].submitted /\ u.sessions[c].result # <<>>
               ELSE u.sessions[c] = t.sessions[c]
  <2> HIDE DEF u
  <2>1. u.sessions[c] = SessionAfter(t.sessions[c], out(c))
    BY <1>2
  <2>2. CASE Answered(t, tick, c)
    BY <1>t, <1>6, <2>1, <2>2, SessionAfterIs
  <2>3. CASE ~Answered(t, tick, c)
    <3>1. out(c) = <<>>
      BY <1>6, <2>3
    <3> QED BY <2>1, <2>3, <3>1 DEF SessionAfter
  <2> QED BY <2>2, <2>3
<1>8. u.sessions = [c \in Clients |-> u.sessions[c]]
  <2> HIDE DEF u
  <2> QED BY <1>2
<1> HIDE DEF u, left, sessions
<1> QED BY <1>2, <1>5, <1>7, <1>8 DEF Worked

\* advance_jobs keeps the invariant of the transport and leaves nothing due at
\* the decoders.
LEMMA JobsStep ==
  ASSUME NEW t, TransportInv(t), NEW tick \in Nat, SentUpTo(t, tick), NEW u, Worked(t, tick, u)
  PROVE  TransportInv(u) /\ SentUpTo(u, tick) /\ JobsUpTo(u, tick) /\ u.fault = t.fault
<1> DEFINE J == {y \in Jobs(t) : ~Returned(y, tick)}
<1>1. /\ IsTransport(u) /\ u.requests = t.requests /\ u.reset_request = t.reset_request
      /\ u.available = t.available /\ u.tx_available = t.tx_available /\ u.rx_available = t.rx_available
      /\ u.next = t.next /\ u.fault = t.fault
      /\ Requests(u) = Requests(t) /\ Resets(u) = Resets(t) /\ Packets(u) = Packets(t)
  BY DEF Worked, Alike, Requests, Resets, Packets
<1>2. Jobs(u) = {Progress(x, tick) : x \in J} /\ Lists(u.jobs, Jobs(u))
  <2>1. Lists(u.jobs, {Progress(x, tick) : x \in J})
    BY DEF Worked
  <2> HIDE DEF J
  <2> QED BY <2>1, ListsRange DEF Jobs
<1>3. \A j \in Jobs(t) : IsJob(j)
  BY DEF TransportInv, TypeInv
<1>4. \A x \in Jobs(u) : \E y \in Jobs(t) :
        /\ x = Progress(y, tick) /\ ~Returned(y, tick) /\ IsJob(x) /\ x.id = y.id /\ Owner(x) = Owner(y)
        /\ x.arrival = y.arrival /\ (x.start <= tick => x.started) /\ (x.completion <= tick => x.completed)
  BY <1>2, <1>3, ProgressIs
<1>5. \A c \in Clients :
       IF Answered(t, tick, c)
         THEN /\ IsSession(u.sessions[c]) /\ u.sessions[c].measurements = t.sessions[c].measurements
              /\ ~u.sessions[c].submitted /\ u.sessions[c].result # <<>>
         ELSE u.sessions[c] = t.sessions[c]
  BY DEF Worked
<1> HIDE DEF J
<1>6. TypeInv(u)
  <2>1. \A c \in Clients : IsSession(u.sessions[c])
    BY <1>5 DEF TransportInv, TypeInv
  <2>2. u.sessions = [c \in Clients |-> u.sessions[c]]
    BY DEF Worked
  <2>3. \A j \in Jobs(u) : IsJob(j)
    BY <1>4
  <2> QED BY <1>1, <1>2, <2>1, <2>2, <2>3 DEF TransportInv, TypeInv
<1>7. IdInv(u)
  <2>1. /\ \A x \in Packets(t) \cup Jobs(t) : x.id < t.next
        /\ \A x, y \in Requests(t) : x.id = y.id => x = y
        /\ \A x, y \in Jobs(t) : x.id = y.id => x = y
        /\ \A x \in Requests(t), j \in Jobs(t) : x.id # j.id
    BY DEF TransportInv, IdInv
  <2>2. \A x \in Packets(u) \cup Jobs(u) : x.id < u.next
    BY <1>1, <1>4, <2>1
  <2>3. \A x, y \in Jobs(u) : x.id = y.id => x = y
    BY <1>4, <2>1
  <2>4. \A x \in Requests(u), j \in Jobs(u) : x.id # j.id
    BY <1>1, <1>4, <2>1
  <2> QED BY <1>1, <2>1, <2>2, <2>3, <2>4 DEF IdInv
<1>8. LinkInv(u)
  <2>1. /\ \A p \in Packets(t) : p.arrival <= t.tx_available + LinkLatency
        /\ \A x \in Requests(t), p \in Resets(t) :
             \/ x.id < p.id /\ x.arrival < p.arrival
             \/ p.id < x.id /\ p.arrival < x.arrival
        /\ \A j \in Jobs(t), p \in Resets(t) : Owner(j) = Owner(p) => j.id < p.id
    BY DEF TransportInv, LinkInv
  <2>2. \A j \in Jobs(u), p \in Resets(u) : Owner(j) = Owner(p) => j.id < p.id
    BY <1>1, <1>4, <2>1
  <2> QED BY <1>1, <2>1, <2>2 DEF LinkInv
<1>9. SlotInv(u)
  <2>1. /\ Reserved(t) <= ResultCapacity
        /\ \A x, y \in Jobs(t) : Owner(x) = Owner(y) => x = y
        /\ \A c \in Clients : t.sessions[c].submitted <=> \E j \in Jobs(t) : Owner(j) = c
    BY DEF TransportInv, SlotInv
  <2>2. \A x, y \in Jobs(u) : Owner(x) = Owner(y) => x = y
    BY <1>4, <2>1
  <2>3. ASSUME NEW c \in Clients PROVE u.sessions[c].submitted <=> \E j \in Jobs(u) : Owner(j) = c
    <3>1. CASE Answered(t, tick, c)
      <4>1. PICK j \in Jobs(t) : Returned(j, tick) /\ Owner(j) = c
        BY <3>1 DEF Answered
      <4>2. ASSUME NEW x \in Jobs(u), Owner(x) = c PROVE FALSE
        BY <1>4, <2>1, <4>1, <4>2
      <4> QED BY <1>5, <3>1, <4>2
    <3>2. CASE ~Answered(t, tick, c)
      <4>1. u.sessions[c] = t.sessions[c]
        BY <1>5, <3>2
      <4>2. ASSUME NEW j \in Jobs(t), Owner(j) = c PROVE \E x \in Jobs(u) : Owner(x) = c
        <5>1. j \in J
          BY <3>2, <4>2 DEF Answered, J
        <5>2. Progress(j, tick) \in Jobs(u) /\ Owner(Progress(j, tick)) = c
          BY <1>2, <1>3, <4>2, <5>1, ProgressIs
        <5> QED BY <5>2
      <4>3. ASSUME NEW x \in Jobs(u), Owner(x) = c PROVE \E j \in Jobs(t) : Owner(j) = c
        BY <1>4, <4>3
      <4> QED BY <2>1, <4>1, <4>2, <4>3
    <3> QED BY <3>1, <3>2
  <2>4. Slots(u) \subseteq Slots(t)
    <3> SUFFICES ASSUME NEW c \in Clients, u.sessions[c].result # <<>> \/ u.sessions[c].submitted
                 PROVE  t.sessions[c].result # <<>> \/ t.sessions[c].submitted
      BY DEF Slots
    <3> QED BY <1>5, <2>1 DEF Answered
  <2>5. Reserved(u) <= ResultCapacity
    BY <2>1, <2>4, FewerSlots, SlotsFinite, ConstantsNat
  <2> QED BY <2>2, <2>3, <2>5 DEF SlotInv
<1>10. SentUpTo(u, tick)
  BY <1>1 DEF SentUpTo
<1>11. JobsUpTo(u, tick)
  <2> SUFFICES ASSUME NEW j \in Jobs(u), j.arrival # <<>> PROVE tick < j.arrival[1]
    BY <1>4 DEF JobsUpTo
  <2>1. PICK y \in Jobs(t) : ~Returned(y, tick) /\ j.arrival = y.arrival
    BY <1>4
  <2>2. IsJob(y) /\ y.arrival[1] \in Nat
    BY <1>3, <2>1, JobFields
  <2> QED BY <2>1, <2>2 DEF Returned
<1> QED BY <1>1, <1>6, <1>7, <1>8, <1>9, <1>10, <1>11 DEF TransportInv

-----------------------------------------------------------------------------
(* Admission of requests.                                                  *)

\* The fields of a session.
LEMMA SessionFields ==
  ASSUME NEW s, IsSession(s)
  PROVE  /\ s.measurements \in Seq({0, 1}) /\ s.submitted \in BOOLEAN
BY DEF IsSession

\* One more session holds at most one slot more.
LEMMA MoreSlots ==
  ASSUME NEW t, NEW u, NEW c, Slots(u) \subseteq Slots(t) \cup {c}
  PROVE  Reserved(u) <= Reserved(t) + 1
<1>1. IsFiniteSet(Slots(t) \cup {c}) /\ Cardinality(Slots(t) \cup {c}) <= Cardinality(Slots(t)) + 1
  <2>1. IsFiniteSet(Slots(t)) /\ Cardinality(Slots(t)) \in Nat
    BY SlotsFinite, FS_CardinalityType
  <2> DEFINE T == Slots(t)
  <2> SUFFICES IsFiniteSet(T \cup {c}) /\ Cardinality(T \cup {c}) <= Cardinality(T) + 1
    OBVIOUS
  <2> HIDE DEF T
  <2>2. /\ IsFiniteSet(T \cup {c})
        /\ Cardinality(T \cup {c}) = Cardinality(T) \/ Cardinality(T \cup {c}) = Cardinality(T) + 1
    BY <2>1, FS_AddElement DEF T
  <2>3. Cardinality(T) \in Nat
    BY <2>1 DEF T
  <2> QED BY <2>2, <2>3
<1>2. Cardinality(Slots(u)) <= Cardinality(Slots(t) \cup {c})
  BY <1>1, FS_Subset
<1> QED BY <1>1, <1>2, SlotsFinite, FS_CardinalityType

\* What a turn of the loop may do with the request at its head.
FirstRequest(t) == t.requests[1]
WindowOf(t) == t.sessions[Owner(FirstRequest(t))].measurements \o FirstRequest(t).bits
StartOf(t, tick) == Later(tick + 1, t.available[FirstRequest(t).decoder])
JobOf(t, tick) ==
  [id |-> FirstRequest(t).id, core |-> FirstRequest(t).core, decoder |-> FirstRequest(t).decoder, start |-> StartOf(t, tick),
   completion |-> StartOf(t, tick) + DecoderConfig[FirstRequest(t).decoder].latency, result |-> Decode(WindowOf(t)),
   arrival |-> <<>>, started |-> FALSE, completed |-> FALSE]

\* The transport after the request at its head has been admitted.
Admitted(t, u, full, tick) ==
  /\ IsTransport(u)
  /\ u.requests = Tail(t.requests) /\ u.reset_request = t.reset_request
  /\ u.tx_available = t.tx_available /\ u.rx_available = t.rx_available /\ u.next = t.next /\ u.fault = t.fault
  /\ u.sessions = [c \in Clients |-> u.sessions[c]]
  /\ \A c \in Clients \ {Owner(FirstRequest(t))} : u.sessions[c] = t.sessions[c]
  /\ LET s == u.sessions[Owner(FirstRequest(t))]
     IN  /\ IsSession(s) /\ s.result = t.sessions[Owner(FirstRequest(t))].result /\ s.submitted = full
         /\ s.measurements = IF full THEN <<>> ELSE WindowOf(t)
  /\ full => /\ Len(WindowOf(t)) = DecoderConfig[FirstRequest(t).decoder].measurements
             /\ u.jobs = Append(t.jobs, JobOf(t, tick))
             /\ u.available \in [DecoderIds -> Nat]
  /\ ~full => u.jobs = t.jobs /\ u.available = t.available

\* A turn of admit_requests either finds an overflow or admits the request.
LEMMA AdmittedIs ==
  ASSUME NEW t, TransportInv(t), NEW tick \in Nat, Admissible(t, tick)
  PROVE  \/ AdmitOne(t, tick) = [t EXCEPT !.fault = "WindowOverflow"]
         \/ \E full \in BOOLEAN : Admitted(t, AdmitOne(t, tick), full, tick)
<1> DEFINE p == FirstRequest(t)
           c == Owner(p)
           s == t.sessions[c]
           window == WindowOf(t)
           config == DecoderConfig[p.decoder]
           start == StartOf(t, tick)
<1>t. /\ IsTransport(t)
      /\ t.sessions = [d \in Clients |-> t.sessions[d]] /\ \A d \in Clients : IsSession(t.sessions[d])
      /\ Lists(t.requests, Requests(t)) /\ Requests(t) \subseteq Packet
      /\ t.available \in [DecoderIds -> Nat]
  BY DEF TransportInv, TypeInv
<1>1. p \in Packet /\ p \in Requests(t)
  BY <1>t, ListsTail DEF Admissible, FirstRequest
<1>2. c \in Clients /\ p.decoder \in DecoderIds /\ p.bits \in Seq({0, 1})
  BY <1>1, PacketFields
<1>3. IsSession(s) /\ window \in Seq({0, 1}) /\ Len(window) \in Nat /\ Len(window) = Len(s.measurements) + Len(p.bits)
      /\ ~s.submitted
  <2>1. IsSession(s)
    BY <1>t, <1>2
  <2>2. s.measurements \in Seq({0, 1})
    BY <2>1, SessionFields
  <2>3. ~s.submitted
    BY DEF Admissible, FirstRequest
  <2>4. \A a, b \in Seq({0, 1}) : a \o b \in Seq({0, 1}) /\ Len(a \o b) = Len(a) + Len(b) /\ Len(a \o b) \in Nat
    OBVIOUS
  <2>5. window = s.measurements \o p.bits
    BY DEF WindowOf
  <2> HIDE DEF window, s, p
  <2> QED BY <1>2, <2>1, <2>2, <2>3, <2>4, <2>5
<1>4. config.measurements \in Nat \ {0} /\ config.initiation_interval \in Nat /\ start \in Nat
  BY <1>t, <1>2, ConstantsNat DEF StartOf, Later
<1>l. Len(window) \in Nat /\ config.measurements \in Nat
  BY <1>3, <1>4, Zenon
<1>5. AdmitOne(t, tick) =
        IF Len(window) > config.measurements THEN [t EXCEPT !.fault = "WindowOverflow"]
        ELSE IF Len(window) < config.measurements
          THEN [t EXCEPT !.requests = Tail(@), !.sessions[c].measurements = window]
        ELSE [t EXCEPT !.requests = Tail(@),
                       !.sessions[c].measurements = <<>>,
                       !.sessions[c].submitted = TRUE,
                       !.jobs = Append(@, JobOf(t, tick)),
                       !.available[p.decoder] = start + config.initiation_interval]
  BY DEF AdmitOne, FirstRequest, WindowOf, StartOf, JobOf
<1> HIDE DEF p, c, s, window, config, start
<1>6. CASE Len(window) > config.measurements
  BY <1>5, <1>6
<1>7. CASE Len(window) < config.measurements
  <2> DEFINE v == [s EXCEPT !.measurements = window]
             u == [t EXCEPT !.requests = Tail(@), !.sessions[c].measurements = window]
  <2>1. AdmitOne(t, tick) = u
    <3>1. ~(Len(window) > config.measurements)
      BY <1>l, <1>7
    <3> QED BY <1>5, <1>7, <3>1, Zenon
  <2>2. /\ IsTransport(u) /\ u.requests = Tail(t.requests) /\ u.reset_request = t.reset_request
        /\ u.tx_available = t.tx_available /\ u.rx_available = t.rx_available /\ u.next = t.next
        /\ u.fault = t.fault /\ u.jobs = t.jobs /\ u.available = t.available
        /\ u.sessions = [t.sessions EXCEPT ![c].measurements = window]
    BY <1>t DEF IsTransport
  <2>3. IsSession(v) /\ v.result = s.result /\ v.submitted = s.submitted /\ v.measurements = window
    BY <1>3 DEF IsSession
  <2> HIDE DEF v, u
  <2>4. u.sessions = [[d \in Clients |-> t.sessions[d]] EXCEPT ![c] = v]
    BY <1>t, <2>2 DEF v, s
  <2>5. u.sessions = [d \in Clients |-> u.sessions[d]] /\ u.sessions[c] = v
        /\ \A d \in Clients \ {c} : u.sessions[d] = t.sessions[d]
    BY <1>2, <2>4
  <2>6. Admitted(t, u, FALSE, tick)
    BY <1>3, <2>2, <2>3, <2>5 DEF Admitted, c, p, s, window
  <2> QED BY <2>1, <2>6
<1>8. CASE Len(window) = config.measurements
  <2> DEFINE v == [[s EXCEPT !.measurements = <<>>] EXCEPT !.submitted = TRUE]
             u == [t EXCEPT !.requests = Tail(@),
                       !.sessions[c].measurements = <<>>,
                       !.sessions[c].submitted = TRUE,
                       !.jobs = Append(@, JobOf(t, tick)),
                       !.available[p.decoder] = start + config.initiation_interval]
  <2>1. AdmitOne(t, tick) = u
    <3>1. ~(Len(window) > config.measurements) /\ ~(Len(window) < config.measurements)
      BY <1>l, <1>8
    <3> QED BY <1>5, <3>1, Zenon
  <2>2. /\ IsTransport(u) /\ u.requests = Tail(t.requests) /\ u.reset_request = t.reset_request
        /\ u.tx_available = t.tx_available /\ u.rx_available = t.rx_available /\ u.next = t.next
        /\ u.fault = t.fault /\ u.jobs = Append(t.jobs, JobOf(t, tick))
        /\ u.available = [t.available EXCEPT ![p.decoder] = start + config.initiation_interval]
        /\ u.sessions = [[t.sessions EXCEPT ![c].measurements = <<>>] EXCEPT ![c].submitted = TRUE]
    BY <1>t DEF IsTransport
  <2>3. IsSession(v) /\ v.result = s.result /\ v.submitted /\ v.measurements = <<>>
    <3>1. <<>> \in Seq({0, 1})
      OBVIOUS
    <3> QED BY <1>3, <3>1 DEF IsSession
  <2> HIDE DEF v, u
  <2>4. u.sessions = [[d \in Clients |-> t.sessions[d]] EXCEPT ![c] = v]
    BY <1>t, <1>2, <2>2 DEF v, s
  <2>5. u.sessions = [d \in Clients |-> u.sessions[d]] /\ u.sessions[c] = v
        /\ \A d \in Clients \ {c} : u.sessions[d] = t.sessions[d]
    BY <1>2, <2>4
  <2>6. u.available \in [DecoderIds -> Nat]
    <3>1. start + config.initiation_interval \in Nat
      BY <1>4
    <3> QED BY <1>t, <2>2, <3>1
  <2>7. v.submitted = TRUE
    BY <2>3 DEF IsSession
  <2>8. Admitted(t, u, TRUE, tick)
    BY <1>8, <2>2, <2>3, <2>5, <2>6, <2>7 DEF Admitted, c, p, s, window, config
  <2> QED BY <2>1, <2>8
<1>9. Len(window) > config.measurements \/ Len(window) < config.measurements \/ Len(window) = config.measurements
  BY <1>l
<1> QED BY <1>6, <1>7, <1>8, <1>9

\* The new job starts later.
LEMMA JobOfIs ==
  ASSUME NEW t, TransportInv(t), NEW tick \in Nat, Admissible(t, tick)
  PROVE  LET j == JobOf(t, tick)
         IN  /\ IsJob(j) /\ j.id = FirstRequest(t).id /\ Owner(j) = Owner(FirstRequest(t)) /\ tick < j.start /\ tick < j.completion
             /\ j.arrival = <<>>
<1> DEFINE p == FirstRequest(t)
           start == StartOf(t, tick)
           lat == DecoderConfig[p.decoder].latency
           r == Decode(WindowOf(t))
<1>1. p \in Packet /\ t.available \in [DecoderIds -> Nat]
  BY ListsTail DEF Admissible, FirstRequest, TransportInv, TypeInv
<1>2. p.id \in Nat /\ p.core \in Cores /\ p.decoder \in DecoderIds
  BY <1>1, PacketFields
<1>3. start \in Nat /\ tick < start
  BY <1>1, <1>2 DEF StartOf, Later
<1>4. lat \in Nat
  BY <1>2, ConstantsNat
<1>5. start + lat \in Nat /\ tick < start + lat
  BY <1>3, <1>4
<1>6. JobOf(t, tick) = [id |-> p.id, core |-> p.core, decoder |-> p.decoder, start |-> start,
         completion |-> start + lat, result |-> r, arrival |-> <<>>, started |-> FALSE, completed |-> FALSE]
  BY DEF JobOf
<1> HIDE DEF p, start, lat, r
<1>7. <<>> \in Seq(Nat) /\ Len(<<>>) <= 1
  OBVIOUS
<1>8. IsJob(JobOf(t, tick))
  BY <1>2, <1>3, <1>5, <1>6, <1>7 DEF IsJob
<1>9. Owner(JobOf(t, tick)) = Owner(p)
  BY <1>6 DEF Owner
<1> QED BY <1>3, <1>5, <1>6, <1>8, <1>9 DEF p

\* Admitting a request keeps the invariant: it overbooks no slot, and its job is
\* the only one of its session.
LEMMA AdmittedStep ==
  ASSUME NEW t, TransportInv(t), NEW tick \in Nat, Admissible(t, tick), SentUpTo(t, tick), JobsUpTo(t, tick),
         NEW u, NEW full \in BOOLEAN, Admitted(t, u, full, tick)
  PROVE  /\ TransportInv(u) /\ SentUpTo(u, tick) /\ JobsUpTo(u, tick)
         /\ Len(u.requests) = Len(t.requests) - 1
<1> DEFINE p == FirstRequest(t)
           c == Owner(p)
           job == JobOf(t, tick)
<1>1. /\ IsTransport(u) /\ u.requests = Tail(t.requests) /\ u.reset_request = t.reset_request
      /\ u.tx_available = t.tx_available /\ u.rx_available = t.rx_available /\ u.next = t.next
      /\ u.sessions = [d \in Clients |-> u.sessions[d]]
      /\ \A d \in Clients \ {c} : u.sessions[d] = t.sessions[d]
      /\ IsSession(u.sessions[c]) /\ u.sessions[c].result = t.sessions[c].result
      /\ u.sessions[c].submitted = full
      /\ full => /\ Len(WindowOf(t)) = DecoderConfig[p.decoder].measurements
                 /\ u.jobs = Append(t.jobs, job)
                 /\ u.available \in [DecoderIds -> Nat]
      /\ ~full => u.jobs = t.jobs /\ u.available = t.available
  BY DEF Admitted
<1>2. /\ p \in Requests(t) /\ Requests(u) = Requests(t) \ {p} /\ Lists(u.requests, Requests(u))
      /\ Len(u.requests) = Len(t.requests) - 1
  <2>1. Lists(t.requests, Requests(t)) /\ t.requests # <<>>
    BY DEF TransportInv, TypeInv, Admissible
  <2>2. /\ Lists(Tail(t.requests), Requests(t) \ {t.requests[1]}) /\ t.requests[1] \in Requests(t)
        /\ Len(Tail(t.requests)) = Len(t.requests) - 1
    BY <2>1, ListsTail
  <2>3. Lists(u.requests, Requests(t) \ {p}) /\ p \in Requests(t)
    BY <1>1, <2>2 DEF FirstRequest
  <2> HIDE DEF p
  <2>4. Requests(u) = Requests(t) \ {p}
    BY <2>3, ListsRange DEF Requests
  <2> QED BY <1>1, <2>2, <2>3, <2>4
<1>3. Resets(u) = Resets(t) /\ Packets(u) \subseteq Packets(t)
  BY <1>1, <1>2 DEF Resets, Packets
<1>p. p \in Packet /\ c \in Clients /\ p.arrival <= tick /\ p.arrival \in Nat /\ ~t.sessions[c].submitted
  <2>1. p \in Packet
    BY <1>2 DEF TransportInv, TypeInv
  <2>2. p.arrival <= tick /\ ~t.sessions[c].submitted
    BY DEF Admissible, FirstRequest
  <2> QED BY <2>1, <2>2, PacketFields
<1>j. /\ IsJob(job) /\ job.id = p.id /\ Owner(job) = c /\ tick < job.start /\ tick < job.completion
      /\ job.arrival = <<>>
  BY JobOfIs
<1>i. /\ \A x \in Packets(t) \cup Jobs(t) : x.id < t.next
      /\ \A x, y \in Requests(t) : x.id = y.id => x = y
      /\ \A x, y \in Jobs(t) : x.id = y.id => x = y
      /\ \A x \in Requests(t), j \in Jobs(t) : x.id # j.id
  BY DEF TransportInv, IdInv
<1>l. /\ \A q \in Packets(t) : q.arrival <= t.tx_available + LinkLatency
      /\ \A x \in Requests(t), q \in Resets(t) :
             \/ x.id < q.id /\ x.arrival < q.arrival
             \/ q.id < x.id /\ q.arrival < x.arrival
      /\ \A j \in Jobs(t), q \in Resets(t) : Owner(j) = Owner(q) => j.id < q.id
  BY DEF TransportInv, LinkInv
<1>s. /\ Reserved(t) <= ResultCapacity
      /\ \A x, y \in Jobs(t) : Owner(x) = Owner(y) => x = y
      /\ \A d \in Clients : t.sessions[d].submitted <=> \E j \in Jobs(t) : Owner(j) = d
  BY DEF TransportInv, SlotInv
<1>t. /\ Lists(t.jobs, Jobs(t)) /\ \A j \in Jobs(t) : IsJob(j)
      /\ \A d \in Clients : IsSession(t.sessions[d])
      /\ Requests(t) \subseteq Packet /\ Resets(t) \subseteq Packet
      /\ t.available \in [DecoderIds -> Nat]
  <2>1. t.reset_request \in Seq(Packet)
    BY DEF TransportInv, TypeInv
  <2>2. Resets(t) \subseteq Packet
    BY <2>1 DEF Resets
  <2> QED BY <2>2 DEF TransportInv, TypeInv
<1> HIDE DEF job, p, c
<1>4. /\ Lists(u.jobs, Jobs(u))
      /\ Jobs(u) = IF full THEN Jobs(t) \cup {job} ELSE Jobs(t)
      /\ job \notin Jobs(t)
  <2>1. job \notin Jobs(t)
    BY <1>2, <1>i, <1>j
  <2>2. CASE full
    <3>1. Lists(u.jobs, Jobs(t) \cup {job})
      <4>1. u.jobs = Append(t.jobs, job)
        BY <1>1, <2>2
      <4>2. Lists(Append(t.jobs, job), Jobs(t) \cup {job})
        BY <1>t, <2>1, ListsAppend
      <4> QED BY <4>1, <4>2
    <3> QED BY <2>1, <2>2, <3>1, ListsRange DEF Jobs
  <2>3. CASE ~full
    BY <1>1, <1>t, <2>1, <2>3, ZenonT(30) DEF Jobs
  <2> QED BY <2>2, <2>3
<1>5. TypeInv(u)
  <2>1. \A d \in Clients : IsSession(u.sessions[d])
    BY <1>1, <1>t
  <2>2. u.available \in [DecoderIds -> Nat]
    BY <1>1, <1>t
  <2>3. \A j \in Jobs(u) : IsJob(j)
    BY <1>4, <1>t, <1>j
  <2>4. Requests(u) \subseteq Packet
    BY <1>2, <1>t
  <2>5. /\ u.reset_request \in Seq(Packet) /\ Len(u.reset_request) <= 1
        /\ u.tx_available \in Nat /\ u.rx_available \in Nat /\ u.next \in Nat
    BY <1>1 DEF TransportInv, TypeInv
  <2> QED BY <1>1, <1>2, <1>4, <2>1, <2>2, <2>3, <2>4, <2>5 DEF TypeInv
<1>6. IdInv(u)
  <2>1. \A x \in Packets(u) \cup Jobs(u) : x.id < u.next
    <3>1. p \in Packets(t)
      BY <1>2 DEF Packets
    <3> QED BY <1>1, <1>3, <1>4, <1>i, <1>j, <3>1
  <2>2. \A x, y \in Jobs(u) : x.id = y.id => x = y
    BY <1>2, <1>4, <1>i, <1>j
  <2>3. \A x \in Requests(u), j \in Jobs(u) : x.id # j.id
    BY <1>2, <1>4, <1>i, <1>j
  <2>4. \A x, y \in Requests(u) : x.id = y.id => x = y
    BY <1>2, <1>i
  <2> QED BY <2>1, <2>2, <2>3, <2>4 DEF IdInv
<1>7. LinkInv(u)
  <2>1. ASSUME NEW q \in Resets(t) PROVE p.id < q.id
    <3>1. tick < q.arrival
      BY DEF SentUpTo
    <3>2. q.arrival \in Nat
      BY <1>t, PacketFields
    <3> QED BY <1>2, <1>l, <1>p, <3>1, <3>2
  <2>2. \A j \in Jobs(u), q \in Resets(u) : Owner(j) = Owner(q) => j.id < q.id
    BY <1>3, <1>4, <1>l, <1>j, <2>1
  <2> QED BY <1>1, <1>2, <1>3, <1>l, <2>2 DEF LinkInv
<1>8. SlotInv(u)
  <2>1. \A x \in Jobs(t) : Owner(x) # c
    BY <1>p, <1>s
  <2>2. \A x, y \in Jobs(u) : Owner(x) = Owner(y) => x = y
    BY <1>4, <1>s, <1>j, <2>1
  <2>3. ASSUME NEW d \in Clients PROVE u.sessions[d].submitted <=> \E j \in Jobs(u) : Owner(j) = d
    <3>1. CASE d = c
      BY <1>1, <1>4, <1>j, <2>1, <3>1
    <3>2. CASE d # c
      <4>1. u.sessions[d] = t.sessions[d]
        BY <1>1, <3>2
      <4> QED BY <1>4, <1>j, <1>s, <3>2, <4>1
    <3> QED BY <3>1, <3>2
  <2>4. Reserved(u) <= ResultCapacity
    <3>1. CASE ~full \/ t.sessions[c].result # <<>>
      <4>1. Slots(u) \subseteq Slots(t)
        <5> SUFFICES ASSUME NEW d \in Clients, u.sessions[d].result # <<>> \/ u.sessions[d].submitted
                     PROVE  t.sessions[d].result # <<>> \/ t.sessions[d].submitted
          BY DEF Slots
        <5> QED BY <1>1, <3>1
      <4> QED BY <1>s, <4>1, FewerSlots, SlotsFinite, ConstantsNat
    <3>2. CASE full /\ t.sessions[c].result = <<>>
      <4>1. Slots(u) \subseteq Slots(t) \cup {c}
        <5> SUFFICES ASSUME NEW d \in Clients, u.sessions[d].result # <<>> \/ u.sessions[d].submitted, d # c
                     PROVE  t.sessions[d].result # <<>> \/ t.sessions[d].submitted
          BY DEF Slots
        <5> QED BY <1>1
      <4>2. ~(Reserved(t) >= ResultCapacity)
        <5>1. Len(t.sessions[c].measurements) + Len(p.bits) = DecoderConfig[p.decoder].measurements
          <6>1. Len(WindowOf(t)) = Len(t.sessions[c].measurements) + Len(p.bits)
            <7>1. \A a, b \in Seq({0, 1}) : Len(a \o b) = Len(a) + Len(b)
              OBVIOUS
            <7>2. t.sessions[c].measurements \in Seq({0, 1}) /\ p.bits \in Seq({0, 1})
              BY <1>p, <1>t, SessionFields, PacketFields
            <7> QED BY <7>1, <7>2, Zenon DEF WindowOf, c, p
          <6> QED BY <1>1, <3>2, <6>1
        <5> QED BY <3>2, <5>1, Zenon DEF Admissible, p, c, FirstRequest
      <4>3. Reserved(u) <= Reserved(t) + 1
        BY <4>1, MoreSlots
      <4> QED BY <4>2, <4>3, SlotsFinite, ConstantsNat
    <3> QED BY <3>1, <3>2
  <2> QED BY <2>2, <2>3, <2>4 DEF SlotInv
<1>9. SentUpTo(u, tick)
  BY <1>3 DEF SentUpTo
<1>10. JobsUpTo(u, tick)
  <2>1. ~(job.start <= tick) /\ ~(job.completion <= tick)
    <3>1. job.start \in Nat /\ job.completion \in Nat
      BY <1>j, JobFields
    <3> QED BY <1>j, <3>1
  <2> QED BY <1>4, <1>j, <2>1 DEF JobsUpTo
<1> QED BY <1>2, <1>5, <1>6, <1>7, <1>8, <1>9, <1>10 DEF TransportInv

\* So does an overflow, which ends the simulation.
LEMMA OverflowStep ==
  ASSUME NEW t, TransportInv(t), NEW tick \in Nat, SentUpTo(t, tick), JobsUpTo(t, tick)
  PROVE  LET u == [t EXCEPT !.fault = "WindowOverflow"]
         IN  TransportInv(u) /\ SentUpTo(u, tick) /\ JobsUpTo(u, tick) /\ u.fault # "None"
<1> DEFINE u == [t EXCEPT !.fault = "WindowOverflow"]
<1>1. /\ IsTransport(u) /\ u.requests = t.requests /\ u.reset_request = t.reset_request /\ u.jobs = t.jobs
      /\ u.available = t.available /\ u.tx_available = t.tx_available /\ u.rx_available = t.rx_available
      /\ u.next = t.next /\ u.sessions = t.sessions /\ u.fault # "None"
  BY DEF TransportInv, TypeInv, IsTransport
<1> SUFFICES TransportInv(u) /\ SentUpTo(u, tick) /\ JobsUpTo(u, tick) /\ u.fault # "None"
  OBVIOUS
<1> HIDE DEF u
<1>2. Requests(u) = Requests(t) /\ Resets(u) = Resets(t) /\ Packets(u) = Packets(t) /\ Jobs(u) = Jobs(t)
      /\ Reserved(u) = Reserved(t)
  BY <1>1 DEF Requests, Resets, Packets, Jobs, Reserved
<1>3. TypeInv(u)
  BY <1>1, <1>2 DEF TypeInv, TransportInv
<1>4. IdInv(u) /\ LinkInv(u) /\ SlotInv(u)
  BY <1>1, <1>2 DEF TransportInv, IdInv, LinkInv, SlotInv
<1> QED BY <1>1, <1>2, <1>3, <1>4 DEF TransportInv, SentUpTo, JobsUpTo

\* One turn of the admission loop, and the states it passes.
Turn(t, tick) == IF Admissible(t, tick) THEN AdmitOne(t, tick) ELSE t
TurnsOf(t, tick, L, f) == f = [n \in 0..L |-> IF n = 0 THEN t ELSE Turn(f[n - 1], tick)]

\* The recursion of the loop has a solution.
LEMMA TurnsExist ==
  ASSUME NEW t, NEW tick, NEW L \in Nat
  PROVE  \E f : TurnsOf(t, tick, L, f)
<1> DEFINE S == {n \in 0..L : \E f : TurnsOf(t, tick, n, f)}
<1>1. 0 \in S
  <2> DEFINE f == [i \in 0..0 |-> t]
  <2>1. TurnsOf(t, tick, 0, f)
    BY DEF TurnsOf
  <2> QED BY <2>1
<1>2. \A n \in 0..(L - 1) : n \in S => n + 1 \in S
  <2> SUFFICES ASSUME NEW n \in 0..(L - 1), NEW f, TurnsOf(t, tick, n, f)
               PROVE  \E g : TurnsOf(t, tick, n + 1, g)
    OBVIOUS
  <2> DEFINE g == [i \in 0..(n + 1) |-> IF i <= n THEN f[i] ELSE Turn(f[n], tick)]
  <2>1. \A i \in 0..n : f[i] = IF i = 0 THEN t ELSE Turn(f[i - 1], tick)
    BY DEF TurnsOf
  <2>2. \A i \in 0..(n + 1) : g[i] = IF i = 0 THEN t ELSE Turn(g[i - 1], tick)
    <3> TAKE i \in 0..(n + 1)
    <3>1. CASE i = 0
      BY <2>1, <3>1
    <3>2. CASE i \in 1..n
      <4>1. g[i] = f[i] /\ g[i - 1] = f[i - 1]
        BY <3>2
      <4> QED BY <2>1, <3>2, <4>1
    <3>3. CASE i = n + 1
      <4>1. g[i] = Turn(f[n], tick) /\ g[i - 1] = f[n] /\ i # 0
        BY <3>3
      <4> QED BY <4>1
    <3> QED BY <3>1, <3>2, <3>3
  <2>3. g = [i \in 0..(n + 1) |-> g[i]]
    OBVIOUS
  <2> HIDE DEF g
  <2>4. TurnsOf(t, tick, n + 1, g)
    BY <2>2, <2>3 DEF TurnsOf
  <2> QED BY <2>4
<1>3. L \in S
  <2> HIDE DEF S
  <2> QED BY <1>1, <1>2, UpTo
<1> QED BY <1>3

\* The states that the loop passes.
Passes(t, tick, L, f) ==
  /\ AdmitRequests(t, tick) = f[L] /\ f[0] = t
  /\ \A n \in 1..L : f[n] = Turn(f[n - 1], tick)

\* admit_requests is the last state of that recursion.
LEMMA AdmitIs ==
  ASSUME NEW t, NEW tick, Len(t.requests) \in Nat
  PROVE  \E f : Passes(t, tick, Len(t.requests), f)
<1> DEFINE L == Len(t.requests)
           g == CHOOSE f : f = [n \in 0..L |->
                  IF n = 0 THEN t ELSE IF Admissible(f[n - 1], tick) THEN AdmitOne(f[n - 1], tick) ELSE f[n - 1]]
<1>1. PICK f : TurnsOf(t, tick, L, f)
  BY TurnsExist
<1>2. f = [n \in 0..L |->
             IF n = 0 THEN t ELSE IF Admissible(f[n - 1], tick) THEN AdmitOne(f[n - 1], tick) ELSE f[n - 1]]
  BY <1>1 DEF TurnsOf, Turn
<1>3. TurnsOf(t, tick, L, g)
  BY <1>2 DEF TurnsOf, Turn
<1>4. AdmitRequests(t, tick) = g[L]
  BY DEF AdmitRequests
<1> HIDE DEF g
<1>5. g[0] = t /\ \A n \in 1..L : g[n] = Turn(g[n - 1], tick)
  <2>1. \A n \in 0..L : g[n] = IF n = 0 THEN t ELSE Turn(g[n - 1], tick)
    BY <1>3 DEF TurnsOf
  <2> QED BY <2>1
<1>6. Passes(t, tick, L, g)
  BY <1>4, <1>5 DEF Passes
<1> QED BY <1>6

\* The transport in the loop.
Settling(t, tick) == TransportInv(t) /\ SentUpTo(t, tick) /\ JobsUpTo(t, tick)

\* A turn keeps the invariant, and admits a request if one is admissible.
LEMMA TurnStep ==
  ASSUME NEW t, NEW tick \in Nat, Settling(t, tick)
  PROVE  /\ Settling(Turn(t, tick), tick)
         /\ IF Admissible(t, tick)
              THEN ~Admissible(Turn(t, tick), tick) \/ Len(Turn(t, tick).requests) = Len(t.requests) - 1
              ELSE Turn(t, tick) = t
<1>0. TransportInv(t) /\ SentUpTo(t, tick) /\ JobsUpTo(t, tick)
  BY DEF Settling
<1>1. CASE ~Admissible(t, tick)
  BY <1>1 DEF Turn
<1>2. CASE Admissible(t, tick)
  <2> DEFINE u == AdmitOne(t, tick)
  <2>0. Turn(t, tick) = u
    BY <1>2 DEF Turn
  <2> HIDE DEF u
  <2>1. CASE u = [t EXCEPT !.fault = "WindowOverflow"]
    <3>1. TransportInv(u) /\ SentUpTo(u, tick) /\ JobsUpTo(u, tick) /\ u.fault # "None"
      BY <1>0, <2>1, OverflowStep
    <3> QED BY <1>2, <2>0, <3>1 DEF Settling, Admissible
  <2>2. ASSUME NEW full \in BOOLEAN, Admitted(t, u, full, tick)
        PROVE  Settling(u, tick) /\ Len(u.requests) = Len(t.requests) - 1
    BY <1>0, <1>2, <2>2, AdmittedStep DEF Settling
  <2>3. \/ u = [t EXCEPT !.fault = "WindowOverflow"]
        \/ \E full \in BOOLEAN : Admitted(t, u, full, tick)
    BY <1>0, <1>2, AdmittedIs DEF u
  <2> QED BY <1>2, <2>0, <2>1, <2>2, <2>3
<1> QED BY <1>1, <1>2

\* So the loop ends with no request that could proceed.
LEMMA AdmitStep ==
  ASSUME NEW t, NEW tick \in Nat, Settling(t, tick)
  PROVE  Settling(AdmitRequests(t, tick), tick) /\ ~Admissible(AdmitRequests(t, tick), tick)
<1> DEFINE L == Len(t.requests)
<1>1. L \in Nat
  BY ListsSeq DEF Settling, TransportInv, TypeInv
<1>f. PICK f : Passes(t, tick, L, f)
  BY <1>1, AdmitIs
<1>2. /\ AdmitRequests(t, tick) = f[L] /\ f[0] = t
      /\ \A n \in 1..L : f[n] = Turn(f[n - 1], tick)
  BY <1>f DEF Passes
<1> DEFINE Good(n) == Settling(f[n], tick) /\ (~Admissible(f[n], tick) \/ Len(f[n].requests) = L - n)
           S == {n \in 0..L : Good(n)}
<1>3. 0 \in S
  BY <1>1, <1>2
<1>4. \A n \in 0..(L - 1) : n \in S => n + 1 \in S
  <2> SUFFICES ASSUME NEW n \in 0..(L - 1), Good(n) PROVE Good(n + 1) /\ n + 1 \in 0..L
    OBVIOUS
  <2>1. n + 1 \in 1..L /\ (n + 1) - 1 = n /\ n + 1 \in 0..L
    BY <1>1
  <2>2. f[n + 1] = Turn(f[n], tick)
    BY <1>2, <2>1
  <2>3. Settling(f[n + 1], tick)
    BY <2>2, TurnStep
  <2>4. CASE ~Admissible(f[n], tick)
    BY <2>1, <2>2, <2>3, <2>4, TurnStep
  <2>5. CASE Admissible(f[n], tick)
    <3>1. Len(f[n].requests) = L - n
      BY <2>5
    <3>2. ~Admissible(f[n + 1], tick) \/ Len(f[n + 1].requests) = Len(f[n].requests) - 1
      BY <2>2, <2>5, TurnStep
    <3>3. (L - n) - 1 = L - (n + 1)
      BY <1>1
    <3> QED BY <2>1, <2>3, <3>1, <3>2, <3>3
  <2> QED BY <2>4, <2>5
<1>5. L \in S
  <2> HIDE DEF S
  <2>1. \A n \in 0..L : n \in S
    <3> HIDE DEF L
    <3> QED BY <1>1, <1>3, <1>4, UpTo
  <2>2. L \in 0..L
    BY <1>1
  <2> QED BY <2>1, <2>2
<1>6. Good(L)
  BY <1>5
<1>7. ASSUME Len(f[L].requests) = 0 PROVE ~Admissible(f[L], tick)
  <2>1. IsSeq(f[L].requests)
    BY <1>6, ListsSeq DEF Settling, TransportInv, TypeInv
  <2> QED BY <1>7, <2>1, IsSeqLen DEF Admissible
<1>8. L - L = 0
  BY <1>1
<1> QED BY <1>2, <1>6, <1>7, <1>8

-----------------------------------------------------------------------------
(* The response link, and a whole step.                                    *)

\* The job whose result is sent next.
FirstUnsent(t, i) == i \in Unsent(t) /\ \A k \in Unsent(t) \ {i} : Earlier(t.jobs[i], t.jobs[k])

\* Some unsent result comes before all others.
LEMMA FirstExists ==
  ASSUME NEW t, TransportInv(t), Unsent(t) # {}
  PROVE  \E i : FirstUnsent(t, i)
<1>1. /\ \A j \in Jobs(t) : IsJob(j) 
      /\ \A i, k \in 1..Len(t.jobs) : t.jobs[i] = t.jobs[k] => i = k
      /\ \A x, y \in Jobs(t) : x.id = y.id => x = y
  BY DEF TransportInv, TypeInv, IdInv, Lists
<1>2. \A i \in Unsent(t) : i \in 1..Len(t.jobs) /\ t.jobs[i] \in Jobs(t)
  BY DEF Unsent, Jobs
<1>3. \A i \in Unsent(t) : t.jobs[i].id \in Nat /\ t.jobs[i].completion \in Nat
  BY <1>1, <1>2, JobFields
<1> DEFINE C == {t.jobs[i].completion : i \in Unsent(t)}
<1>4. PICK c \in C : \A y \in C : c <= y
  <2>1. C \subseteq Nat /\ C # {}
    BY <1>3
  <2> HIDE DEF C
  <2> QED BY <2>1, LeastOf
<1> DEFINE U == {i \in Unsent(t) : t.jobs[i].completion = c}
           D == {t.jobs[i].id : i \in U}
<1>5. PICK d \in D : \A y \in D : d <= y
  <2>1. D \subseteq Nat /\ D # {}
    BY <1>3, <1>4
  <2> HIDE DEF D
  <2> QED BY <2>1, LeastOf
<1>6. PICK i \in Unsent(t) : t.jobs[i].completion = c /\ t.jobs[i].id = d
  BY <1>5
<1>7. ASSUME NEW k \in Unsent(t), k # i PROVE Earlier(t.jobs[i], t.jobs[k])
  <2>1. c <= t.jobs[k].completion
    BY <1>4
  <2>2. CASE t.jobs[k].completion = c
    <3>1. d <= t.jobs[k].id
      BY <1>5, <2>2
    <3>2. t.jobs[k].id # d
      BY <1>1, <1>2, <1>6, <1>7
    <3> QED BY <1>3, <1>6, <2>2, <3>1, <3>2 DEF Earlier
  <2>3. CASE t.jobs[k].completion # c
    BY <1>3, <1>6, <2>1, <2>3 DEF Earlier
  <2> QED BY <2>2, <2>3
<1>8. FirstUnsent(t, i)
  BY <1>6, <1>7 DEF FirstUnsent
<1> QED BY <1>8

\* One result is put on the response link.
Responded(t, u, first, end) ==
  /\ IsTransport(u) /\ u.sessions = t.sessions /\ u.requests = t.requests
  /\ u.reset_request = t.reset_request /\ u.available = t.available /\ u.tx_available = t.tx_available
  /\ u.next = t.next /\ u.fault = t.fault
  /\ u.jobs = [t.jobs EXCEPT ![first] = [t.jobs[first] EXCEPT !.arrival = <<end + LinkLatency>>]]
  /\ u.rx_available = end

\* transmit_result sends one of the unsent results.
LEMMA RespondedIs ==
  ASSUME NEW t, TransportInv(t), NEW tick \in Nat, ~(t.rx_available > tick), Unsent(t) # {}
  PROVE  \E first \in Unsent(t), end \in Nat :
           tick < end /\ Responded(t, TransmitResult(t, tick), first, end)
<1> DEFINE first == CHOOSE i \in Unsent(t) : \A k \in Unsent(t) \ {i} : Earlier(t.jobs[i], t.jobs[k])
           end == tick + Duration(DecoderConfig[t.jobs[first].decoder].outputs)
           u == [t EXCEPT !.jobs[first].arrival = <<end + LinkLatency>>, !.rx_available = end]
<1>1. TransmitResult(t, tick) = u
  BY DEF TransmitResult
<1>2. first \in Unsent(t)
  <2>1. PICK i : FirstUnsent(t, i)
    BY FirstExists
  <2> QED BY <2>1 DEF FirstUnsent
<1> HIDE DEF first
<1>3. end \in Nat /\ tick < end
  <2>1. t.jobs[first] \in Jobs(t)
    BY <1>2 DEF Unsent, Jobs
  <2>2. t.jobs[first].decoder \in DecoderIds
    BY <2>1, JobFields DEF TransportInv, TypeInv
  <2>3. Duration(DecoderConfig[t.jobs[first].decoder].outputs) \in Nat \ {0}
    BY <2>2, ConstantsNat, DurationNat
  <2> QED BY <2>3
<1> HIDE DEF end
<1>4. Responded(t, u, first, end)
  <2>1. IsTransport(t)
    BY DEF TransportInv, TypeInv
  <2> QED BY <2>1 DEF Responded, IsTransport
<1> HIDE DEF u
<1> QED BY <1>1, <1>2, <1>3, <1>4

\* Which keeps the invariant and leaves nothing to do at this tick.
LEMMA RespondedStep ==
  ASSUME NEW t, NEW tick \in Nat, Settling(t, tick), ~Admissible(t, tick), NEW u, NEW first \in Unsent(t),
         NEW end \in Nat, tick < end, Responded(t, u, first, end)
  PROVE  TransportInv(u) /\ Idle(u, tick)
<1> DEFINE j == t.jobs[first]
           k == [j EXCEPT !.arrival = <<end + LinkLatency>>]
<1>1. /\ IsTransport(u) /\ u.sessions = t.sessions /\ u.requests = t.requests
      /\ u.reset_request = t.reset_request /\ u.available = t.available /\ u.tx_available = t.tx_available
      /\ u.next = t.next /\ u.fault = t.fault
      /\ u.jobs = [t.jobs EXCEPT ![first] = k] /\ u.rx_available = end
      /\ Requests(u) = Requests(t) /\ Resets(u) = Resets(t) /\ Packets(u) = Packets(t)
      /\ Reserved(u) = Reserved(t)
  BY DEF Responded, Requests, Resets, Packets, Reserved
<1>2. first \in 1..Len(t.jobs) /\ j \in Jobs(t) /\ j.arrival = <<>>
  BY DEF Unsent, Jobs
<1>t. TransportInv(t) /\ TypeInv(t) /\ IdInv(t) /\ LinkInv(t) /\ SlotInv(t) /\ SentUpTo(t, tick) /\ JobsUpTo(t, tick)
  BY DEF Settling, TransportInv
<1>i. /\ \A x \in Packets(t) \cup Jobs(t) : x.id < t.next
      /\ \A x, y \in Requests(t) : x.id = y.id => x = y
      /\ \A x, y \in Jobs(t) : x.id = y.id => x = y
      /\ \A x \in Requests(t), i \in Jobs(t) : x.id # i.id
  BY <1>t DEF IdInv
<1>3. Lists(t.jobs, Jobs(t)) /\ \A x \in Jobs(t) : IsJob(x)
  BY <1>t DEF TypeInv
<1>l. end + LinkLatency \in Nat /\ tick < end + LinkLatency
  BY ConstantsNat
<1>a. <<end + LinkLatency>> \in Seq(Nat) /\ Len(<<end + LinkLatency>>) <= 1 /\ <<end + LinkLatency>> # <<>>
      /\ <<end + LinkLatency>>[1] = end + LinkLatency
  BY <1>l
<1>4. /\ IsJob(k) /\ k.id = j.id /\ Owner(k) = Owner(j) /\ k.start = j.start /\ k.completion = j.completion
      /\ k.started = j.started /\ k.completed = j.completed /\ k.arrival = <<end + LinkLatency>>
  <2>1. IsJob(j)
    BY <1>2, <1>3
  <2> HIDE DEF j
  <2> QED BY <1>a, <2>1 DEF IsJob, Owner
<1> HIDE DEF j, k
<1>5. k \notin Jobs(t)
  <2>1. k # j
    BY <1>2, <1>4, <1>a
  <2> QED BY <1>2, <1>4, <1>i, <2>1
<1>6. Jobs(u) = (Jobs(t) \ {j}) \cup {k} /\ Lists(u.jobs, Jobs(u))
  <2>1. Lists(u.jobs, (Jobs(t) \ {j}) \cup {k})
    BY <1>1, <1>2, <1>3, <1>5, ListsReplace DEF j
  <2> QED BY <2>1, ListsRange DEF Jobs
<1>7. TypeInv(u)
  <2>1. \A x \in Jobs(u) : IsJob(x)
    BY <1>3, <1>4, <1>6
  <2> QED BY <1>1, <1>6, <1>t, <2>1 DEF TypeInv
<1>8. IdInv(u)
  BY <1>1, <1>2, <1>4, <1>6, <1>i DEF IdInv
<1>9. LinkInv(u)
  BY <1>1, <1>2, <1>4, <1>6, <1>t DEF LinkInv
<1>10. SlotInv(u)
  <2>1. /\ \A x, y \in Jobs(t) : Owner(x) = Owner(y) => x = y
        /\ \A c \in Clients : t.sessions[c].submitted <=> \E x \in Jobs(t) : Owner(x) = c
    BY <1>t DEF SlotInv
  <2>2. \A x, y \in Jobs(u) : Owner(x) = Owner(y) => x = y
    BY <1>2, <1>4, <1>6, <2>1
  <2>3. \A c \in Clients : u.sessions[c].submitted <=> \E x \in Jobs(u) : Owner(x) = c
    BY <1>1, <1>2, <1>4, <1>6, <2>1
  <2>4. Reserved(u) <= ResultCapacity
    BY <1>1, <1>t DEF SlotInv
  <2> QED BY <2>2, <2>3, <2>4 DEF SlotInv
<1>11. SentUpTo(u, tick)
  BY <1>1, <1>t DEF SentUpTo
<1>12. JobsUpTo(u, tick)
  BY <1>2, <1>4, <1>6, <1>a, <1>l, <1>t DEF JobsUpTo
<1>13. ~Admissible(u, tick)
  BY <1>1 DEF Admissible
<1> QED BY <1>1, <1>7, <1>8, <1>9, <1>10, <1>11, <1>12, <1>13 DEF TransportInv, Idle

\* A step of the transport keeps the invariant and leaves it idle at its tick.
LEMMA StepIdle ==
  ASSUME NEW t, TransportInv(t), NEW tick \in Nat
  PROVE  TransportInv(StepTransport(t, tick)) /\ Idle(StepTransport(t, tick), tick)
<1> DEFINE a == AdvanceTransmission(t, tick)
           b == AdvanceJobs(a, tick)
           c == AdmitRequests(b, tick)
           d == TransmitResult(c, tick)
<1>0. StepTransport(t, tick) = d
  BY DEF StepTransport
<1> HIDE DEF d
<1>1. TransportInv(a) /\ SentUpTo(a, tick)
  BY TransmittedIs, TransmissionStep
<1> HIDE DEF a
<1>2. Settling(b, tick)
  BY <1>1, WorkedIs, JobsStep DEF Settling
<1> HIDE DEF b
<1>3. Settling(c, tick) /\ ~Admissible(c, tick)
  BY <1>2, AdmitStep
<1> HIDE DEF c
<1>4. CASE c.rx_available > tick \/ Unsent(c) = {}
  <2>1. d = c
    BY <1>4 DEF d, TransmitResult
  <2>2. c.rx_available \in Nat
    BY <1>3 DEF Settling, TransportInv, TypeInv
  <2>3. Unsent(c) # {} => tick < c.rx_available
    BY <1>4, <2>2
  <2> QED BY <1>0, <1>3, <2>1, <2>3 DEF Settling, Idle
<1>5. CASE ~(c.rx_available > tick) /\ Unsent(c) # {}
  <2>1. PICK first \in Unsent(c), end \in Nat : tick < end /\ Responded(c, TransmitResult(c, tick), first, end)
    BY <1>3, <1>5, RespondedIs DEF Settling
  <2> QED BY <1>0, <1>3, <2>1, RespondedStep DEF d
<1> QED BY <1>4, <1>5

-----------------------------------------------------------------------------
(* Commands of the cores.                                                  *)

\* A command that an access can lead to.
IsCommand(m) ==
  /\ m.kind \in {"Consume", "Reset", "Submit"} => m.decoder \in DecoderIds
  /\ m.kind = "Submit" => m.bits \in Seq({0, 1})

\* The bits of a submission.
LEMMA BitsAreBits ==
  ASSUME NEW r \in Registers, r.count \in 1..(2 * WordBits)
  PROVE  SubSeq(r.low \o r.high, 1, r.count) \in Seq({0, 1})
<1>1. r.low \in [1..WordBits -> {0, 1}] /\ r.high \in [1..WordBits -> {0, 1}] /\ WordBits \in Nat
  BY MmioAssumption DEF Registers
<1>2. \A a, b \in [1..WordBits -> {0, 1}] : /\ a \in Seq({0, 1}) /\ b \in Seq({0, 1}) 
                                            /\ Len(a) = WordBits /\ Len(b) = WordBits
  BY <1>1
<1> DEFINE w == r.low \o r.high
<1>3. w \in Seq({0, 1}) /\ Len(w) = WordBits + WordBits
  <2>1. \A a, b \in Seq({0, 1}) : a \o b \in Seq({0, 1}) /\ Len(a \o b) = Len(a) + Len(b)
    OBVIOUS
  <2> QED BY <1>1, <1>2, <2>1, Zenon
<1> SUFFICES SubSeq(w, 1, r.count) \in Seq({0, 1})
  OBVIOUS
<1> HIDE DEF w
<1>4. r.count \in 1..Len(w)
  BY <1>1, <1>3
<1>5. \A s \in Seq({0, 1}) : \A n \in 1..Len(s) : SubSeq(s, 1, n) \in Seq({0, 1})
  OBVIOUS
<1> QED BY <1>3, <1>4, <1>5, Zenon

\* What a core may store into a register.
LEMMA ValueIs ==
  ASSUME NEW q \in Accesses, "value" \in DOMAIN q
  PROVE  /\ q.register \in {"Select", "Count"} => q.value \in Nat
         /\ q.register \in {"DataLow", "DataHigh"} => q.value \in [1..WordBits -> {0, 1}]
<1>1. CASE q \in [register : STRING]
  BY <1>1
<1>2. CASE q \in [register : {"Select", "Count", "ResultLow", "ResultHigh"}, value : Nat]
  BY <1>2
<1>3. CASE q \in [register : {"DataLow", "DataHigh"}, value : [1..WordBits -> {0, 1}]]
  BY <1>3
<1>4. CASE q \in [register : {"Command"}, value : STRING]
  BY <1>4
<1> QED BY <1>1, <1>2, <1>3, <1>4 DEF Accesses

\* The registers after an access, and the command it leads to.
LEMMA MmioIs ==
  ASSUME NEW r \in Registers, NEW q \in Accesses
  PROVE  MmioAccess(r, q).registers \in Registers /\ IsCommand(MmioAccess(r, q).command)
<1> DEFINE a == MmioAccess(r, q)
<1>0. ASSUME NEW s \in Registers
      PROVE  /\ NoCommand(s).registers \in Registers /\ IsCommand(NoCommand(s).command)
             /\ Refused(s).registers \in Registers /\ IsCommand(Refused(s).command)
  BY <1>0 DEF NoCommand, Refused, IsCommand
<1>1. CASE "value" \in DOMAIN q /\ q.register = "Command"
  <2>1. a = CommandWrite(r, q.value)
    BY <1>1 DEF MmioAccess
  <2>2. CASE r.decoder \notin DecoderIds
    BY <1>0, <2>1, <2>2 DEF CommandWrite
  <2>3. CASE r.decoder \in DecoderIds /\ q.value = "Consume"
    BY <2>1, <2>3 DEF CommandWrite, Issue, IsCommand
  <2>4. CASE r.decoder \in DecoderIds /\ q.value = "Reset"
    BY <2>1, <2>4 DEF CommandWrite, Issue, IsCommand
  <2>5. CASE r.decoder \in DecoderIds /\ q.value = "Submit" /\ r.count \in 1..(2 * WordBits)
    <3> DEFINE b == SubSeq(r.low \o r.high, 1, r.count)
    <3>1. b \in Seq({0, 1})
      BY <2>5, BitsAreBits
    <3>2. a = Issue(r, [kind |-> "Submit", decoder |-> r.decoder, bits |-> b])
      BY <2>1, <2>5 DEF CommandWrite
    <3> HIDE DEF b, a
    <3>3. a.registers = r /\ a.command = [kind |-> "Submit", decoder |-> r.decoder, bits |-> b]
      BY <3>2 DEF Issue
    <3>4. IsCommand(a.command)
      BY <2>5, <3>1, <3>3 DEF IsCommand
    <3> QED BY <3>3, <3>4 DEF a
  <2>6. CASE r.decoder \in DecoderIds /\ q.value = "Submit" /\ r.count \notin 1..(2 * WordBits)
    BY <1>0, <2>1, <2>6 DEF CommandWrite
  <2>7. CASE r.decoder \in DecoderIds /\ q.value \notin {"Consume", "Reset", "Submit"}
    BY <1>0, <2>1, <2>7 DEF CommandWrite
  <2> QED BY <2>2, <2>3, <2>4, <2>5, <2>6, <2>7
<1>2. CASE "value" \in DOMAIN q /\ q.register # "Command"
  <2>1. a = RegisterWrite(r, q)
    BY <1>2 DEF MmioAccess
  <2>v. /\ q.register \in {"Select", "Count"} => q.value \in Nat
        /\ q.register \in {"DataLow", "DataHigh"} => q.value \in [1..WordBits -> {0, 1}]
    BY <1>2, ValueIs
  <2>2. CASE q.register = "Select"
    <3>1. [r EXCEPT !.decoder = q.value] \in Registers
      BY <2>2, <2>v DEF Registers
    <3> QED BY <1>0, <2>1, <2>2, <3>1 DEF RegisterWrite
  <2>3. CASE q.register = "Count"
    <3>1. [r EXCEPT !.count = q.value] \in Registers
      BY <2>3, <2>v DEF Registers
    <3> QED BY <1>0, <2>1, <2>3, <3>1 DEF RegisterWrite
  <2>4. CASE q.register = "DataLow"
    <3>1. [r EXCEPT !.low = q.value] \in Registers
      BY <2>4, <2>v DEF Registers
    <3> QED BY <1>0, <2>1, <2>4, <3>1 DEF RegisterWrite
  <2>5. CASE q.register = "DataHigh"
    <3>1. [r EXCEPT !.high = q.value] \in Registers
      BY <2>5, <2>v DEF Registers
    <3> QED BY <1>0, <2>1, <2>5, <3>1 DEF RegisterWrite
  <2>6. CASE q.register \notin {"Select", "Count", "DataLow", "DataHigh"}
    BY <1>0, <2>1, <2>6 DEF RegisterWrite
  <2> QED BY <2>2, <2>3, <2>4, <2>5, <2>6
<1>3. CASE "value" \notin DOMAIN q
  <2>1. CASE r.decoder \in DecoderIds /\ q.register \in {"Count", "Command", "ResultLow", "ResultHigh"}
    BY <1>3, <2>1 DEF MmioAccess, Issue, IsCommand
  <2>2. CASE ~(r.decoder \in DecoderIds /\ q.register \in {"Count", "Command", "ResultLow", "ResultHigh"})
    BY <1>0, <1>3, <2>2 DEF MmioAccess
  <2> QED BY <2>1, <2>2
<1> QED BY <1>1, <1>2, <1>3

\* Consuming a result keeps the invariant.
LEMMA ConsumeStep ==
  ASSUME NEW t, TransportInv(t), NEW c \in Clients, Consumable(t.sessions[c])
  PROVE  TransportInv([t EXCEPT !.sessions[c] = ClearSession])
<1> DEFINE u == [t EXCEPT !.sessions[c] = ClearSession]
<1>1. /\ IsTransport(u) /\ u.requests = t.requests /\ u.reset_request = t.reset_request /\ u.jobs = t.jobs
      /\ u.available = t.available /\ u.tx_available = t.tx_available /\ u.rx_available = t.rx_available
      /\ u.next = t.next /\ u.fault = t.fault /\ u.sessions = [t.sessions EXCEPT ![c] = ClearSession]
  BY DEF TransportInv, TypeInv, IsTransport
<1> SUFFICES TransportInv(u)
  OBVIOUS
<1> HIDE DEF u
<1>2. Requests(u) = Requests(t) /\ Resets(u) = Resets(t) /\ Packets(u) = Packets(t) /\ Jobs(u) = Jobs(t)
  BY <1>1 DEF Requests, Resets, Packets, Jobs
<1>t. TypeInv(t) /\ IdInv(t) /\ LinkInv(t) /\ SlotInv(t)
  BY DEF TransportInv
<1>3. u.sessions = [d \in Clients |-> u.sessions[d]]
      /\ \A d \in Clients : u.sessions[d] = IF d = c THEN ClearSession ELSE t.sessions[d]
  <2>1. t.sessions = [d \in Clients |-> t.sessions[d]]
    BY <1>t DEF TypeInv
  <2>2. u.sessions = [d \in Clients |-> IF d = c THEN ClearSession ELSE t.sessions[d]]
    BY <1>1, <2>1
  <2> QED BY <2>2
<1>4. TypeInv(u)
  <2>1. \A d \in Clients : IsSession(u.sessions[d])
    BY <1>3, <1>t, ClearIs DEF TypeInv
  <2> QED BY <1>1, <1>2, <1>3, <1>t, <2>1 DEF TypeInv
<1>5. IdInv(u) /\ LinkInv(u)
  BY <1>1, <1>2, <1>t DEF IdInv, LinkInv
<1>6. SlotInv(u)
  <2>1. /\ Reserved(t) <= ResultCapacity
        /\ \A x, y \in Jobs(t) : Owner(x) = Owner(y) => x = y
        /\ \A d \in Clients : t.sessions[d].submitted <=> \E j \in Jobs(t) : Owner(j) = d
    BY <1>t DEF SlotInv
  <2>2. \A d \in Clients : u.sessions[d].submitted <=> \E j \in Jobs(u) : Owner(j) = d
    BY <1>2, <1>3, <2>1, ClearIs DEF Consumable
  <2>3. Slots(u) \subseteq Slots(t)
    <3> SUFFICES ASSUME NEW d \in Clients, u.sessions[d].result # <<>> \/ u.sessions[d].submitted
                 PROVE  t.sessions[d].result # <<>> \/ t.sessions[d].submitted
      BY DEF Slots
    <3> QED BY <1>3, ClearIs
  <2>4. Reserved(u) <= ResultCapacity
    BY <2>1, <2>3, FewerSlots, SlotsFinite, ConstantsNat
  <2> QED BY <1>2, <2>1, <2>2, <2>4 DEF SlotInv
<1> QED BY <1>4, <1>5, <1>6 DEF TransportInv

\* A packet is put on the request link.
Posted(t, u, m, p, end) ==
  /\ IsTransport(u) /\ u.sessions = t.sessions /\ u.jobs = t.jobs /\ u.available = t.available
  /\ u.rx_available = t.rx_available /\ u.fault = t.fault
  /\ u.next = t.next + 1 /\ u.tx_available = end
  /\ u.requests = IF m.kind = "Submit" THEN Append(t.requests, p) ELSE t.requests
  /\ u.reset_request = IF m.kind = "Reset" THEN <<p>> ELSE t.reset_request

\* transmit does that.
LEMMA PostedIs ==
  ASSUME NEW t, TransportInv(t), now \in Nat, NEW core \in Cores, NEW m, m.kind \in {"Submit", "Reset"}, IsCommand(m)
  PROVE  \E p \in Packet, end \in Nat :
           /\ p.id = t.next /\ t.tx_available < end /\ p.arrival = end + LinkLatency
           /\ Owner(p) = <<core, m.decoder>> /\ (m.kind = "Submit" => p.bits = m.bits)
           /\ Posted(t, Transmit(t, core, m), m, p, end)
<1> DEFINE bits == IF m.kind = "Submit" THEN m.bits ELSE <<>>
           sent == Later(now, t.tx_available)
           end  == sent + Duration(Len(bits))
           p == [id |-> t.next, core |-> core, decoder |-> m.decoder, bits |-> bits,
                 sent |-> sent, arrival |-> end + LinkLatency, transmitted |-> FALSE]
           u == [t EXCEPT !.requests = IF m.kind = "Submit" THEN Append(@, p) ELSE @,
                !.reset_request = IF m.kind = "Reset" THEN <<p>> ELSE @,
                !.next = @ + 1,
                !.tx_available = end]
<1>0. Transmit(t, core, m) = u
  BY DEF Transmit
<1>1. t.tx_available \in Nat /\ t.next \in Nat /\ IsTransport(t)
  BY DEF TransportInv, TypeInv
<1>2. m.decoder \in DecoderIds
  BY DEF IsCommand
<1>3. bits \in Seq({0, 1})
  <2>1. CASE m.kind = "Submit"
    BY <2>1 DEF IsCommand
  <2>2. CASE m.kind # "Submit"
    <3>1. <<>> \in Seq({0, 1})
      OBVIOUS
    <3> QED BY <2>2, <3>1
  <2> QED BY <2>1, <2>2
<1>4. sent \in Nat /\ t.tx_available <= sent
  BY <1>1 DEF Later
<1> HIDE DEF bits, sent
<1>5. end \in Nat /\ t.tx_available < end
  <2>1. Len(bits) \in Nat
    BY <1>3
  <2>2. Duration(Len(bits)) \in Nat \ {0}
    BY <2>1, DurationNat
  <2> QED BY <1>1, <1>4, <2>2
<1> HIDE DEF end
<1>6. end + LinkLatency \in Nat
  BY <1>5, ConstantsNat
<1>7. p \in Packet /\ p.id = t.next /\ p.arrival = end + LinkLatency /\ p.bits = bits
  BY <1>1, <1>2, <1>3, <1>4, <1>6 DEF Packet
<1>o. Owner(p) = <<core, m.decoder>>
  BY DEF Owner
<1>b. m.kind = "Submit" => p.bits = m.bits
  BY <1>7 DEF bits
<1> HIDE DEF p
<1>8. Posted(t, u, m, p, end)
  BY <1>1 DEF Posted, IsTransport
<1> HIDE DEF u
<1> QED BY <1>0, <1>5, <1>7, <1>8, <1>b, <1>o

\* A new packet keeps the order of the link and the identities distinct.
LEMMA PostedStep ==
  ASSUME NEW t, TransportInv(t), NEW u, NEW m, m.kind \in {"Submit", "Reset"}, ~HeldBack(t, m),
         NEW p \in Packet, NEW end \in Nat, p.id = t.next, t.tx_available < end, p.arrival = end + LinkLatency,
         Posted(t, u, m, p, end)
  PROVE  TransportInv(u)
<1>1. /\ IsTransport(u) /\ u.sessions = t.sessions /\ u.jobs = t.jobs /\ u.available = t.available
      /\ u.rx_available = t.rx_available /\ u.fault = t.fault
      /\ u.next = t.next + 1 /\ u.tx_available = end
      /\ Jobs(u) = Jobs(t) /\ Reserved(u) = Reserved(t)
  BY DEF Posted, Jobs, Reserved
<1>t. TypeInv(t) /\ IdInv(t) /\ LinkInv(t) /\ SlotInv(t)
  BY DEF TransportInv
<1>2. /\ Lists(t.requests, Requests(t)) /\ Requests(t) \subseteq Packet
      /\ t.reset_request \in Seq(Packet) /\ Len(t.reset_request) <= 1
      /\ t.tx_available \in Nat /\ t.next \in Nat
      /\ \A j \in Jobs(t) : IsJob(j)
  BY <1>t DEF TypeInv
<1>3. Resets(t) \subseteq Packet
  BY <1>2 DEF Resets
<1>i. /\ \A x \in Packets(t) \cup Jobs(t) : x.id < t.next
      /\ \A x, y \in Requests(t) : x.id = y.id => x = y
      /\ \A x, y \in Jobs(t) : x.id = y.id => x = y
      /\ \A x \in Requests(t), i \in Jobs(t) : x.id # i.id
  BY <1>t DEF IdInv
<1>l. /\ \A q \in Packets(t) : q.arrival <= t.tx_available + LinkLatency
      /\ \A x \in Requests(t), q \in Resets(t) :
             \/ x.id < q.id /\ x.arrival < q.arrival
             \/ q.id < x.id /\ q.arrival < x.arrival
      /\ \A j \in Jobs(t), q \in Resets(t) : Owner(j) = Owner(q) => j.id < q.id
  BY <1>t DEF LinkInv
<1>4. \A q \in Packets(t) : q.arrival < p.arrival /\ q.id < p.id /\ q.arrival <= end + LinkLatency /\ q.id \in Nat
  <2> TAKE q \in Packets(t)
  <2>1. q.arrival \in Nat /\ q.id \in Nat
    BY <1>2, <1>3, PacketFields DEF Packets
  <2> QED BY <1>2, <1>i, <1>l, <2>1, ConstantsNat
<1>5. \A j \in Jobs(t) : j.id \in Nat /\ j.id < p.id
  BY <1>2, <1>i, JobFields
<1>6. p \notin Packets(t)
  BY <1>2, <1>4
<1>7. CASE m.kind = "Submit"
  <2>1. u.requests = Append(t.requests, p) /\ u.reset_request = t.reset_request
    BY <1>7 DEF Posted
  <2>2. Lists(Append(t.requests, p), Requests(t) \cup {p})
    BY <1>2, <1>6, ListsAppend DEF Packets
  <2>3. Lists(u.requests, Requests(t) \cup {p})
    BY <2>1, <2>2
  <2>4. Requests(u) = Requests(t) \cup {p}
    BY <2>3, ListsRange DEF Requests
  <2>5. Resets(u) = Resets(t)
    BY <2>1 DEF Resets
  <2>6. TypeInv(u)
    <3>1. u.next \in Nat /\ u.tx_available \in Nat
      BY <1>1, <1>2
    <3>2. Lists(u.requests, Requests(u)) /\ Requests(u) \subseteq Packet
      BY <1>2, <2>3, <2>4
    <3> QED BY <1>1, <1>t, <2>1, <3>1, <3>2 DEF TypeInv
  <2>7. IdInv(u)
    <3>1. \A x \in Packets(u) \cup Jobs(u) : x.id < u.next
      BY <1>1, <1>2, <1>4, <1>5, <2>4, <2>5 DEF Packets
    <3>2. \A x, y \in Requests(u) : x.id = y.id => x = y
      BY <1>2, <1>4, <1>i, <2>4 DEF Packets
    <3>3. \A x \in Requests(u), i \in Jobs(u) : x.id # i.id
      BY <1>1, <1>2, <1>5, <1>i, <2>4
    <3> QED BY <1>1, <1>i, <3>1, <3>2, <3>3 DEF IdInv
  <2>8. LinkInv(u)
    <3>1. \A q \in Packets(u) : q.arrival <= u.tx_available + LinkLatency
      BY <1>1, <1>4, <2>4, <2>5, ConstantsNat DEF Packets
    <3>2. \A x \in Requests(u), q \in Resets(u) :
             \/ x.id < q.id /\ x.arrival < q.arrival
             \/ q.id < x.id /\ q.arrival < x.arrival
      BY <1>4, <1>l, <2>4, <2>5 DEF Packets
    <3> QED BY <1>1, <1>l, <2>5, <3>1, <3>2 DEF LinkInv
  <2>9. SlotInv(u)
    BY <1>1, <1>t DEF SlotInv
  <2> QED BY <2>6, <2>7, <2>8, <2>9 DEF TransportInv
<1>8. CASE m.kind = "Reset"
  <2>1. u.requests = t.requests /\ u.reset_request = <<p>>
    BY <1>8 DEF Posted
  <2>2. Requests(u) = Requests(t)
    BY <2>1 DEF Requests
  <2>3. u.reset_request \in Seq(Packet) /\ Len(u.reset_request) = 1 /\ u.reset_request[1] = p
    BY <2>1
  <2>4. Resets(u) = {p}
    BY <2>3 DEF Resets
  <2>6. TypeInv(u)
    <3>1. u.next \in Nat /\ u.tx_available \in Nat
      BY <1>1, <1>2
    <3> QED BY <1>1, <1>t, <2>1, <2>2, <2>3, <3>1 DEF TypeInv
  <2>7. IdInv(u)
    <3>1. \A x \in Packets(u) \cup Jobs(u) : x.id < u.next
      BY <1>1, <1>2, <1>4, <1>5, <2>2, <2>4 DEF Packets
    <3> QED BY <1>1, <1>i, <2>2, <3>1 DEF IdInv
  <2>8. LinkInv(u)
    <3>1. \A q \in Packets(u) : q.arrival <= u.tx_available + LinkLatency
      BY <1>1, <1>4, <2>2, <2>4, ConstantsNat DEF Packets
    <3>2. \A x \in Requests(u), q \in Resets(u) : x.id < q.id /\ x.arrival < q.arrival
      BY <1>4, <2>2, <2>4 DEF Packets
    <3>3. \A j \in Jobs(u), q \in Resets(u) : j.id < q.id
      BY <1>1, <1>5, <2>4
    <3> QED BY <3>1, <3>2, <3>3 DEF LinkInv
  <2>9. SlotInv(u)
    BY <1>1, <1>t DEF SlotInv
  <2> QED BY <2>6, <2>7, <2>8, <2>9 DEF TransportInv
<1> QED BY <1>7, <1>8

\* Every command that is executed keeps the invariant.
LEMMA ExecuteStep ==
  ASSUME NEW t, TransportInv(t), now \in Nat, NEW core \in Cores, NEW m, IsCommand(m),
         ~CommandFaults(t, core, m), ~HeldBack(t, m)
  PROVE  TransportInv(Execute(t, core, m))
<1>1. CASE m.kind = "Consume"
  <2> DEFINE c == <<core, m.decoder>>
  <2>1. c \in Clients /\ Consumable(t.sessions[c])
    BY <1>1 DEF CommandFaults, IsCommand, Clients
  <2>2. Execute(t, core, m) = [t EXCEPT !.sessions[c] = ClearSession]
    BY <1>1 DEF Execute
  <2> HIDE DEF c
  <2> QED BY <2>1, <2>2, ConsumeStep
<1>2. CASE m.kind \in {"Submit", "Reset"}
  <2>1. Execute(t, core, m) = Transmit(t, core, m)
    BY <1>2 DEF Execute
  <2>2. PICK p \in Packet, end \in Nat :
          /\ p.id = t.next /\ t.tx_available < end /\ p.arrival = end + LinkLatency
          /\ Posted(t, Transmit(t, core, m), m, p, end)
    BY <1>2, PostedIs
  <2> QED BY <1>2, <2>1, <2>2, PostedStep
<1>3. CASE m.kind \notin {"Consume", "Submit", "Reset"}
  BY <1>3 DEF Execute
<1> QED BY <1>1, <1>2, <1>3

\* A fresh transport satisfies the invariant and has nothing to do.
LEMMA ClearTransportIs ==
  ASSUME NEW n \in Nat
  PROVE  TransportInv(ClearTransport(n)) /\ \A tick : Idle(ClearTransport(n), tick)
<1> DEFINE u == ClearTransport(n)
<1>1. /\ IsTransport(u) /\ u.requests = <<>> /\ u.reset_request = <<>> /\ u.jobs = <<>>
      /\ u.available = [d \in DecoderIds |-> 0] /\ u.tx_available = 0 /\ u.rx_available = 0
      /\ u.next = n /\ u.sessions = [c \in Clients |-> ClearSession]
  BY DEF ClearTransport, IsTransport
<1> HIDE DEF u
<1>2. Requests(u) = {} /\ Resets(u) = {} /\ Jobs(u) = {} /\ Packets(u) = {} /\ Unsent(u) = {}
  <2>1. 1..Len(<<>>) = {}
    OBVIOUS
  <2> QED BY <1>1, <2>1 DEF Requests, Resets, Jobs, Packets, Unsent
<1>3. TypeInv(u)
  <2>1. <<>> \in Seq(Packet) /\ Len(<<>>) <= 1
    OBVIOUS
  <2>2. \A c \in Clients : IsSession(u.sessions[c])
    BY <1>1, ClearIs
  <2>3. u.sessions = [c \in Clients |-> u.sessions[c]]
    BY <1>1
  <2>4. u.available \in [DecoderIds -> Nat]
    BY <1>1
  <2> QED BY <1>1, <1>2, <2>1, <2>2, <2>3, <2>4, ListsEmpty DEF TypeInv
<1>4. IdInv(u) /\ LinkInv(u)
  BY <1>2 DEF IdInv, LinkInv
<1>5. SlotInv(u)
  <2>1. Slots(u) = {}
    BY <1>1, ClearIs DEF Slots
  <2>2. Reserved(u) = 0
    BY <2>1, SlotsFinite, FS_EmptySet
  <2>3. \A c \in Clients : ~u.sessions[c].submitted
    BY <1>1, ClearIs
  <2> QED BY <1>2, <2>2, <2>3, ConstantsNat DEF SlotInv
<1>6. \A tick : Idle(u, tick)
  BY <1>1, <1>2 DEF Idle, SentUpTo, JobsUpTo, Admissible
<1> QED BY <1>3, <1>4, <1>5, <1>6 DEF TransportInv, u

-----------------------------------------------------------------------------
(* Boundaries and accesses.                                                *)

\* The next memory edge is in the future.
LEMMA NextEdgeNat ==
  ASSUME now \in Nat
  PROVE  NextEdge \in Nat
<1>1. CpuPeriod \in Nat \ {0}
  BY ConstantsNat
<1>2. \A a \in Nat, b \in Nat \ {0} : a \div b \in Nat
  OBVIOUS
<1>3. now \div CpuPeriod \in Nat
  BY <1>1, <1>2
<1>4. \A a, b \in Nat : (a + 1) * b \in Nat
  OBVIOUS
<1> QED BY <1>1, <1>3, <1>4 DEF NextEdge

\* The ticks of a packet and of a job that next_boundary looks at.
TicksOf(p) == {p.arrival} \cup IF p.transmitted THEN {} ELSE {p.sent}
WorkOf(t, j) ==
  {j.start, j.completion} \cup IF j.arrival # <<>> THEN {j.arrival[1]}
                               ELSE IF j.completed THEN {t.rx_available} ELSE {}

\* next_boundary takes all of these ticks into account.
LEMMA BoundariesAre ==
  ASSUME NEW t
  PROVE  \A b : b \in Boundaries(t) <=> \/ \E p \in Packets(t) : b \in TicksOf(p)
                                        \/ \E j \in Jobs(t) : b \in WorkOf(t, j)
<1> DEFINE R == {TicksOf(t.requests[i]) : i \in 1..Len(t.requests)}
           Q == {TicksOf(t.reset_request[i]) : i \in 1..Len(t.reset_request)}
           W == {WorkOf(t, t.jobs[i]) : i \in 1..Len(t.jobs)}
<1>1. Boundaries(t) = UNION (R \cup Q \cup W)
  BY DEF Boundaries, TicksOf, WorkOf
<1>2. \A b : b \in UNION R <=> \E p \in Requests(t) : b \in TicksOf(p)
  BY DEF Requests
<1>3. \A b : b \in UNION Q <=> \E p \in Resets(t) : b \in TicksOf(p)
  BY DEF Resets
<1>4. \A b : b \in UNION W <=> \E j \in Jobs(t) : b \in WorkOf(t, j)
  BY DEF Jobs
<1> HIDE DEF R, Q, W
<1>5. \A b : b \in UNION (R \cup Q \cup W) <=> b \in UNION R \/ b \in UNION Q \/ b \in UNION W
  OBVIOUS
<1> QED BY <1>1, <1>2, <1>3, <1>4, <1>5 DEF Packets

\* Boundaries are ticks.
LEMMA BoundariesNat ==
  ASSUME NEW t, TransportInv(t)
  PROVE  Boundaries(t) \subseteq Nat
<1>1. /\ Requests(t) \subseteq Packet /\ Resets(t) \subseteq Packet
      /\ \A j \in Jobs(t) : IsJob(j)
      /\ t.rx_available \in Nat
  BY DEF TransportInv, TypeInv, Resets
<1>2. \A p \in Packets(t) : TicksOf(p) \subseteq Nat
  BY <1>1, PacketFields DEF Packets, TicksOf
<1>3. \A j \in Jobs(t) : WorkOf(t, j) \subseteq Nat
  BY <1>1, JobFields DEF WorkOf
<1> QED BY <1>2, <1>3, BoundariesAre

\* The next tick is in the future, and no boundary is skipped.
LEMMA NextTickIs ==
  ASSUME now \in Nat, TransportInv(transport)
  PROVE  NextTick \in Nat /\ \A b \in Due(transport) : NextTick <= b
<1> DEFINE T == {NextEdge} \cup Due(transport)
<1>1. T \subseteq Nat /\ T # {}
  BY NextEdgeNat, BoundariesNat DEF Due
<1>2. NextTick = Min(T)
  BY DEF NextTick
<1>d. Due(transport) \subseteq T
  OBVIOUS
<1> HIDE DEF T
<1>3. \E x \in T : \A y \in T : x <= y
  BY <1>1, LeastOf
<1>4. Min(T) \in T /\ \A y \in T : Min(T) <= y
  BY <1>3 DEF Min
<1> QED BY <1>1, <1>2, <1>4, <1>d

\* A core makes the accesses of its program, and one that was held back again.
LEMMA OfferedIs ==
  ASSUME WorldInv, NEW core \in Cores, NEW q \in Offered(core)
  PROVE  q \in Accesses /\ made[core] < Len(Menu[core])
<1>1. made[core] \in Nat /\ pending[core] \in Seq(Accesses) /\ made[core] <= Len(Menu[core])
      /\ (pending[core] # <<>> => made[core] < Len(Menu[core]))
  BY DEF WorldInv
<1>2. Menu[core] \in Seq(SUBSET Accesses)
  BY DecoderAssumption DEF Cores
<1>3. CASE pending[core] # <<>>
  <2>1. \A s \in Seq(Accesses) : s # <<>> => s[1] \in Accesses
    OBVIOUS
  <2>2. q = pending[core][1]
    BY <1>3 DEF Offered
  <2> QED BY <1>1, <1>3, <2>1, <2>2
<1>4. CASE pending[core] = <<>>
  <2>1. q \in Menu[core][made[core] + 1] /\ made[core] # Len(Menu[core])
    BY <1>4 DEF Offered
  <2> DEFINE M == Menu[core]
             n == made[core]
  <2>2. M \in Seq(SUBSET Accesses) /\ n \in Nat /\ n <= Len(M) /\ n # Len(M) /\ q \in M[n + 1]
    BY <1>1, <1>2, <2>1
  <2> SUFFICES q \in Accesses /\ n < Len(M)
    OBVIOUS
  <2> HIDE DEF M, n
  <2>3. Len(M) \in Nat /\ \A i \in 1..Len(M) : M[i] \in SUBSET Accesses
    BY <2>2
  <2>4. n + 1 \in 1..Len(M) /\ n < Len(M)
    BY <2>2, <2>3
  <2> QED BY <2>2, <2>3, <2>4
<1> QED BY <1>3, <1>4

\* An access keeps the invariant, whether it is executed, held back or refused.
LEMMA AccessStep ==
  ASSUME WorldInv, TransportInv(transport), NEW core \in Cores, Access(core)
  PROVE  /\ TransportInv(transport')
         /\ registers' \in [Cores -> Registers]
         /\ made' \in [Cores -> Nat] /\ pending' \in [Cores -> Seq(Accesses)]
         /\ \A c \in Cores : /\ made'[c] <= Len(Menu[c])
                             /\ pending'[c] # <<>> => made'[c] < Len(Menu[c])
<1>1. PICK q \in Offered(core) : \E access \in {MmioAccess(registers[core], q)} :
        LET command == access.command
        IN  \/ /\ CommandFaults(transport, core, command)
               /\ halted' = halted \cup {core}
               /\ UNCHANGED <<transport, registers, made, pending, historyVars>>
            \/ /\ ~CommandFaults(transport, core, command)
               /\ HeldBack(transport, command)
               /\ pending' = [pending EXCEPT ![core] = <<q>>]
               /\ UNCHANGED <<transport, registers, made, halted, historyVars>>
            \/ /\ ~CommandFaults(transport, core, command)
               /\ ~HeldBack(transport, command)
               /\ registers' = [registers EXCEPT ![core] = access.registers]
               /\ transport' = Execute(transport, core, command)
               /\ made' = [made EXCEPT ![core] = @ + 1]
               /\ pending' = [pending EXCEPT ![core] = <<>>]
               /\ Record(core, command)
               /\ UNCHANGED halted
  BY DEF Access
<1> DEFINE a == MmioAccess(registers[core], q)
<1>2. q \in Accesses /\ made[core] < Len(Menu[core])
  BY OfferedIs
<1>w. /\ registers \in [Cores -> Registers] /\ made \in [Cores -> Nat] /\ pending \in [Cores -> Seq(Accesses)]
      /\ \A c \in Cores : /\ made[c] <= Len(Menu[c]) /\ (pending[c] # <<>> => made[c] < Len(Menu[c]))
      /\ now \in Nat
  BY DEF WorldInv
<1>3. a.registers \in Registers /\ IsCommand(a.command)
  BY <1>2, <1>w, MmioIs
<1>4. \/ UNCHANGED <<transport, registers, made, pending>>
      \/ pending' = [pending EXCEPT ![core] = <<q>>] /\ UNCHANGED <<transport, registers, made>>
      \/ /\ ~CommandFaults(transport, core, a.command)
         /\ ~HeldBack(transport, a.command)
         /\ registers' = [registers EXCEPT ![core] = a.registers]
         /\ transport' = Execute(transport, core, a.command)
         /\ made' = [made EXCEPT ![core] = @ + 1]
         /\ pending' = [pending EXCEPT ![core] = <<>>]
  BY <1>1
<1> HIDE DEF a
<1>5. CASE UNCHANGED <<transport, registers, made, pending>>
  BY <1>5, <1>w
<1>6. CASE pending' = [pending EXCEPT ![core] = <<q>>] /\ UNCHANGED <<transport, registers, made>>
  <2>1. <<q>> \in Seq(Accesses)
    BY <1>2
  <2>2. pending' \in [Cores -> Seq(Accesses)]
    BY <1>6, <1>w, <2>1
  <2>3. \A c \in Cores : c # core => pending'[c] = pending[c]
    BY <1>6, <1>w
  <2>4. \A c \in Cores : pending'[c] # <<>> => made'[c] < Len(Menu[c])
    BY <1>2, <1>6, <1>w, <2>3
  <2> QED BY <1>6, <1>w, <2>2, <2>4
<1>7. CASE /\ ~CommandFaults(transport, core, a.command)
           /\ ~HeldBack(transport, a.command)
           /\ registers' = [registers EXCEPT ![core] = a.registers]
           /\ transport' = Execute(transport, core, a.command)
           /\ made' = [made EXCEPT ![core] = @ + 1]
           /\ pending' = [pending EXCEPT ![core] = <<>>]
  <2>1. TransportInv(transport')
    BY <1>3, <1>7, <1>w, ExecuteStep
  <2>2. registers' \in [Cores -> Registers]
    BY <1>3, <1>7, <1>w
  <2>3. <<>> \in Seq(Accesses)
    OBVIOUS
  <2>4. pending' \in [Cores -> Seq(Accesses)] /\ pending'[core] = <<>> /\ \A c \in Cores : c # core => pending'[c] = pending[c]
    BY <1>7, <1>w, <2>3
  <2>5. made' \in [Cores -> Nat] /\ made'[core] = made[core] + 1 /\ \A c \in Cores : c # core => made'[c] = made[c]
    BY <1>7, <1>w
  <2>6. made[core] + 1 <= Len(Menu[core])
    <3>1. Len(Menu[core]) \in Nat
      BY DecoderAssumption DEF Cores
    <3> QED BY <1>2, <1>w, <3>1
  <2>7. \A c \in Cores : /\ made'[c] <= Len(Menu[c])
                         /\ pending'[c] # <<>> => made'[c] < Len(Menu[c])
    BY <1>w, <2>4, <2>5, <2>6
  <2> QED BY <2>1, <2>2, <2>4, <2>5, <2>7
<1> QED BY <1>4, <1>5, <1>6, <1>7

-----------------------------------------------------------------------------
(* The invariant, slots and stalls.                                        *)

\* The registers after a reset.
LEMMA ClearRegisters == ClearMmio \in Registers
<1>1. ZeroWord \in [1..WordBits -> {0, 1}]
  BY DEF ZeroWord
<1> QED BY <1>1 DEF ClearMmio, Registers

\* The simulation begins in a state of the invariant.
LEMMA InitInv == Init => Inv
<1> SUFFICES ASSUME Init PROVE Inv
  OBVIOUS
<1>1. transport = ClearTransport(1) /\ settled = FALSE
  BY DEF Init
<1>2. TransportInv(transport) /\ Idle(transport, now)
  BY <1>1, ClearTransportIs
<1>3. ClearMmio \in Registers
  BY ClearRegisters
<1>4. <<>> \in Seq(Accesses)
  OBVIOUS
<1>5. \A core \in Cores : Len(Menu[core]) \in Nat
  BY DecoderAssumption DEF Cores
<1>6. WorldInv
  <2>1. now \in Nat /\ epoch \in Nat /\ served \in 0..CoreCount /\ settled \in BOOLEAN /\ ~settled
    <3>1. 0 \in 0..CoreCount /\ 0 \in Nat /\ 1 \in Nat
      BY ConstantsNat
    <3>2. now = 0 /\ epoch = 1 /\ served = 0 /\ settled = FALSE
      BY DEF Init
    <3> QED BY <3>1, <3>2, Zenon
  <2>2. /\ registers \in [Cores -> Registers] /\ made \in [Cores -> Nat] /\ pending \in [Cores -> Seq(Accesses)]
    BY <1>3, <1>4 DEF Init
  <2>3. \A core \in Cores : made[core] = 0 /\ pending[core] = <<>>
    BY DEF Init
  <2>4. \A core \in Cores : /\ made[core] <= Len(Menu[core])
                            /\ pending[core] # <<>> => made[core] < Len(Menu[core])
    BY <1>5, <2>3
  <2> QED BY <2>1, <2>2, <2>4 DEF WorldInv
<1> QED BY <1>2, <1>6 DEF Inv

\* Every step keeps it.
LEMMA NextInv == Inv /\ [Next]_vars => Inv'
<1> SUFFICES ASSUME Inv, [Next]_vars PROVE Inv'
  OBVIOUS
<1>1. WorldInv /\ TransportInv(transport) /\ (Running /\ settled => Idle(transport, now))
  BY DEF Inv
<1>w. /\ now \in Nat /\ epoch \in Nat /\ served \in 0..CoreCount /\ settled \in BOOLEAN
      /\ (settled => (OnEdge => served = CoreCount))
      /\ registers \in [Cores -> Registers]
      /\ made \in [Cores -> Nat] /\ pending \in [Cores -> Seq(Accesses)]
      /\ \A core \in Cores : /\ made[core] <= Len(Menu[core])
                             /\ pending[core] # <<>> => made[core] < Len(Menu[core])
  BY <1>1 DEF WorldInv
<1>2. CASE MemoryEdge
  <2>1. /\ OnEdge /\ served < CoreCount /\ served' = served + 1 /\ UNCHANGED <<now, epoch, settled>>
    BY <1>2 DEF MemoryEdge
  <2>2. served + 1 \in Cores
    BY <1>w, <2>1, ConstantsNat DEF Cores
  <2>3. /\ TransportInv(transport')
        /\ registers' \in [Cores -> Registers]
        /\ made' \in [Cores -> Nat] /\ pending' \in [Cores -> Seq(Accesses)]
        /\ \A c \in Cores : /\ made'[c] <= Len(Menu[c])
                            /\ pending'[c] # <<>> => made'[c] < Len(Menu[c])
    <3>1. CASE Access(served + 1)
      BY <1>1, <2>2, <3>1, AccessStep
    <3>2. CASE UNCHANGED <<transport, registers, cpuVars, historyVars>>
      BY <1>1, <1>w, <3>2 DEF cpuVars
    <3> QED BY <1>2, <3>1, <3>2 DEF MemoryEdge
  <2>4. ~settled
    BY <1>w, <2>1, ConstantsNat
  <2>5. ~settled' /\ served' \in 0..CoreCount
    BY <1>w, <2>1, <2>4, ConstantsNat
  <2>6. WorldInv'
    BY <1>w, <2>1, <2>3, <2>5 DEF WorldInv
  <2> QED BY <2>3, <2>5, <2>6 DEF Inv
<1>3. CASE Barrier
  <2>1. /\ transport' = StepTransport(transport, now) /\ settled' = TRUE
        /\ UNCHANGED <<registers, now, epoch, served, cpuVars>>
        /\ (OnEdge => served = CoreCount)
    BY <1>3 DEF Barrier
  <2>2. TransportInv(transport') /\ Idle(transport', now')
    BY <1>1, <1>w, <2>1, StepIdle
  <2>3. WorldInv'
    BY <1>w, <2>1 DEF WorldInv, cpuVars, OnEdge
  <2> QED BY <2>2, <2>3 DEF Inv
<1>4. CASE AdvanceTick
  <2>1. /\ served' = 0 /\ settled' = FALSE /\ UNCHANGED <<transport, registers, epoch, cpuVars>>
        /\ now' \in IF epoch < MaxEpoch THEN (now + 1)..NextTick ELSE {NextTick}
    BY <1>4 DEF AdvanceTick
  <2>2. now' \in Nat
    BY <1>1, <1>w, <2>1, NextTickIs
  <2>3. WorldInv'
    <3>1. served' \in 0..CoreCount /\ settled' \in BOOLEAN /\ ~settled'
      <4>1. 0 \in 0..CoreCount
        BY ConstantsNat
      <4> QED BY <2>1, <4>1, Zenon
    <3> QED BY <1>w, <2>1, <2>2, <3>1 DEF WorldInv, cpuVars
  <2>4. TransportInv(transport')
    BY <1>1, <2>1
  <2> QED BY <2>1, <2>3, <2>4 DEF Inv
<1>5. CASE ResetSession
  <2>1. /\ epoch' = epoch + 1 /\ transport' = ClearTransport(transport.next)
        /\ registers' = [core \in Cores |-> ClearMmio] /\ served' = CoreCount /\ settled' = TRUE
        /\ made' = [core \in Cores |-> 0] /\ pending' = [core \in Cores |-> <<>>] /\ UNCHANGED now
    BY <1>5 DEF ResetSession
  <2>2. transport.next \in Nat
    BY <1>1 DEF TransportInv, TypeInv
  <2>3. TransportInv(transport') /\ Idle(transport', now')
    BY <2>1, <2>2, ClearTransportIs
  <2>4. ClearMmio \in Registers
    BY ClearRegisters
  <2>5. <<>> \in Seq(Accesses)
    OBVIOUS
  <2>6. \A core \in Cores : Len(Menu[core]) \in Nat
    BY DecoderAssumption DEF Cores
  <2>7. WorldInv'
    BY <1>w, <2>1, <2>4, <2>5, <2>6, ConstantsNat DEF WorldInv
  <2> QED BY <2>3, <2>7 DEF Inv
<1>6. CASE UNCHANGED vars
  BY <1>1, <1>6 DEF vars, cpuVars, historyVars, Inv, WorldInv, Running, OnEdge
<1> QED BY <1>2, <1>3, <1>4, <1>5, <1>6 DEF Next, Stopped

\* The inductive invariant of the decoder system holds in every reachable state,
\* for any number of cores and decoders, any capacities and any programs: step,
\* access and reset of DecoderSystem keep identities, links, slots and jobs in
\* order, and after its barrier the transport has nothing left to do at its tick.
THEOREM DecoderInvariant == Spec => []Inv
BY InitInv, NextInv, PTL DEF Spec

\* The invariant implies that slots match jobs.
LEMMA InvSlots == Inv => ResultSlotsMatchJobs
<1> SUFFICES ASSUME Inv PROVE ResultSlotsMatchJobs
  OBVIOUS
<1> DEFINE t == transport
<1>1. /\ Reserved(t) <= ResultCapacity
      /\ \A x, y \in Jobs(t) : Owner(x) = Owner(y) => x = y
      /\ \A c \in Clients : t.sessions[c].submitted <=> \E j \in Jobs(t) : Owner(j) = c
      /\ \A i, j \in 1..Len(t.jobs) : t.jobs[i] = t.jobs[j] => i = j
  BY DEF Inv, TransportInv, SlotInv, TypeInv, Lists
<1>2. ASSUME NEW c \in Clients
      PROVE  Cardinality({i \in 1..Len(t.jobs) : Owner(t.jobs[i]) = c})
               = IF t.sessions[c].submitted THEN 1 ELSE 0
  <2> DEFINE P == {i \in 1..Len(t.jobs) : Owner(t.jobs[i]) = c}
  <2>1. CASE t.sessions[c].submitted
    <3>1. PICK j \in Jobs(t) : Owner(j) = c
      BY <1>1, <2>1
    <3>2. PICK i \in 1..Len(t.jobs) : t.jobs[i] = j
      BY <3>1 DEF Jobs
    <3>3. P = {i}
      BY <1>1, <3>1, <3>2 DEF Jobs
    <3>4. Cardinality({i}) = 1
      BY FS_Singleton
    <3> QED BY <2>1, <3>3, <3>4
  <2>2. CASE ~t.sessions[c].submitted
    <3>1. P = {}
      BY <1>1, <2>2 DEF Jobs
    <3> QED BY <2>2, <3>1, FS_EmptySet
  <2> QED BY <2>1, <2>2
<1> QED BY <1>1, <1>2 DEF ResultSlotsMatchJobs

\* Result slots are never overbooked, and a session is marked as submitted
\* exactly while it has a job, and then one (admit_requests, advance_jobs and the
\* cancellation by a reset).
THEOREM ResultSlots == Spec => []ResultSlotsMatchJobs
BY DecoderInvariant, InvSlots, PTL

\* The invariant implies that only a full set of unread results stalls the queue.
LEMMA InvStall == Inv => StallNeedsConsumer
<1> SUFFICES ASSUME Inv, Running, settled, Due(transport) = {}, transport.requests # <<>>
             PROVE  Cardinality({c \in Clients : IsReady(transport, c)}) >= ResultCapacity
  BY DEF StallNeedsConsumer
<1> DEFINE t == transport
<1>1. Idle(t, now) /\ TransportInv(t) /\ now \in Nat /\ t.fault = "None"
  BY DEF Inv, WorldInv, Running
<1>2. \A b \in Boundaries(t) : ~(b > now) /\ b \in Nat
  BY <1>1, BoundariesNat DEF Due
<1>3. \A j \in Jobs(t) : FALSE
  <2> SUFFICES ASSUME NEW j \in Jobs(t) PROVE FALSE
    OBVIOUS
  <2>1. IsJob(j)
    BY <1>1 DEF TransportInv, TypeInv
  <2>2. WorkOf(t, j) \subseteq Boundaries(t)
    BY BoundariesAre
  <2>3. /\ j.completion <= now => j.completed
        /\ j.arrival # <<>> => now < j.arrival[1]
    BY <1>1 DEF Idle, JobsUpTo
  <2>4. j.completion \in Boundaries(t)
    BY <2>2 DEF WorkOf
  <2>5. j.completed
    BY <1>1, <1>2, <2>3, <2>4
  <2>6. j.arrival = <<>>
    <3> SUFFICES ASSUME j.arrival # <<>> PROVE FALSE
      OBVIOUS
    <3>1. j.arrival[1] \in Boundaries(t)
      BY <2>2 DEF WorkOf
    <3> QED BY <1>1, <1>2, <2>3, <3>1
  <2>7. t.rx_available \in Boundaries(t)
    BY <2>2, <2>5, <2>6 DEF WorkOf
  <2>8. Unsent(t) # {}
    BY <2>5, <2>6 DEF Unsent, Jobs
  <2>9. now < t.rx_available
    BY <1>1, <2>8 DEF Idle
  <2> QED BY <1>1, <1>2, <2>7, <2>9
<1>4. \A c \in Clients : ~t.sessions[c].submitted
  BY <1>1, <1>3 DEF TransportInv, SlotInv
<1>5. Reserved(t) = Cardinality({c \in Clients : IsReady(t, c)})
  <2>1. {c \in Clients : t.sessions[c].result # <<>> \/ t.sessions[c].submitted} = {c \in Clients : IsReady(t, c)}
    BY <1>4 DEF IsReady
  <2> QED BY <2>1 DEF Reserved
<1>6. t.requests[1] \in Packets(t) /\ t.requests[1] \in Packet
  <2>1. Lists(t.requests, Requests(t)) /\ Requests(t) \subseteq Packet
    BY <1>1 DEF TransportInv, TypeInv
  <2> QED BY <2>1, ListsTail DEF Packets
<1>7. t.requests[1].arrival <= now /\ Owner(t.requests[1]) \in Clients
  <2>1. t.requests[1].arrival \in Boundaries(t)
    BY <1>6, BoundariesAre DEF TicksOf
  <2> QED BY <1>1, <1>2, <1>6, <2>1, PacketFields
<1>8. ~Admissible(t, now)
  BY <1>1 DEF Idle
<1>9. Reserved(t) >= ResultCapacity
  BY <1>1, <1>4, <1>7, <1>8 DEF Admissible
<1> QED BY <1>5, <1>9

\* Requests that wait while nothing is under way wait for a consumer, never for
\* anything else (the conditions of admit_requests and next_boundary).
THEOREM StallOnlyForConsumer == Spec => []StallNeedsConsumer
BY DecoderInvariant, InvStall, PTL

-----------------------------------------------------------------------------
(* Skipped ticks.                                                          *)

\* A transport that is idle at a tick stays so until its next boundary.
LEMMA IdleLater ==
  ASSUME NEW t, TransportInv(t), NEW n \in Nat, NEW tick \in Nat, n <= tick, Idle(t, n),
         \A b \in Boundaries(t) : b > n => tick < b
  PROVE  Idle(t, tick)
<1>1. /\ Requests(t) \subseteq Packet /\ Resets(t) \subseteq Packet
      /\ \A j \in Jobs(t) : IsJob(j)
      /\ t.rx_available \in Nat
  BY DEF TransportInv, TypeInv, Resets
<1>2. SentUpTo(t, n) /\ JobsUpTo(t, n) /\ ~Admissible(t, n) /\ (Unsent(t) # {} => n < t.rx_available)
  BY DEF Idle
<1>3. SentUpTo(t, tick)
  <2>1. ASSUME NEW p \in Packets(t), p.sent <= tick PROVE p.transmitted
    <3> SUFFICES ASSUME ~p.transmitted PROVE FALSE
      OBVIOUS
    <3>1. p.sent \in Boundaries(t)
      BY BoundariesAre DEF TicksOf
    <3>2. p.sent \in Nat
      BY <1>1, PacketFields DEF Packets
    <3>3. n < p.sent
      BY <1>2, <3>2 DEF SentUpTo
    <3> QED BY <2>1, <3>1, <3>2, <3>3
  <2>2. ASSUME NEW p \in Resets(t) PROVE tick < p.arrival
    <3>1. p.arrival \in Boundaries(t)
      BY BoundariesAre DEF TicksOf, Packets
    <3>2. p.arrival \in Nat /\ n < p.arrival
      BY <1>1, <1>2, PacketFields DEF SentUpTo
    <3> QED BY <3>1, <3>2
  <2> QED BY <2>1, <2>2 DEF SentUpTo
<1>4. JobsUpTo(t, tick)
  <2> SUFFICES ASSUME NEW j \in Jobs(t)
               PROVE  /\ j.start <= tick => j.started
                      /\ j.completion <= tick => j.completed
                      /\ j.arrival # <<>> => tick < j.arrival[1]
    BY DEF JobsUpTo
  <2>1. j.start \in Nat /\ j.completion \in Nat /\ (j.arrival # <<>> => j.arrival[1] \in Nat)
    BY <1>1, JobFields
  <2>2. j.start \in Boundaries(t) /\ j.completion \in Boundaries(t)
        /\ (j.arrival # <<>> => j.arrival[1] \in Boundaries(t))
    BY BoundariesAre DEF WorkOf
  <2>3. /\ j.start <= n => j.started
        /\ j.completion <= n => j.completed
        /\ j.arrival # <<>> => n < j.arrival[1]
    BY <1>2 DEF JobsUpTo
  <2>4. (j.start <= tick => j.start <= n) /\ (j.completion <= tick => j.completion <= n)
    BY <2>1, <2>2
  <2>5. j.arrival # <<>> => tick < j.arrival[1]
    BY <2>1, <2>2, <2>3
  <2> QED BY <2>3, <2>4, <2>5
<1>5. ~Admissible(t, tick)
  <2> SUFFICES ASSUME Admissible(t, tick) PROVE FALSE
    OBVIOUS
  <2>1. t.requests # <<>> /\ t.requests[1].arrival <= tick
    BY DEF Admissible
  <2>2. t.requests[1] \in Requests(t)
    BY <2>1, ListsTail DEF TransportInv, TypeInv
  <2>3. t.requests[1].arrival \in Nat /\ t.requests[1].arrival \in Boundaries(t)
    BY <1>1, <2>2, PacketFields, BoundariesAre DEF TicksOf, Packets
  <2>4. t.requests[1].arrival <= n
    BY <2>1, <2>3
  <2> QED BY <1>2, <2>4 DEF Admissible
<1>6. Unsent(t) # {} => tick < t.rx_available
  <2> SUFFICES ASSUME NEW i \in Unsent(t) PROVE tick < t.rx_available
    OBVIOUS
  <2>1. t.jobs[i] \in Jobs(t) /\ t.jobs[i].completed /\ t.jobs[i].arrival = <<>>
    BY DEF Unsent, Jobs
  <2>2. t.rx_available \in Boundaries(t)
    BY <2>1, BoundariesAre DEF WorkOf
  <2> QED BY <1>1, <1>2, <2>2
<1> QED BY <1>3, <1>4, <1>5, <1>6 DEF Idle

\* An idle transport has nothing to do on the request link.
LEMMA TransmissionIdle ==
  ASSUME NEW t, TransportInv(t), NEW tick \in Nat, SentUpTo(t, tick)
  PROVE  AdvanceTransmission(t, tick) = t
<1> DEFINE all == [t EXCEPT !.requests = [i \in 1..Len(@) |-> SentBy(@[i], tick)],
                            !.reset_request = [i \in 1..Len(@) |-> SentBy(@[i], tick)]]
<1>1. ~ResetArrives(t, tick)
  <2> SUFFICES ASSUME ResetArrives(t, tick) PROVE FALSE
    OBVIOUS
  <2>1. t.reset_request \in Seq(Packet) /\ t.reset_request # <<>> /\ t.reset_request[1].arrival <= tick
    BY DEF TransportInv, TypeInv, ResetArrives
  <2>2. t.reset_request[1] \in Resets(t) /\ t.reset_request[1] \in Packet
    BY <2>1 DEF Resets
  <2>3. tick < t.reset_request[1].arrival /\ t.reset_request[1].arrival \in Nat
    BY <2>2, PacketFields DEF SentUpTo
  <2> QED BY <2>1, <2>3
<1>2. AdvanceTransmission(t, tick) = all
  BY <1>1 DEF AdvanceTransmission, SentBy
<1>3. \A p \in Packets(t) : p \in Packet /\ SentBy(p, tick) = p
  <2>1. Packets(t) \subseteq Packet
    BY DEF TransportInv, TypeInv, Resets, Packets
  <2> QED BY <2>1, SentByIs DEF SentUpTo
<1>4. [i \in 1..Len(t.requests) |-> SentBy(t.requests[i], tick)] = t.requests
  <2>1. IsSeq(t.requests)
    BY ListsSeq DEF TransportInv, TypeInv
  <2>2. t.requests = [i \in 1..Len(t.requests) |-> t.requests[i]]
    BY <2>1 DEF IsSeq
  <2>3. \A i \in 1..Len(t.requests) : SentBy(t.requests[i], tick) = t.requests[i]
    BY <1>3 DEF Packets, Requests
  <2> QED BY <2>2, <2>3
<1>5. [i \in 1..Len(t.reset_request) |-> SentBy(t.reset_request[i], tick)] = t.reset_request
  <2>1. t.reset_request \in Seq(Packet)
    BY DEF TransportInv, TypeInv
  <2>2. t.reset_request = [i \in 1..Len(t.reset_request) |-> t.reset_request[i]]
    BY <2>1
  <2>3. \A i \in 1..Len(t.reset_request) : SentBy(t.reset_request[i], tick) = t.reset_request[i]
    BY <1>3 DEF Packets, Resets
  <2> QED BY <2>2, <2>3
<1>6. all = [t EXCEPT !.requests = t.requests, !.reset_request = t.reset_request]
  BY <1>4, <1>5
<1>7. IsTransport(t)
  BY DEF TransportInv, TypeInv
<1>8. [t EXCEPT !.requests = t.requests, !.reset_request = t.reset_request] = t
  BY <1>7 DEF IsTransport
<1> HIDE DEF all
<1> QED BY <1>2, <1>6, <1>8

\* Nor at the decoders.
LEMMA JobsIdle ==
  ASSUME NEW t, TransportInv(t), NEW tick \in Nat, JobsUpTo(t, tick)
  PROVE  AdvanceJobs(t, tick) = t
<1> DEFINE jobs == [i \in 1..Len(t.jobs) |-> Progress(t.jobs[i], tick)]
           out(c) == At(jobs, {i \in 1..Len(jobs) : Returned(jobs[i], tick) /\ Owner(jobs[i]) = c})
           left == At(jobs, {i \in 1..Len(jobs) : ~Returned(jobs[i], tick)})
<1>1. AdvanceJobs(t, tick) =
        [t EXCEPT !.jobs = left, !.sessions = [c \in Clients |-> SessionAfter(@[c], out(c))]]
  BY DEF AdvanceJobs, Progress
<1>2. \A j \in Jobs(t) : IsJob(j) /\ Progress(j, tick) = j /\ ~Returned(j, tick)
  <2> SUFFICES ASSUME NEW j \in Jobs(t) PROVE IsJob(j) /\ Progress(j, tick) = j /\ ~Returned(j, tick)
    OBVIOUS
  <2>1. IsJob(j)
    BY DEF TransportInv, TypeInv
  <2>2. /\ j.start <= tick => j.started
        /\ j.completion <= tick => j.completed
        /\ j.arrival # <<>> => tick < j.arrival[1]
    BY DEF JobsUpTo
  <2>3. Progress(j, tick) = j
    BY <2>1, <2>2, ProgressIs
  <2>4. ~Returned(j, tick)
    BY <2>1, <2>2, JobFields DEF Returned
  <2> QED BY <2>1, <2>3, <2>4
<1>3. IsSeq(t.jobs)
  BY ListsSeq DEF TransportInv, TypeInv
<1>4. jobs = t.jobs
  <2>2. t.jobs = [i \in 1..Len(t.jobs) |-> t.jobs[i]]
    BY <1>3 DEF IsSeq
  <2>3. \A i \in 1..Len(t.jobs) : Progress(t.jobs[i], tick) = t.jobs[i]
    BY <1>2 DEF Jobs
  <2> QED BY <2>2, <2>3
<1> HIDE DEF jobs
<1>5. \A i \in 1..Len(jobs) : ~Returned(jobs[i], tick)
  BY <1>2, <1>4 DEF Jobs
<1>6. left = t.jobs
  <2> DEFINE P == {i \in 1..Len(jobs) : ~Returned(jobs[i], tick)}
  <2>1. IsSeq(jobs) /\ \A i \in 1..Len(jobs) : i \in P
    BY <1>3, <1>4, <1>5
  <2> HIDE DEF P
  <2>2. At(jobs, P) = jobs
    BY <2>1, AtAll
  <2> QED BY <1>4, <2>2 DEF P
<1>7. ASSUME NEW c PROVE out(c) = <<>>
  <2> DEFINE P == {i \in 1..Len(jobs) : Returned(jobs[i], tick) /\ Owner(jobs[i]) = c}
  <2>1. IsSeq(jobs) /\ P = {}
    BY <1>3, <1>4, <1>5
  <2>2. IsSeq(At(jobs, P)) /\ \A k \in 1..Len(At(jobs, P)) : \E i \in 1..Len(jobs) : i \in P
    BY <2>1, AtSeq
  <2> DEFINE s == At(jobs, P)
  <2>3. IsSeq(s) /\ \A k \in 1..Len(s) : FALSE
    BY <2>1, <2>2
  <2> SUFFICES s = <<>>
    OBVIOUS
  <2> HIDE DEF s
  <2>4. Len(s) \in Nat /\ (Len(s) = 0 <=> s = <<>>)
    BY <2>3, IsSeqLen
  <2>5. Len(s) = 0
    BY <2>3, <2>4
  <2> QED BY <2>4, <2>5
<1> HIDE DEF out, left
<1>8. [c \in Clients |-> SessionAfter(t.sessions[c], out(c))] = t.sessions
  <2>1. t.sessions = [c \in Clients |-> t.sessions[c]]
    BY DEF TransportInv, TypeInv
  <2>2. \A c \in Clients : SessionAfter(t.sessions[c], out(c)) = t.sessions[c]
    BY <1>7 DEF SessionAfter
  <2> QED BY <2>1, <2>2
<1>9. AdvanceJobs(t, tick) = [t EXCEPT !.jobs = t.jobs, !.sessions = t.sessions]
  BY <1>1, <1>6, <1>8
<1>10. IsTransport(t)
  BY DEF TransportInv, TypeInv
<1>11. [t EXCEPT !.jobs = t.jobs, !.sessions = t.sessions] = t
  BY <1>10 DEF IsTransport
<1> QED BY <1>9, <1>11

\* Nor in the queue.
LEMMA AdmitIdle ==
  ASSUME NEW t, TransportInv(t), NEW tick, ~Admissible(t, tick)
  PROVE  AdmitRequests(t, tick) = t
<1> DEFINE L == Len(t.requests)
<1>1. L \in Nat
  BY ListsSeq DEF TransportInv, TypeInv
<1>f. PICK f : Passes(t, tick, L, f)
  BY <1>1, AdmitIs
<1>2. /\ AdmitRequests(t, tick) = f[L] /\ f[0] = t
      /\ \A n \in 1..L : f[n] = Turn(f[n - 1], tick)
  BY <1>f DEF Passes
<1> DEFINE S == {n \in 0..L : f[n] = t}
<1> HIDE DEF L
<1>3. 0 \in S
  BY <1>1, <1>2
<1>4. \A n \in 0..(L - 1) : n \in S => n + 1 \in S
  <2> SUFFICES ASSUME NEW n \in 0..(L - 1), f[n] = t PROVE f[n + 1] = t /\ n + 1 \in 0..L
    OBVIOUS
  <2>1. n + 1 \in 1..L /\ (n + 1) - 1 = n /\ n + 1 \in 0..L
    BY <1>1
  <2>2. f[n + 1] = Turn(f[n], tick)
    BY <1>2, <2>1
  <2> QED BY <2>1, <2>2 DEF Turn
<1>5. \A n \in 0..L : n \in S
  <2> HIDE DEF S
  <2> QED BY <1>1, <1>3, <1>4, UpTo
<1>6. L \in 0..L
  BY <1>1
<1> QED BY <1>2, <1>5, <1>6

\* So a step of an idle transport changes nothing.
LEMMA IdleStutters ==
  ASSUME NEW t, TransportInv(t), NEW tick \in Nat, Idle(t, tick)
  PROVE  StepTransport(t, tick) = t
<1>1. SentUpTo(t, tick) /\ JobsUpTo(t, tick) /\ ~Admissible(t, tick) /\ (Unsent(t) # {} => tick < t.rx_available)
  BY DEF Idle
<1>2. AdvanceTransmission(t, tick) = t /\ AdvanceJobs(t, tick) = t /\ AdmitRequests(t, tick) = t
  BY <1>1, TransmissionIdle, JobsIdle, AdmitIdle
<1>3. TransmitResult(t, tick) = t
  <2>1. t.rx_available \in Nat
    BY DEF TransportInv, TypeInv
  <2>2. t.rx_available > tick \/ Unsent(t) = {}
    BY <1>1, <2>1
  <2> QED BY <2>2 DEF TransmitResult
<1> QED BY <1>2, <1>3 DEF StepTransport

\* The invariant implies that skipped ticks are idle.
LEMMA InvSkipped == Inv => SkippedTicksAreIdle
<1> SUFFICES ASSUME Inv, Running, settled, NEW tick \in now..(NextTick - 1)
             PROVE  StepTransport(transport, tick) = transport
  BY DEF SkippedTicksAreIdle
<1>1. now \in Nat /\ TransportInv(transport) /\ Idle(transport, now)
  BY DEF Inv, WorldInv
<1>2. NextTick \in Nat /\ \A b \in Due(transport) : NextTick <= b
  BY <1>1, NextTickIs
<1>3. tick \in Nat /\ now <= tick /\ tick < NextTick
  BY <1>1, <1>2
<1>4. \A b \in Boundaries(transport) : b > now => tick < b
  BY <1>1, <1>2, <1>3, BoundariesNat DEF Due
<1>5. Idle(transport, tick)
  BY <1>1, <1>3, <1>4, IdleLater
<1> QED BY <1>1, <1>3, <1>5, IdleStutters

\* The ticks that next_boundary skips, and a second barrier at the same tick,
\* would not change the transport: the event-driven simulation equals one that
\* steps on every tick.
THEOREM SkippedTicks == Spec => []SkippedTicksAreIdle
BY DecoderInvariant, InvSkipped, PTL

-----------------------------------------------------------------------------
(* The bits that packets spell.                                            *)

\* A measurement bit.
Bit == {0, 1}

\* The bits of the packets of s that are in X, one after the other, are T.
BitStep(s, X, n, v) == IF s[n] \in X THEN v \o s[n].bits ELSE v
Spelling(s, X, f) == f[0] = <<>> /\ \A n \in 1..Len(s) : f[n] = BitStep(s, X, n, f[n - 1])
Spells(s, X, T) == \E f \in [0..Len(s) -> Seq(Bit)] : Spelling(s, X, f) /\ f[Len(s)] = T

\* No packets spell nothing.
LEMMA SpellsEmpty == \A X : Spells(<<>>, X, <<>>)
<1> TAKE X
<1> DEFINE f == [n \in 0..Len(<<>>) |-> <<>>]
<1>1. Len(<<>>) = 0 /\ <<>> \in Seq(Bit)
  OBVIOUS
<1>2. f \in [0..Len(<<>>) -> Seq(Bit)] /\ f[0] = <<>>
  BY <1>1
<1>3. \A n \in 1..Len(<<>>) : FALSE
  BY <1>1
<1> HIDE DEF f
<1>4. Spelling(<<>>, X, f)
  BY <1>2, <1>3 DEF Spelling
<1> QED BY <1>1, <1>2, <1>4 DEF Spells

\* A packet at the end adds its bits if it counts.
LEMMA SpellsAppend ==
  ASSUME NEW s, IsSeq(s), NEW X, X \subseteq Packet, NEW T, Spells(s, X, T), NEW x
  PROVE  Spells(Append(s, x), X, IF x \in X THEN T \o x.bits ELSE T)
<1> DEFINE u == Append(s, x)
           L == Len(s)
           V == IF x \in X THEN T \o x.bits ELSE T
<1>0. /\ L \in Nat /\ Len(u) = L + 1 /\ u[L + 1] = x /\ \A i \in 1..L : u[i] = s[i]
  BY IsSeqLen, IsSeqAppend
<1>1. PICK f \in [0..L -> Seq(Bit)] : Spelling(s, X, f) /\ f[L] = T
  BY DEF Spells
<1>2. T \in Seq(Bit)
  BY <1>0, <1>1
<1>3. V \in Seq(Bit)
  <2>1. CASE x \in X
    <3>1. x.bits \in Seq(Bit)
      BY <2>1, PacketFields DEF Bit
    <3>2. \A a, b \in Seq(Bit) : a \o b \in Seq(Bit)
      OBVIOUS
    <3> QED BY <1>2, <2>1, <3>1, <3>2
  <2> QED BY <1>2, <2>1
<1> HIDE DEF u, L, V
<1> DEFINE g == [n \in 0..(L + 1) |-> IF n <= L THEN f[n] ELSE V]
<1>4. g \in [0..(L + 1) -> Seq(Bit)]
  BY <1>0, <1>1, <1>3
<1>5. \A n \in 0..L : g[n] = f[n]
  BY <1>0
<1>6. g[L + 1] = V
  BY <1>0
<1> HIDE DEF g
<1>7. ASSUME NEW n \in 1..(L + 1) PROVE g[n] = BitStep(u, X, n, g[n - 1])
  <2>1. CASE n \in 1..L
    <3>1. n \in 0..L /\ n - 1 \in 0..L /\ u[n] = s[n]
      BY <1>0, <2>1
    <3>2. f[n] = BitStep(s, X, n, f[n - 1])
      BY <1>1, <2>1 DEF Spelling, L
    <3> QED BY <1>5, <3>1, <3>2 DEF BitStep
  <2>2. CASE n = L + 1
    <3>1. n - 1 = L /\ L \in 0..L
      BY <1>0, <2>2
    <3>2. g[n - 1] = T
      BY <1>1, <1>5, <3>1
    <3>3. BitStep(u, X, n, T) = V
      BY <1>0, <2>2 DEF BitStep, V
    <3> QED BY <1>6, <2>2, <3>2, <3>3
  <2> QED BY <1>0, <2>1, <2>2
<1>8. g[0] = <<>>
  BY <1>0, <1>1, <1>5 DEF Spelling
<1>9. Spelling(u, X, g) /\ g[Len(u)] = V /\ g \in [0..Len(u) -> Seq(Bit)]
  BY <1>0, <1>4, <1>6, <1>7, <1>8 DEF Spelling
<1> QED BY <1>9 DEF Spells, u, V

\* Only the bits of the packets and whether they count matter.
LEMMA SpellsSame ==
  ASSUME NEW s, NEW u, Len(u) = Len(s), NEW X, NEW Y, NEW T, Spells(s, X, T),
         \A i \in 1..Len(s) : (s[i] \in X <=> u[i] \in Y) /\ u[i].bits = s[i].bits
  PROVE  Spells(u, Y, T)
<1>1. PICK f \in [0..Len(s) -> Seq(Bit)] : Spelling(s, X, f) /\ f[Len(s)] = T
  BY DEF Spells
<1>2. Spelling(u, Y, f)
  BY <1>1 DEF Spelling, BitStep
<1> QED BY <1>1, <1>2 DEF Spells

\* If no packet counts, they spell nothing.
LEMMA SpellsNone ==
  ASSUME NEW s, Len(s) \in Nat, NEW X, \A i \in 1..Len(s) : s[i] \notin X
  PROVE  /\ Spells(s, X, <<>>)
         /\ \A T : Spells(s, X, T) => T = <<>>
<1>1. Spells(s, X, <<>>)
  <2> DEFINE f == [n \in 0..Len(s) |-> <<>>]
  <2>1. <<>> \in Seq(Bit)
    OBVIOUS
  <2>2. f \in [0..Len(s) -> Seq(Bit)] /\ f[Len(s)] = <<>> /\ Spelling(s, X, f)
    BY <2>1 DEF Spelling, BitStep
  <2> HIDE DEF f
  <2> QED BY <2>2 DEF Spells
<1>2. ASSUME NEW T, Spells(s, X, T) PROVE T = <<>>
  <2>1. PICK f \in [0..Len(s) -> Seq(Bit)] : Spelling(s, X, f) /\ f[Len(s)] = T
    BY <1>2 DEF Spells
  <2> DEFINE S == {n \in 0..Len(s) : f[n] = <<>>}
  <2>2. 0 \in S
    BY <2>1 DEF Spelling
  <2>3. \A n \in 0..(Len(s) - 1) : n \in S => n + 1 \in S
    <3> SUFFICES ASSUME NEW n \in 0..(Len(s) - 1), f[n] = <<>> PROVE f[n + 1] = <<>>
      OBVIOUS
    <3>1. n + 1 \in 1..Len(s) /\ (n + 1) - 1 = n
      OBVIOUS
    <3>2. f[n + 1] = BitStep(s, X, n + 1, f[n])
      BY <2>1, <3>1 DEF Spelling
    <3> QED BY <3>1, <3>2 DEF BitStep
  <2>4. \A n \in 0..Len(s) : n \in S
    <3> HIDE DEF S
    <3> QED BY <2>2, <2>3, UpTo
  <2> QED BY <2>1, <2>4
<1> QED BY <1>1, <1>2

\* Dropping packets that do not count changes nothing.
LEMMA SpellsKept ==
  ASSUME NEW s, IsSeq(s), NEW X, X \subseteq Packet, NEW T, Spells(s, X, T), NEW P,
         \A i \in 1..Len(s) : i \notin P => s[i] \notin X
  PROVE  Spells(At(s, P), X, T)
<1>0. Len(s) \in Nat
  BY IsSeqLen
<1>1. PICK f \in [0..Len(s) -> Seq(Bit)] : Spelling(s, X, f) /\ f[Len(s)] = T
  BY DEF Spells
<1>2. PICK g : /\ At(s, P) = g[Len(s)]
               /\ g[0] = <<>>
               /\ \A n \in 1..Len(s) : g[n] = AtStep(s, P, n, g[n - 1])
  BY <1>0, AtIs
<1> DEFINE S == {n \in 0..Len(s) : IsSeq(g[n]) /\ Spells(g[n], X, f[n])}
<1>3. 0 \in S
  BY <1>0, <1>1, <1>2, SpellsEmpty, IsSeqEmpty DEF Spelling
<1>4. \A n \in 0..(Len(s) - 1) : n \in S => n + 1 \in S
  <2> SUFFICES ASSUME NEW n \in 0..(Len(s) - 1), IsSeq(g[n]), Spells(g[n], X, f[n])
               PROVE  IsSeq(g[n + 1]) /\ Spells(g[n + 1], X, f[n + 1])
    BY <1>0
  <2>1. n + 1 \in 1..Len(s) /\ (n + 1) - 1 = n
    BY <1>0
  <2>2. f[n + 1] = BitStep(s, X, n + 1, f[n]) /\ g[n + 1] = AtStep(s, P, n + 1, g[n])
    BY <1>1, <1>2, <2>1 DEF Spelling
  <2>3. CASE n + 1 \in P
    <3>1. g[n + 1] = Append(g[n], s[n + 1])
      BY <2>2, <2>3 DEF AtStep
    <3>2. f[n + 1] = IF s[n + 1] \in X THEN f[n] \o s[n + 1].bits ELSE f[n]
      BY <2>2 DEF BitStep
    <3>3. IsSeq(Append(g[n], s[n + 1]))
      BY IsSeqAppend
    <3>4. Spells(Append(g[n], s[n + 1]), X, IF s[n + 1] \in X THEN f[n] \o s[n + 1].bits ELSE f[n])
      BY SpellsAppend
    <3> QED BY <3>1, <3>2, <3>3, <3>4
  <2>4. CASE n + 1 \notin P
    <3>1. s[n + 1] \notin X
      BY <2>1, <2>4
    <3> QED BY <2>2, <2>4, <3>1 DEF AtStep, BitStep
  <2> QED BY <2>3, <2>4
<1>5. \A n \in 0..Len(s) : n \in S
  <2> HIDE DEF S
  <2> QED BY <1>0, <1>3, <1>4, UpTo
<1> QED BY <1>0, <1>1, <1>2, <1>5

\* The length of a concatenation.
LEMMA JoinIs ==
  ASSUME NEW a \in Seq(Bit), NEW b \in Seq(Bit)
  PROVE  a \o b \in Seq(Bit) /\ Len(a \o b) = Len(a) + Len(b) /\ Len(a) \in Nat /\ Len(b) \in Nat
OBVIOUS

\* Concatenation is associative.
LEMMA JoinAssoc ==
  ASSUME NEW a \in Seq(Bit), NEW b \in Seq(Bit), NEW c \in Seq(Bit)
  PROVE  (a \o b) \o c = a \o (b \o c)
BY ConcatAssociative

\* The empty sequence is neutral.
LEMMA JoinNone ==
  ASSUME NEW a \in Seq(Bit)
  PROVE  a \o <<>> = a /\ <<>> \o a = a
BY ConcatEmptySeq

\* What follows the beginning of a concatenation.
LEMMA RestOfJoin ==
  ASSUME NEW a \in Seq(Bit), NEW b \in Seq(Bit)
  PROVE  SubSeq(a \o b, Len(a) + 1, Len(a) + Len(b)) = b
<1>0. Len(a) \in Nat /\ Len(b) \in Nat
  BY JoinIs
<1>1. CASE b = <<>>
  <2>1. Len(b) = 0
    BY <1>1
  <2>2. SubSeq(a \o b, Len(a) + 1, Len(a) + Len(b)) = <<>>
    BY <1>0, <2>1, SubSeqEmpty
  <2> QED BY <1>1, <2>2
<1>2. CASE b # <<>>
  <2>1. Len(b) # 0
    BY <1>2
  <2>2. Len(a) + 1 \in Len(a) + 1..Len(a) + Len(b) /\ Len(a) + Len(b) \in Len(a) + 1..Len(a) + Len(b)
    BY <1>0, <2>1
  <2>3. SubSeq(a \o b, Len(a) + 1, Len(a) + Len(b)) = SubSeq(b, (Len(a) + 1) - Len(a), (Len(a) + Len(b)) - Len(a))
    BY <2>2, SubSeqOfConcat2
  <2>4. (Len(a) + 1) - Len(a) = 1 /\ (Len(a) + Len(b)) - Len(a) = Len(b)
    BY <1>0
  <2>5. SubSeq(b, 1, Len(b)) = b
    BY SubSeqFull
  <2> QED BY <2>3, <2>4, <2>5
<1> QED BY <1>1, <1>2

\* Taking the first packet away takes its bits away from the front.
LEMMA SpellsTail ==
  ASSUME NEW s, IsSeq(s), s # <<>>, NEW X, X \subseteq Packet, NEW T, Spells(s, X, T)
  PROVE  \E U \in Seq(Bit) : /\ Spells(Tail(s), X, U)
                             /\ T = IF s[1] \in X THEN s[1].bits \o U ELSE U
<1> DEFINE u == Tail(s)
           L == Len(s) - 1
           h == IF s[1] \in X THEN s[1].bits ELSE <<>>
<1>0. L \in Nat /\ Len(s) = L + 1 /\ Len(u) = L /\ \A i \in 1..L : u[i] = s[i + 1]
  <2>1. PICK S : s \in Seq(S)
    BY DEF IsSeq
  <2>2. Len(s) \in Nat /\ Len(s) # 0
    BY IsSeqLen
  <2>3. Len(Tail(s)) = Len(s) - 1 /\ \A i \in 1..(Len(s) - 1) : Tail(s)[i] = s[i + 1]
    BY <2>1, <2>2
  <2> QED BY <2>2, <2>3
<1>1. PICK f \in [0..Len(s) -> Seq(Bit)] : Spelling(s, X, f) /\ f[Len(s)] = T
  BY DEF Spells
<1>2. h \in Seq(Bit)
  <2>1. CASE s[1] \in X
    BY <2>1, PacketFields DEF Bit
  <2>2. CASE s[1] \notin X
    <3>1. <<>> \in Seq(Bit)
      OBVIOUS
    <3> QED BY <2>2, <3>1
  <2> QED BY <2>1, <2>2
<1> DEFINE g == [n \in 0..L |-> SubSeq(f[n + 1], Len(h) + 1, Len(f[n + 1]))]
           Good(n) == g[n] \in Seq(Bit) /\ f[n + 1] = h \o g[n] /\ (n > 0 => g[n] = BitStep(u, X, n, g[n - 1]))
           S == {n \in 0..L : Good(n)}
<1>3. \A n \in 0..L : \A v \in Seq(Bit) : f[n + 1] = h \o v => g[n] = v
  <2> TAKE n \in 0..L
  <2> TAKE v \in Seq(Bit)
  <2> HAVE f[n + 1] = h \o v
  <2>1. Len(h \o v) = Len(h) + Len(v)
    BY <1>2, JoinIs
  <2>2. g[n] = SubSeq(f[n + 1], Len(h) + 1, Len(f[n + 1]))
    OBVIOUS
  <2> HIDE DEF g, h
  <2>3. SubSeq(h \o v, Len(h) + 1, Len(h) + Len(v)) = v
    BY <1>2, RestOfJoin
  <2> QED BY <2>1, <2>2, <2>3
<1>b. 0 \in 0..L /\ <<>> \in Seq(Bit) /\ f[0 + 1] = h \o <<>> /\ g[0] = <<>>
  <2>1. 1 \in 1..Len(s) /\ 1 - 1 = 0 /\ 0 \in 0..L
    BY <1>0
  <2>2. f[1] = BitStep(s, X, 1, <<>>)
    BY <1>1, <2>1 DEF Spelling
  <2>3. f[1] = h
    <3>1. CASE s[1] \in X
      BY <1>2, <2>2, <3>1, JoinNone DEF BitStep
    <3>2. CASE s[1] \notin X
      BY <2>2, <3>2 DEF BitStep
    <3> QED BY <3>1, <3>2
  <2>4. <<>> \in Seq(Bit)
    OBVIOUS
  <2>5. f[0 + 1] = h \o <<>>
    BY <1>2, <2>3, JoinNone
  <2>6. g[0] = <<>>
    <3> HIDE DEF g, h
    <3> QED BY <1>3, <2>1, <2>4, <2>5
  <2> QED BY <2>1, <2>4, <2>5, <2>6
<1>4. 0 \in S
  <2>1. ~(0 > 0)
    OBVIOUS
  <2> HIDE DEF g, h
  <2>2. Good(0)
    BY <1>b, <2>1
  <2> HIDE DEF Good
  <2> QED BY <1>b, <2>2
<1> HIDE DEF g
<1>5. \A n \in 0..(L - 1) : n \in S => n + 1 \in S
  <2> SUFFICES ASSUME NEW n \in 0..(L - 1), Good(n) PROVE Good(n + 1)
    <3>1. \A n \in 0..(L - 1) : n \in 0..L /\ n + 1 \in 0..L
      BY <1>0
    <3> HIDE DEF Good
    <3> QED BY <3>1
  <2>1. /\ n + 2 \in 1..Len(s) /\ (n + 2) - 1 = n + 1 /\ (n + 1) + 1 = n + 2 /\ (n + 1) - 1 = n
        /\ n + 1 \in 0..L /\ n + 1 \in 1..L /\ n + 1 > 0
    BY <1>0
  <2>2. f[n + 2] = BitStep(s, X, n + 2, f[n + 1])
    BY <1>1, <2>1 DEF Spelling
  <2>3. u[n + 1] = s[n + 2]
    BY <1>0, <2>1
  <2> DEFINE v == BitStep(u, X, n + 1, g[n])
  <2>4. v \in Seq(Bit) /\ f[n + 2] = h \o v
    <3>1. CASE s[n + 2] \in X
      <4>1. s[n + 2].bits \in Seq(Bit)
        BY <3>1, PacketFields DEF Bit
      <4>2. v = g[n] \o s[n + 2].bits /\ f[n + 2] = f[n + 1] \o s[n + 2].bits
        BY <2>2, <2>3, <3>1 DEF BitStep
      <4>3. (h \o g[n]) \o s[n + 2].bits = h \o (g[n] \o s[n + 2].bits)
        BY <1>2, <4>1, JoinAssoc
      <4>4. g[n] \o s[n + 2].bits \in Seq(Bit)
        BY <4>1, JoinIs
      <4> HIDE DEF v, h
      <4> QED BY <4>2, <4>3, <4>4
    <3>2. CASE s[n + 2] \notin X
      <4>1. v = g[n] /\ f[n + 2] = f[n + 1]
        BY <2>2, <2>3, <3>2 DEF BitStep
      <4> HIDE DEF v, h
      <4> QED BY <4>1
    <3> QED BY <3>1, <3>2
  <2> HIDE DEF v, h
  <2>5. g[n + 1] = v
    BY <1>3, <2>1, <2>4
  <2> QED BY <2>1, <2>4, <2>5 DEF v
<1>6. \A n \in 0..L : Good(n)
  <2>1. \A n \in 0..L : n \in S
    <3> HIDE DEF S, L
    <3> QED BY <1>0, <1>4, <1>5, UpTo
  <2> QED BY <2>1
<1>7. g \in [0..L -> Seq(Bit)]
  <2>1. g = [n \in 0..L |-> g[n]]
    BY DEF g
  <2> QED BY <1>6, <2>1
<1>8. Spelling(u, X, g)
  <2>1. g[0] = <<>>
    BY <1>b
  <2>2. \A n \in 1..L : g[n] = BitStep(u, X, n, g[n - 1])
    <3> TAKE n \in 1..L
    <3>1. n \in 0..L /\ n > 0
      BY <1>0
    <3> QED BY <1>6, <3>1
  <2> QED BY <1>0, <2>1, <2>2 DEF Spelling
<1>9. T = h \o g[L] /\ g[L] \in Seq(Bit)
  <2>1. L \in 0..L /\ L + 1 = Len(s)
    BY <1>0
  <2> QED BY <1>1, <1>6, <2>1
<1>10. Spells(u, X, g[L])
  BY <1>0, <1>7, <1>8 DEF Spells
<1>11. T = IF s[1] \in X THEN s[1].bits \o g[L] ELSE g[L]
  <2>1. CASE s[1] \in X
    BY <1>9, <2>1
  <2>2. CASE s[1] \notin X
    BY <1>9, <2>2, JoinNone
  <2> QED BY <2>1, <2>2
<1> QED BY <1>9, <1>10, <1>11

-----------------------------------------------------------------------------
(* Windows and sums of corrections.                                        *)

\* The k-th window of n bits of a stream, and the sum of the corrections of windows.
WindowIn(S, n, k) == SubSeq(S, (k - 1) * n + 1, k * n)
Summand(S, n, from, k) == Decode(WindowIn(S, n, from + k - 1))
Total(S, n, from, to) ==
  LET sum[k \in 0..(to - from + 1)] ==
        IF k = 0 THEN {} ELSE SymDiff(sum[k - 1], Decode(WindowIn(S, n, from + k - 1)))
  IN  sum[to - from + 1]

\* The next multiple of n.
LEMMA Product ==
  ASSUME NEW r \in Nat, NEW n \in Nat
  PROVE  r * n \in Nat /\ (r + 1) * n = r * n + n /\ ((r + 1) - 1) * n = r * n
OBVIOUS

\* More windows have more bits.
LEMMA ProductMonotone ==
  ASSUME NEW n \in Nat, NEW r \in Nat, NEW k \in 0..r
  PROVE  k * n \in Nat /\ k * n <= r * n
<1> DEFINE S == {i \in 0..(r - k) : k * n <= (k + i) * n}
<1>1. k * n \in Nat
  BY Product
<1>2. 0 \in S
  <2>1. k + 0 = k /\ 0 \in 0..(r - k)
    OBVIOUS
  <2>2. k * n <= k * n
    BY <1>1
  <2> QED BY <2>1, <2>2
<1>3. \A i \in 0..((r - k) - 1) : i \in S => i + 1 \in S
  <2> SUFFICES ASSUME NEW i \in 0..((r - k) - 1), k * n <= (k + i) * n PROVE k * n <= (k + (i + 1)) * n
    OBVIOUS
  <2>1. k + i \in Nat /\ k + (i + 1) = (k + i) + 1
    OBVIOUS
  <2>2. (k + i) * n \in Nat /\ ((k + i) + 1) * n = (k + i) * n + n
    BY <2>1, Product
  <2> HIDE DEF S
  <2> QED BY <1>1, <2>1, <2>2
<1>4. \A i \in 0..(r - k) : i \in S
  <2> HIDE DEF S
  <2>1. r - k \in Nat
    OBVIOUS
  <2> QED BY <1>2, <1>3, <2>1, UpTo
<1>5. r - k \in 0..(r - k) /\ k + (r - k) = r
  OBVIOUS
<1>6. k * n <= (k + (r - k)) * n
  BY <1>4, <1>5
<1> QED BY <1>1, <1>5, <1>6

\* A window within the beginning of a stream.
LEMMA WindowPrefix ==
  ASSUME NEW A \in Seq(Bit), NEW B \in Seq(Bit), NEW n \in Nat \ {0}, NEW r \in Nat, NEW k \in 1..r,
         r * n <= Len(A)
  PROVE  WindowIn(A \o B, n, k) = WindowIn(A, n, k)
<1>1. k \in 0..r /\ k - 1 \in Nat /\ (k - 1) + 1 = k
  OBVIOUS
<1>2. k * n \in Nat /\ k * n <= r * n /\ r * n \in Nat
  BY <1>1, ProductMonotone, Product
<1>3. (k - 1) * n \in Nat /\ k * n = (k - 1) * n + n
  <2>1. ((k - 1) + 1) * n = (k - 1) * n + n /\ (k - 1) * n \in Nat
    BY <1>1, Product
  <2> QED BY <1>1, <2>1
<1> DEFINE a == (k - 1) * n + 1
           b == k * n
<1>l. Len(A) \in Nat
  OBVIOUS
<1>4. a \in 1..Len(A) /\ b \in 1..Len(A)
  BY <1>2, <1>3, <1>l
<1> HIDE DEF a, b
<1>5. SubSeq(A \o B, a, b) = SubSeq(A, a, b)
  BY <1>4, SubSeqOfConcat1
<1> QED BY <1>5 DEF WindowIn, a, b

\* The window that follows r complete ones.
LEMMA WindowLast ==
  ASSUME NEW D \in Seq(Bit), NEW w \in Seq(Bit), NEW n \in Nat \ {0}, NEW r \in Nat,
         Len(D) = r * n, Len(w) = n
  PROVE  WindowIn(D \o w, n, r + 1) = w
<1>1. ((r + 1) - 1) * n + 1 = Len(D) + 1 /\ (r + 1) * n = Len(D) + Len(w)
  BY Product
<1>2. SubSeq(D \o w, Len(D) + 1, Len(D) + Len(w)) = w
  BY RestOfJoin
<1> QED BY <1>1, <1>2 DEF WindowIn

\* The recursion of the sum.
TotalsOf(S, n, from, L, f) ==
  f = [k \in 0..L |-> IF k = 0 THEN {} ELSE SymDiff(f[k - 1], Summand(S, n, from, k))]

\* The recursion of the sum has a solution.
LEMMA TotalsExist ==
  ASSUME NEW A, NEW n, NEW from, NEW L \in Nat
  PROVE  \E f : TotalsOf(A, n, from, L, f)
<1> DEFINE S == {m \in 0..L : \E f : TotalsOf(A, n, from, m, f)}
<1>1. 0 \in S
  <2> DEFINE f == [i \in 0..0 |-> {}]
  <2>1. TotalsOf(A, n, from, 0, f)
    BY DEF TotalsOf
  <2> QED BY <2>1
<1>2. \A m \in 0..(L - 1) : m \in S => m + 1 \in S
  <2> SUFFICES ASSUME NEW m \in 0..(L - 1), NEW f, TotalsOf(A, n, from, m, f)
               PROVE  \E g : TotalsOf(A, n, from, m + 1, g)
    OBVIOUS
  <2> DEFINE g == [i \in 0..(m + 1) |-> IF i <= m THEN f[i] ELSE SymDiff(f[m], Summand(A, n, from, m + 1))]
  <2>1. \A i \in 0..m : f[i] = IF i = 0 THEN {} ELSE SymDiff(f[i - 1], Summand(A, n, from, i))
    BY DEF TotalsOf
  <2>2. \A i \in 0..(m + 1) : g[i] = IF i = 0 THEN {} ELSE SymDiff(g[i - 1], Summand(A, n, from, i))
    <3> TAKE i \in 0..(m + 1)
    <3>1. CASE i = 0
      BY <2>1, <3>1
    <3>2. CASE i \in 1..m
      <4>1. g[i] = f[i] /\ g[i - 1] = f[i - 1]
        BY <3>2
      <4> QED BY <2>1, <3>2, <4>1
    <3>3. CASE i = m + 1
      <4>1. g[i] = SymDiff(f[m], Summand(A, n, from, m + 1)) /\ g[i - 1] = f[m] /\ i # 0
        BY <3>3
      <4> QED BY <3>3, <4>1
    <3> QED BY <3>1, <3>2, <3>3
  <2>3. g = [i \in 0..(m + 1) |-> g[i]]
    OBVIOUS
  <2> HIDE DEF g
  <2>4. TotalsOf(A, n, from, m + 1, g)
    BY <2>2, <2>3 DEF TotalsOf
  <2> QED BY <2>4
<1>3. L \in S
  <2> HIDE DEF S
  <2> QED BY <1>1, <1>2, UpTo
<1> QED BY <1>3

\* And its values.
Totals(S, n, from, L, f) == f[0] = {} /\ \A k \in 1..L : f[k] = SymDiff(f[k - 1], Summand(S, n, from, k))

\* The sum is its last value.
LEMMA TotalIs ==
  ASSUME NEW A, NEW n, NEW from, NEW to, to - from + 1 \in Nat
  PROVE  \E f : Totals(A, n, from, to - from + 1, f) /\ Total(A, n, from, to) = f[to - from + 1]
<1> DEFINE L == to - from + 1
           g == CHOOSE f : f = [k \in 0..L |->
                  IF k = 0 THEN {} ELSE SymDiff(f[k - 1], Decode(WindowIn(A, n, from + k - 1)))]
<1>1. PICK f : TotalsOf(A, n, from, L, f)
  BY TotalsExist
<1>2. f = [k \in 0..L |-> IF k = 0 THEN {} ELSE SymDiff(f[k - 1], Decode(WindowIn(A, n, from + k - 1)))]
  BY <1>1 DEF TotalsOf, Summand
<1>3. TotalsOf(A, n, from, L, g)
  BY <1>2 DEF TotalsOf, Summand
<1>4. Total(A, n, from, to) = g[L]
  BY DEF Total
<1> HIDE DEF g
<1>5. Totals(A, n, from, L, g)
  <2>1. \A k \in 0..L : g[k] = IF k = 0 THEN {} ELSE SymDiff(g[k - 1], Summand(A, n, from, k))
    BY <1>3 DEF TotalsOf
  <2> HIDE DEF L
  <2>2. L \in Nat
    BY DEF L
  <2> QED BY <2>1, <2>2 DEF Totals
<1> QED BY <1>4, <1>5

\* Whatever solution is taken.
LEMMA TotalUnique ==
  ASSUME NEW A, NEW n, NEW from, NEW to, to - from + 1 \in Nat, NEW g, Totals(A, n, from, to - from + 1, g)
  PROVE  Total(A, n, from, to) = g[to - from + 1]
<1> DEFINE L == to - from + 1
<1>1. PICK f : Totals(A, n, from, L, f) /\ Total(A, n, from, to) = f[L]
  BY TotalIs
<1>2. L \in Nat /\ Totals(A, n, from, L, g)
  OBVIOUS
<1> SUFFICES Total(A, n, from, to) = g[L]
  OBVIOUS
<1> HIDE DEF L
<1> DEFINE S == {k \in 0..L : f[k] = g[k]}
<1>3. 0 \in S
  <2>1. f[0] = {} /\ g[0] = {} /\ 0 \in 0..L
    BY <1>1, <1>2 DEF Totals
  <2> QED BY <2>1
<1>4. \A k \in 0..(L - 1) : k \in S => k + 1 \in S
  <2> SUFFICES ASSUME NEW k \in 0..(L - 1), f[k] = g[k] PROVE f[k + 1] = g[k + 1]
    BY <1>2
  <2>1. k + 1 \in 1..L /\ (k + 1) - 1 = k
    BY <1>2
  <2>2. f[k + 1] = SymDiff(f[k], Summand(A, n, from, k + 1)) /\ g[k + 1] = SymDiff(g[k], Summand(A, n, from, k + 1))
    BY <1>1, <1>2, <2>1 DEF Totals
  <2> QED BY <2>2
<1>5. \A k \in 0..L : k \in S
  <2> HIDE DEF S
  <2> QED BY <1>2, <1>3, <1>4, UpTo
<1> QED BY <1>1, <1>2, <1>5

\* The sum of no window.
LEMMA TotalNone ==
  ASSUME NEW A, NEW n, NEW r \in Nat
  PROVE  Total(A, n, r + 1, r) = {}
<1>1. r - (r + 1) + 1 = 0
  OBVIOUS
<1>2. PICK f : Totals(A, n, r + 1, r - (r + 1) + 1, f) /\ Total(A, n, r + 1, r) = f[r - (r + 1) + 1]
  BY <1>1, TotalIs
<1> QED BY <1>1, <1>2 DEF Totals

\* The sum with one more window.
LEMMA TotalNext ==
  ASSUME NEW A, NEW n, NEW k \in Nat, NEW r \in Nat, k <= r
  PROVE  Total(A, n, k + 1, r + 1) = SymDiff(Total(A, n, k + 1, r), Decode(WindowIn(A, n, r + 1)))
<1> DEFINE L == r - (k + 1) + 1
           M == (r + 1) - (k + 1) + 1
<1>1. L \in Nat /\ M = L + 1 /\ M \in Nat /\ (k + 1) + M - 1 = r + 1
  OBVIOUS
<1>2. PICK f : Totals(A, n, k + 1, M, f) /\ Total(A, n, k + 1, r + 1) = f[M]
  <2>1. M \in Nat
    BY <1>1
  <2> QED BY <2>1, TotalIs
<1>m. Summand(A, n, k + 1, M) = Decode(WindowIn(A, n, r + 1))
  BY <1>1 DEF Summand
<1>3. Total(A, n, k + 1, r) = f[L]
  <2>1. Totals(A, n, k + 1, L, f)
    <3> HIDE DEF L, M
    <3> QED BY <1>1, <1>2 DEF Totals
  <2>2. L \in Nat
    BY <1>1
  <2> QED BY <2>1, <2>2, TotalUnique
<1> HIDE DEF L, M
<1>4. f[M] = SymDiff(f[M - 1], Summand(A, n, k + 1, M)) /\ M - 1 = L
  BY <1>1, <1>2 DEF Totals
<1> QED BY <1>2, <1>3, <1>4, <1>m

\* Bits that follow do not change the sum of complete windows.
LEMMA TotalPrefix ==
  ASSUME NEW A \in Seq(Bit), NEW B \in Seq(Bit), NEW n \in Nat \ {0}, NEW k \in Nat, NEW r \in Nat, k <= r,
         r * n <= Len(A)
  PROVE  Total(A \o B, n, k + 1, r) = Total(A, n, k + 1, r)
<1> DEFINE L == r - (k + 1) + 1
           C == A \o B
<1>1. L \in Nat /\ L = r - k
  OBVIOUS
<1>2. PICK f : Totals(C, n, k + 1, L, f) /\ Total(C, n, k + 1, r) = f[L]
  <2> HIDE DEF C
  <2>1. L \in Nat
    BY <1>1
  <2> QED BY <2>1, TotalIs
<1>3. \A i \in 1..L : Summand(C, n, k + 1, i) = Summand(A, n, k + 1, i)
  <2> TAKE i \in 1..L
  <2>1. (k + 1) + i - 1 \in 1..r
    BY <1>1
  <2>2. WindowIn(C, n, (k + 1) + i - 1) = WindowIn(A, n, (k + 1) + i - 1)
    BY <2>1, WindowPrefix
  <2> QED BY <2>2 DEF Summand
<1>4. Totals(A, n, k + 1, L, f)
  <2> HIDE DEF L, C
  <2> QED BY <1>1, <1>2, <1>3 DEF Totals
<1>5. L \in Nat
  BY <1>1
<1>6. Total(A, n, k + 1, r) = f[L]
  BY <1>4, <1>5, TotalUnique
<1> QED BY <1>2, <1>6

-----------------------------------------------------------------------------
(* The account of a client.                                                *)

\* The packets of a client, and those of them sent after packet q.
Own(c) == {x \in Packet : Owner(x) = c}
After(c, q) == {x \in Own(c) : q < x.id}
\* The bits of a window of client c, and whether a reset of c is on its way.
Quota(c) == DecoderConfig[c[2]].measurements
Pending(t, c) == \E p \in Resets(t) : Owner(p) = c

\* All that client c has submitted is accounted for.
Accounted(t, c, S, r, k) ==
  LET s == t.sessions[c]
  IN  /\ \E D, U \in Seq(Bit) :
           /\ Len(D) = (IF s.submitted THEN r + 1 ELSE r) * Quota(c)
           /\ Spells(t.requests, Own(c), U)
           /\ S = (D \o s.measurements) \o U
      /\ k <= r /\ (s.result # <<>> <=> k < r)
      /\ s.result # <<>> => s.result = <<Total(S, Quota(c), k + 1, r)>>
      /\ \A j \in Jobs(t) : Owner(j) = c => j.result = Decode(WindowIn(S, Quota(c), r + 1))

\* The account of client c, unless its reset is on the way: then what follows it
\* is what c has submitted since.
OwnInv(t, c, S, r, k) ==
  /\ S \in Seq(Bit) /\ r \in Nat /\ k \in Nat
  /\ ~Pending(t, c) => Accounted(t, c, S, r, k)
  /\ \A p \in Resets(t) : Owner(p) = c => Spells(t.requests, After(c, p.id), S)

\* What only moves the jobs of a client along keeps its account.
LEMMA OwnCarry ==
  ASSUME NEW t, NEW u, NEW c, NEW S, NEW r, NEW k, OwnInv(t, c, S, r, k),
         u.requests = t.requests, u.reset_request = t.reset_request, u.sessions[c] = t.sessions[c],
         \A x \in Jobs(u) : Owner(x) = c => \E y \in Jobs(t) : Owner(y) = c /\ x.result = y.result
  PROVE  OwnInv(u, c, S, r, k)
<1>1. Resets(u) = Resets(t) /\ (Pending(u, c) <=> Pending(t, c))
  BY DEF Resets, Pending
<1>2. ASSUME Accounted(t, c, S, r, k) PROVE Accounted(u, c, S, r, k)
  <2>1. \A j \in Jobs(t) : Owner(j) = c => j.result = Decode(WindowIn(S, Quota(c), r + 1))
    BY <1>2 DEF Accounted
  <2>2. \A j \in Jobs(u) : Owner(j) = c => j.result = Decode(WindowIn(S, Quota(c), r + 1))
    BY <2>1
  <2> QED BY <1>2, <2>2 DEF Accounted
<1> QED BY <1>1, <1>2 DEF OwnInv

\* A window has at least one bit.
LEMMA QuotaNat ==
  ASSUME NEW c \in Clients
  PROVE  Quota(c) \in Nat \ {0}
<1>1. c[2] \in DecoderIds
  BY DEF Clients
<1> QED BY <1>1, ConstantsNat DEF Quota

\* Marking packets as sent and cancelling others does not change what the rest spells.
LEMMA TransmittedSpells ==
  ASSUME NEW t, TransportInv(t), NEW tick \in Nat, NEW X, X \subseteq Packet, NEW T, Spells(t.requests, X, T),
         \A x \in Requests(t) : x \in X <=> SentBy(x, tick) \in X,
         \A x \in Requests(t) : x \in X => Keeps(t, tick, x)
  PROVE  Spells(AdvanceTransmission(t, tick).requests, X, T)
<1> DEFINE s == [i \in 1..Len(t.requests) |-> SentBy(t.requests[i], tick)]
           p == t.reset_request[1]
           P == {i \in 1..Len(s) : ~Cancelled(s[i], p)}
           all == [t EXCEPT !.requests = s,
                            !.reset_request = [i \in 1..Len(@) |-> SentBy(@[i], tick)]]
<1>t. IsTransport(t) /\ Lists(t.requests, Requests(t)) /\ Requests(t) \subseteq Packet
  BY DEF TransportInv, TypeInv
<1>1. IsSeq(t.requests) /\ Len(t.requests) \in Nat
  BY <1>t, ListsSeq
<1>2. AdvanceTransmission(t, tick).requests = IF ResetArrives(t, tick) THEN At(s, P) ELSE s
  <2>1. CASE ~ResetArrives(t, tick)
    <3>1. AdvanceTransmission(t, tick) = all
      BY <2>1 DEF AdvanceTransmission, SentBy
    <3>2. all.requests = s
      BY <1>t DEF IsTransport
    <3> HIDE DEF all
    <3> QED BY <2>1, <3>1, <3>2
  <2>2. CASE ResetArrives(t, tick)
    <3> DEFINE Q(z) == {i \in 1..Len(z) : ~Cancelled(z[i], p)}
               u == [all EXCEPT !.reset_request = <<>>,
                       !.requests = At(@, Q(@)),
                       !.jobs = At(@, Q(@)),
                       !.sessions[Owner(p)] = ClearSession]
    <3>1. AdvanceTransmission(t, tick) = u
      BY <2>2 DEF AdvanceTransmission, SentBy
    <3>2. u.requests = At(s, P)
      <4> HIDE DEF s
      <4>1. all.requests = s /\ all \in [sessions : {t.sessions}, requests : {s},
              reset_request : {all.reset_request}, jobs : {t.jobs},
              available : {t.available}, tx_available : {t.tx_available}, rx_available : {t.rx_available},
              next : {t.next}, fault : {t.fault}]
        BY <1>t DEF IsTransport
      <4> HIDE DEF all
      <4>2. u.requests = At(all.requests, Q(all.requests))
        BY <4>1
      <4> QED BY <4>1, <4>2
    <3> HIDE DEF u
    <3> QED BY <2>2, <3>1, <3>2
  <2> QED BY <2>1, <2>2
<1>3. IsSeq(s) /\ Len(s) = Len(t.requests) /\ \A i \in 1..Len(t.requests) : s[i] = SentBy(t.requests[i], tick)
  <2>1. s \in Seq({SentBy(x, tick) : x \in Requests(t)})
    BY <1>1 DEF Requests
  <2>2. IsSeq(s)
    BY <2>1 DEF IsSeq
  <2> QED BY <1>1, <2>2
<1>4. \A i \in 1..Len(t.requests) : /\ t.requests[i] \in Requests(t) /\ t.requests[i] \in Packet
                                    /\ s[i].bits = t.requests[i].bits
                                    /\ (t.requests[i] \in X <=> s[i] \in X)
                                    /\ s[i].id = t.requests[i].id /\ Owner(s[i]) = Owner(t.requests[i])
  <2> TAKE i \in 1..Len(t.requests)
  <2>1. t.requests[i] \in Requests(t) /\ t.requests[i] \in Packet
    BY <1>t DEF Requests
  <2> QED BY <1>3, <2>1, SentByIs, ZenonT(30)
<1> HIDE DEF s
<1>5. Spells(s, X, T)
  BY <1>3, <1>4, SpellsSame
<1>6. CASE ResetArrives(t, tick)
  <2>1. \A i \in 1..Len(s) : i \notin P => s[i] \notin X
    BY <1>3, <1>4, <1>6 DEF Keeps, Cancelled
  <2> HIDE DEF P
  <2>2. Spells(At(s, P), X, T)
    BY <1>3, <1>5, <2>1, SpellsKept
  <2> QED BY <1>2, <1>6, <2>2
<1>7. CASE ~ResetArrives(t, tick)
  BY <1>2, <1>5, <1>7
<1> QED BY <1>6, <1>7

\* Marking a packet as sent changes neither its owner nor its place in the order.
LEMMA SentOwn ==
  ASSUME NEW x \in Packet, NEW tick \in Nat, NEW c, NEW q
  PROVE  (x \in Own(c) <=> SentBy(x, tick) \in Own(c)) /\ (x \in After(c, q) <=> SentBy(x, tick) \in After(c, q))
BY SentByIs DEF Own, After

\* A reset that arrives leaves exactly what its client submitted after it; every
\* other client keeps its account.
LEMMA TransmissionOwn ==
  ASSUME NEW t, TransportInv(t), NEW tick \in Nat, NEW c \in Clients, NEW S, NEW r, NEW k, OwnInv(t, c, S, r, k)
  PROVE  LET a == AdvanceTransmission(t, tick)
         IN  IF Clears(t, tick, c) THEN OwnInv(a, c, S, 0, 0) ELSE OwnInv(a, c, S, r, k)
<1> DEFINE a == AdvanceTransmission(t, tick)
           p == t.reset_request[1]
<1>0. Transmitted(t, tick, a)
  BY TransmittedIs
<1>s. \A X \in SUBSET Packet : \A T :
        /\ Spells(t.requests, X, T)
        /\ \A x \in Requests(t) : x \in X <=> SentBy(x, tick) \in X
        /\ \A x \in Requests(t) : x \in X => Keeps(t, tick, x)
        => Spells(a.requests, X, T)
  BY TransmittedSpells
<1> SUFFICES IF Clears(t, tick, c) THEN OwnInv(a, c, S, 0, 0) ELSE OwnInv(a, c, S, r, k)
  OBVIOUS
<1> HIDE DEF a
<1>t. /\ Lists(t.requests, Requests(t)) /\ Requests(t) \subseteq Packet /\ Resets(t) \subseteq Packet
      /\ t.reset_request \in Seq(Packet) /\ Len(t.reset_request) <= 1
      /\ \A j \in Jobs(t) : IsJob(j)
  BY DEF TransportInv, TypeInv, Resets
<1>o. S \in Seq(Bit) /\ r \in Nat /\ k \in Nat
  BY DEF OwnInv
<1>1. /\ a.sessions = [d \in Clients |-> IF Clears(t, tick, d) THEN ClearSession ELSE t.sessions[d]]
      /\ Requests(a) = {SentBy(x, tick) : x \in {y \in Requests(t) : Keeps(t, tick, y)}}
      /\ Lists(a.requests, Requests(a))
      /\ Jobs(a) = {x \in Jobs(t) : Keeps(t, tick, x)}
      /\ Resets(a) = IF ResetArrives(t, tick) THEN {} ELSE {SentBy(x, tick) : x \in Resets(t)}
  <2>1. /\ Lists(a.requests, {SentBy(x, tick) : x \in {y \in Requests(t) : Keeps(t, tick, y)}})
        /\ Lists(a.jobs, {x \in Jobs(t) : Keeps(t, tick, x)})
    BY <1>0 DEF Transmitted
  <2>2. Requests(a) = {SentBy(x, tick) : x \in {y \in Requests(t) : Keeps(t, tick, y)}}
    BY <2>1, ListsRange DEF Requests
  <2>3. Jobs(a) = {x \in Jobs(t) : Keeps(t, tick, x)}
    BY <2>1, ListsRange DEF Jobs
  <2> QED BY <1>0, <2>1, <2>2, <2>3 DEF Transmitted
<1>2. Own(c) \in SUBSET Packet /\ \A q : After(c, q) \in SUBSET Packet
  BY DEF Own, After
<1>3. \A x \in Requests(t) : /\ x \in Own(c) <=> SentBy(x, tick) \in Own(c)
                             /\ \A q : x \in After(c, q) <=> SentBy(x, tick) \in After(c, q)
  BY <1>t, SentOwn
<1>4. ResetArrives(t, tick) => p \in Resets(t) /\ Resets(t) = {p} /\ p \in Packet
  <2> SUFFICES ASSUME ResetArrives(t, tick) PROVE p \in Resets(t) /\ Resets(t) = {p} /\ p \in Packet
    OBVIOUS
  <2>1. \A q \in Seq(Packet) : q # <<>> => Len(q) \in Nat /\ Len(q) # 0 /\ q[1] \in Packet
    OBVIOUS
  <2>2. \A n \in Nat : n # 0 /\ n <= 1 => n = 1
    OBVIOUS
  <2>3. t.reset_request # <<>>
    BY DEF ResetArrives
  <2>4. Len(t.reset_request) = 1 /\ p \in Packet
    BY <1>t, <2>1, <2>2, <2>3, Zenon
  <2>5. 1..Len(t.reset_request) = {1}
    BY <2>4
  <2> QED BY <2>4, <2>5 DEF Resets
<1>5. CASE Clears(t, tick, c)
  <2>1. ResetArrives(t, tick) /\ Owner(p) = c /\ p \in Resets(t)
    BY <1>4, <1>5 DEF Clears
  <2>2. Spells(t.requests, After(c, p.id), S)
    BY <2>1 DEF OwnInv
  <2>3. \A x \in Requests(t) : x \in After(c, p.id) => Keeps(t, tick, x)
    <3> SUFFICES ASSUME NEW x \in Requests(t), x \in After(c, p.id) PROVE ~(x.id < p.id)
      BY DEF Keeps, Cancelled
    <3>1. x.id \in Nat /\ p.id \in Nat /\ p.id < x.id
      BY <1>4, <1>t, <2>1, PacketFields DEF After
    <3> QED BY <3>1
  <2>4. Spells(a.requests, After(c, p.id), S)
    BY <1>s, <1>2, <1>3, <2>2, <2>3
  <2>5. \A x \in Requests(a) : x \in After(c, p.id) <=> x \in Own(c)
    <3> SUFFICES ASSUME NEW x \in Requests(a), x \in Own(c) PROVE p.id < x.id
      BY DEF After
    <3>1. PICK y \in Requests(t) : x = SentBy(y, tick) /\ Keeps(t, tick, y)
      BY <1>1
    <3>2. y \in Packet /\ y.id = x.id /\ Owner(y) = c
      BY <1>t, <3>1, SentByIs DEF Own
    <3>3. ~(y.id < p.id)
      BY <2>1, <3>1, <3>2 DEF Keeps, Cancelled
    <3>4. y.id < p.id \/ p.id < y.id
      BY <2>1 DEF TransportInv, LinkInv
    <3> QED BY <3>2, <3>3, <3>4
  <2>6. Spells(a.requests, Own(c), S)
    <3>1. \A i \in 1..Len(a.requests) : a.requests[i] \in After(c, p.id) <=> a.requests[i] \in Own(c)
      BY <2>5 DEF Requests
    <3> QED BY <2>4, <3>1, SpellsSame
  <2>7. a.sessions[c] = ClearSession /\ Resets(a) = {}
    BY <1>1, <1>5, <2>1
  <2>8. \A j \in Jobs(a) : Owner(j) # c
    BY <1>1, <2>1 DEF Keeps, Cancelled, TransportInv, LinkInv
  <2>9. <<>> \in Seq(Bit) /\ Len(<<>>) = 0 /\ S = (<<>> \o <<>>) \o S /\ 0 * Quota(c) = 0
    <3>1. <<>> \in Seq(Bit) /\ Len(<<>>) = 0
      OBVIOUS
    <3> QED BY <1>o, <3>1, JoinNone, QuotaNat
  <2>10. Accounted(a, c, S, 0, 0)
    <3> DEFINE s == a.sessions[c]
    <3>1. s.measurements = <<>> /\ s.result = <<>> /\ ~s.submitted
      BY <2>7, ClearIs
    <3>2. /\ Len(<<>>) = (IF s.submitted THEN 0 + 1 ELSE 0) * Quota(c)
          /\ S = (<<>> \o s.measurements) \o S
      BY <2>9, <3>1
    <3>3. \E D, U \in Seq(Bit) :
           /\ Len(D) = (IF s.submitted THEN 0 + 1 ELSE 0) * Quota(c)
           /\ Spells(a.requests, Own(c), U)
           /\ S = (D \o s.measurements) \o U
      BY <1>o, <2>6, <2>9, <3>2
    <3>4. 0 <= 0 /\ ~(0 < 0)
      OBVIOUS
    <3> QED BY <2>8, <3>1, <3>3, <3>4, Zenon DEF Accounted
  <2> QED BY <1>5, <1>o, <2>7, <2>10 DEF OwnInv
<1>6. CASE ~Clears(t, tick, c)
  <2>1. a.sessions[c] = t.sessions[c]
    BY <1>1, <1>6
  <2>2. \A x \in Requests(t) : x \in Own(c) => Keeps(t, tick, x)
    BY <1>6 DEF Clears, Keeps, Cancelled, Own
  <2>3. \A X \in SUBSET Own(c) : \A T :
          /\ Spells(t.requests, X, T)
          /\ \A x \in Requests(t) : x \in X <=> SentBy(x, tick) \in X
          => Spells(a.requests, X, T)
    BY <1>s, <1>2, <2>2
  <2>4. ASSUME Accounted(t, c, S, r, k) PROVE Accounted(a, c, S, r, k)
    <3>1. \A U : Spells(t.requests, Own(c), U) => Spells(a.requests, Own(c), U)
      BY <1>3, <2>3
    <3>2. Jobs(a) \subseteq Jobs(t)
      BY <1>1
    <3> QED BY <2>1, <2>4, <3>1, <3>2 DEF Accounted
  <2>5. CASE ResetArrives(t, tick)
    <3>1. ~Pending(t, c) /\ Resets(a) = {}
      BY <1>1, <1>4, <1>6, <2>5 DEF Pending, Clears
    <3> QED BY <1>6, <1>o, <2>4, <3>1 DEF OwnInv
  <2>6. CASE ~ResetArrives(t, tick)
    <3>1. Resets(a) = {SentBy(x, tick) : x \in Resets(t)}
      BY <1>1, <2>6
    <3>2. \A x \in Resets(t) : SentBy(x, tick).id = x.id /\ Owner(SentBy(x, tick)) = Owner(x)
      BY <1>t, SentByIs
    <3>3. Pending(a, c) <=> Pending(t, c)
      BY <3>1, <3>2 DEF Pending
    <3>4. ASSUME NEW q \in Resets(a), Owner(q) = c PROVE Spells(a.requests, After(c, q.id), S)
      <4>1. PICK x \in Resets(t) : q = SentBy(x, tick)
        BY <3>1
      <4>2. Spells(t.requests, After(c, x.id), S) /\ q.id = x.id
        BY <3>2, <3>4, <4>1 DEF OwnInv
      <4>3. After(c, x.id) \in SUBSET Own(c)
        BY DEF After
      <4> QED BY <1>3, <2>3, <4>2, <4>3
    <3> QED BY <1>6, <1>o, <2>4, <3>3, <3>4 DEF OwnInv
  <2> QED BY <2>5, <2>6
<1> QED BY <1>5, <1>6

\* One result is added by the symmetric difference.
LEMMA AddedOne ==
  ASSUME NEW v, NEW s, Len(s) = 1
  PROVE  Added(v, s) = SymDiff(v, s[1].result)
<1> DEFINE D(f) == [n \in 0..Len(s) |-> IF n = 0 THEN v ELSE SymDiff(f[n - 1], s[n].result)]
           g == CHOOSE f : f = D(f)
           h == [n \in 0..1 |-> IF n = 0 THEN v ELSE SymDiff(v, s[1].result)]
<1>1. Added(v, s) = g[1]
  BY DEF Added
<1>2. h = D(h)
  <2>1. h[0] = v /\ h[1] = SymDiff(v, s[1].result)
    OBVIOUS
  <2>2. \A n \in 0..1 : h[n] = IF n = 0 THEN v ELSE SymDiff(h[n - 1], s[n].result)
    <3> HIDE DEF h
    <3> TAKE n \in 0..1
    <3>1. n = 0 \/ n = 1
      OBVIOUS
    <3> QED BY <2>1, <3>1
  <2>3. h = [n \in 0..1 |-> h[n]]
    OBVIOUS
  <2> HIDE DEF h
  <2> QED BY <2>2, <2>3
<1> HIDE DEF h
<1>3. g = D(g)
  BY <1>2
<1> HIDE DEF g
<1>4. g[0] = v
  BY <1>3
<1>5. g[1] = SymDiff(g[0], s[1].result)
  BY <1>3
<1> QED BY <1>1, <1>4, <1>5

\* What a session has not read yet.
Unread(s) == IF s.result = <<>> THEN {} ELSE s.result[1]

\* A client that is answered gets the result of its job added.
LEMMA AnsweredResult ==
  ASSUME NEW t, TransportInv(t), NEW tick \in Nat, NEW j \in Jobs(t), Returned(j, tick)
  PROVE  AdvanceJobs(t, tick).sessions[Owner(j)].result = <<SymDiff(Unread(t.sessions[Owner(j)]), j.result)>>
<1> DEFINE c == Owner(j)
           out == ResultsOf(t, tick, c)
           s == t.sessions[c]
<1>t. /\ IsTransport(t) /\ \A d \in Clients : IsSession(t.sessions[d])
      /\ \A x \in Jobs(t) : IsJob(x)
      /\ \A x, y \in Jobs(t) : Owner(x) = Owner(y) => x = y
  BY DEF TransportInv, TypeInv, SlotInv
<1>0. c \in Clients /\ IsSession(s)
  BY <1>t, JobFields
<1>1. AdvanceJobs(t, tick).sessions[c] = SessionAfter(s, out)
  <2> DEFINE left == AdvanceJobs(t, tick).jobs
             sessions == [d \in Clients |-> SessionAfter(t.sessions[d], ResultsOf(t, tick, d))]
  <2>1. AdvanceJobs(t, tick).sessions = sessions
    BY <1>t DEF AdvanceJobs, Progress, IsTransport, ResultsOf
  <2> QED BY <1>0, <2>1
<1>2. {Progress(x, tick) : x \in {y \in Jobs(t) : Returned(y, tick) /\ Owner(y) = c}} = {Progress(j, tick)}
  BY <1>t
<1>3. Lists(out, {Progress(j, tick)})
  BY <1>0, <1>2, ResultsAre
<1> HIDE DEF out
<1>4. Len(out) = 1 /\ out[1] = Progress(j, tick)
  BY <1>3, ListsOne
<1>5. out # <<>>
  BY <1>4
<1>6. Added(Unread(s), out) = SymDiff(Unread(s), j.result)
  <2>1. Progress(j, tick).result = j.result
    BY <1>t DEF Progress, IsJob
  <2> QED BY <1>4, <2>1, AddedOne
<1> HIDE DEF s
<1>7. SessionAfter(s, out) = [s EXCEPT !.submitted = FALSE, !.result = <<Added(Unread(s), out)>>]
  BY <1>0, <1>5 DEF SessionAfter, IsSession, Unread
<1>8. SessionAfter(s, out).result = <<Added(Unread(s), out)>>
  <2> DEFINE v == <<Added(Unread(s), out)>>
  <2> SUFFICES SessionAfter(s, out).result = v
    OBVIOUS
  <2>1. SessionAfter(s, out) = [s EXCEPT !.submitted = FALSE, !.result = v]
    BY <1>7
  <2> HIDE DEF v
  <2> QED BY <1>0, <2>1 DEF IsSession
<1> QED BY <1>1, <1>6, <1>8 DEF s

\* A returned window is the next one, and its correction is added.
LEMMA JobsOwn ==
  ASSUME NEW t, TransportInv(t), NEW tick \in Nat, NEW c \in Clients, NEW S, NEW r, NEW k, OwnInv(t, c, S, r, k)
  PROVE  OwnInv(AdvanceJobs(t, tick), c, S, IF Answered(t, tick, c) THEN r + 1 ELSE r, k)
<1> DEFINE u == AdvanceJobs(t, tick)
<1>0. Worked(t, tick, u)
  BY WorkedIs
<1>a. \A j \in Jobs(t) : Returned(j, tick) => u.sessions[Owner(j)].result = <<SymDiff(Unread(t.sessions[Owner(j)]), j.result)>>
  BY AnsweredResult
<1> SUFFICES OwnInv(u, c, S, IF Answered(t, tick, c) THEN r + 1 ELSE r, k)
  OBVIOUS
<1> HIDE DEF u
<1>t. /\ \A j \in Jobs(t) : IsJob(j)
      /\ \A x, y \in Jobs(t) : Owner(x) = Owner(y) => x = y
      /\ t.sessions[c].submitted <=> \E j \in Jobs(t) : Owner(j) = c
  BY DEF TransportInv, TypeInv, SlotInv
<1>1. /\ u.requests = t.requests /\ u.reset_request = t.reset_request
      /\ Jobs(u) = {Progress(x, tick) : x \in {y \in Jobs(t) : ~Returned(y, tick)}}
  <2>1. Lists(u.jobs, {Progress(x, tick) : x \in {y \in Jobs(t) : ~Returned(y, tick)}})
    BY <1>0 DEF Worked
  <2> QED BY <1>0, <2>1, ListsRange DEF Worked, Jobs
<1>2. \A x \in Jobs(t) : Progress(x, tick).result = x.result /\ Owner(Progress(x, tick)) = Owner(x)
  BY <1>t DEF Progress, IsJob, Owner
<1>3. CASE ~Answered(t, tick, c)
  <2>1. u.sessions[c] = t.sessions[c]
    BY <1>0, <1>3 DEF Worked
  <2>2. \A x \in Jobs(u) : Owner(x) = c => \E y \in Jobs(t) : Owner(y) = c /\ x.result = y.result
    BY <1>1, <1>2
  <2> QED BY <1>1, <1>3, <2>1, <2>2, OwnCarry
<1>4. CASE Answered(t, tick, c)
  <2>1. PICK j \in Jobs(t) : Returned(j, tick) /\ Owner(j) = c
    BY <1>4 DEF Answered
  <2>2. /\ u.sessions[c].measurements = t.sessions[c].measurements
        /\ ~u.sessions[c].submitted /\ t.sessions[c].submitted
        /\ u.sessions[c].result = <<SymDiff(Unread(t.sessions[c]), j.result)>>
    BY <1>0, <1>4, <1>a, <1>t, <2>1 DEF Worked
  <2>3. \A x \in Jobs(u) : Owner(x) # c
    BY <1>1, <1>2, <1>t, <2>1
  <2>4. S \in Seq(Bit) /\ r \in Nat /\ k \in Nat /\ r + 1 \in Nat
    BY DEF OwnInv
  <2>5. ASSUME Accounted(t, c, S, r, k) PROVE Accounted(u, c, S, r + 1, k)
    <3> DEFINE n == Quota(c)
               s == t.sessions[c]
               w == u.sessions[c]
    <3>1. PICK D, U \in Seq(Bit) : /\ Len(D) = (r + 1) * n
                                   /\ Spells(t.requests, Own(c), U)
                                   /\ S = (D \o s.measurements) \o U
      BY <2>2, <2>5 DEF Accounted
    <3>2. \E E, V \in Seq(Bit) : /\ Len(E) = (IF w.submitted THEN (r + 1) + 1 ELSE r + 1) * n
                                 /\ Spells(u.requests, Own(c), V)
                                 /\ S = (E \o w.measurements) \o V
      BY <1>1, <2>2, <3>1
    <3>3. k <= r /\ (s.result # <<>> <=> k < r) /\ (s.result # <<>> => s.result = <<Total(S, n, k + 1, r)>>)
      BY <2>5 DEF Accounted
    <3>4. k <= r + 1 /\ k < r + 1
      BY <2>4, <3>3
    <3>5. j.result = Decode(WindowIn(S, n, r + 1))
      BY <2>1, <2>5 DEF Accounted
    <3>6. Unread(s) = Total(S, n, k + 1, r)
      <4>1. CASE s.result = <<>>
        <5>1. k = r
          BY <2>4, <3>3, <4>1
        <5>2. Total(S, n, k + 1, r) = {}
          BY <2>4, <5>1, TotalNone
        <5> QED BY <4>1, <5>2 DEF Unread
      <4>2. CASE s.result # <<>>
        <5>1. s.result[1] = Total(S, n, k + 1, r)
          BY <3>3, <4>2
        <5> QED BY <4>2, <5>1 DEF Unread
      <4> QED BY <4>1, <4>2
    <3>7. Total(S, n, k + 1, r + 1) = SymDiff(Total(S, n, k + 1, r), Decode(WindowIn(S, n, r + 1)))
      BY <2>4, <3>3, TotalNext
    <3>8. w.result = <<Total(S, n, k + 1, r + 1)>> /\ w.result # <<>>
      BY <2>2, <3>5, <3>6, <3>7
    <3> QED BY <2>3, <3>2, <3>4, <3>8, Zenon DEF Accounted
  <2>6. Resets(u) = Resets(t) /\ (Pending(u, c) <=> Pending(t, c))
    BY <1>1 DEF Resets, Pending
  <2>7. OwnInv(u, c, S, r + 1, k)
    BY <1>1, <2>4, <2>5, <2>6 DEF OwnInv
  <2> QED BY <1>4, <2>7
<1> QED BY <1>3, <1>4

\* The last window within the beginning of a stream.
LEMMA WindowFits ==
  ASSUME NEW A \in Seq(Bit), NEW B \in Seq(Bit), NEW n \in Nat \ {0}, NEW r \in Nat \ {0}, r * n <= Len(A)
  PROVE  WindowIn(A \o B, n, r) = WindowIn(A, n, r)
<1>1. r \in Nat /\ r \in 1..r
  OBVIOUS
<1> QED BY <1>1, WindowPrefix

\* The window after r complete ones, whatever follows it.
LEMMA WindowNext ==
  ASSUME NEW D \in Seq(Bit), NEW w \in Seq(Bit), NEW V \in Seq(Bit), NEW n \in Nat \ {0}, NEW r \in Nat,
         Len(D) = r * n, Len(w) = n
  PROVE  WindowIn((D \o w) \o V, n, r + 1) = w /\ Len(D \o w) = (r + 1) * n
<1> DEFINE E == D \o w
           R == r + 1
<1>1. E \in Seq(Bit) /\ Len(E) = Len(D) + Len(w)
  BY JoinIs
<1>2. (r + 1) * n = r * n + n /\ r * n \in Nat
  BY Product
<1>3. WindowIn(E, n, r + 1) = w
  BY WindowLast
<1>4. R \in Nat /\ R \in 1..R
  OBVIOUS
<1> HIDE DEF E
<1>5. Len(E) = R * n /\ R * n \in Nat
  BY <1>1, <1>2
<1>6. WindowIn(E, n, R) = w
  BY <1>3
<1> HIDE DEF R
<1>7. R * n <= Len(E)
  BY <1>5
<1>8. WindowIn(E \o V, n, R) = WindowIn(E, n, R)
  <2>1. E \in Seq(Bit) /\ R \in Nat \ {0}
    BY <1>1, <1>4
  <2> QED BY <1>7, <2>1, WindowFits, ZenonT(30)
<1> QED BY <1>5, <1>6, <1>8 DEF E, R

\* Admitting the request at the head keeps what every client has submitted accounted for.
LEMMA AdmittedOwn ==
  ASSUME NEW t, TransportInv(t), NEW tick \in Nat, Admissible(t, tick), SentUpTo(t, tick),
         NEW u, NEW full \in BOOLEAN, Admitted(t, u, full, tick),
         NEW c \in Clients, NEW S, NEW r, NEW k, OwnInv(t, c, S, r, k)
  PROVE  OwnInv(u, c, S, r, k)
<1> DEFINE p == FirstRequest(t)
           job == JobOf(t, tick)
           n == Quota(c)
           s == t.sessions[c]
<1>t. /\ Lists(t.requests, Requests(t)) /\ Requests(t) \subseteq Packet /\ t.requests # <<>>
      /\ Lists(t.jobs, Jobs(t)) /\ IsSession(s)
      /\ s.submitted <=> \E j \in Jobs(t) : Owner(j) = c
  BY DEF TransportInv, TypeInv, SlotInv, Admissible
<1>1. /\ u.requests = Tail(t.requests) /\ u.reset_request = t.reset_request
      /\ c # Owner(p) => u.sessions[c] = s
      /\ c = Owner(p) => /\ u.sessions[c].result = s.result /\ u.sessions[c].submitted = full
                         /\ u.sessions[c].measurements = IF full THEN <<>> ELSE WindowOf(t)
      /\ full => Len(WindowOf(t)) = DecoderConfig[p.decoder].measurements /\ u.jobs = Append(t.jobs, job)
      /\ ~full => u.jobs = t.jobs
  BY DEF Admitted
<1>2. IsSeq(t.requests) /\ p = t.requests[1] /\ p \in Requests(t) /\ p \in Packet
  BY <1>t, ListsSeq, ListsTail DEF FirstRequest
<1>3. Resets(u) = Resets(t) /\ (Pending(u, c) <=> Pending(t, c))
  BY <1>1 DEF Resets, Pending
<1>4. Own(c) \subseteq Packet /\ \A q : After(c, q) \subseteq Packet
  BY DEF Own, After
<1>o. S \in Seq(Bit) /\ r \in Nat /\ k \in Nat
  BY DEF OwnInv
<1>j. Jobs(u) = IF full THEN Jobs(t) \cup {job} ELSE Jobs(t)
  <2>1. CASE full
    <3> DEFINE w == Append(t.jobs, job)
    <3>1. IsSeq(t.jobs) /\ Len(t.jobs) \in Nat
      BY <1>t, ListsSeq
    <3>2. /\ Len(w) = Len(t.jobs) + 1 /\ w[Len(t.jobs) + 1] = job
          /\ \A i \in 1..Len(t.jobs) : w[i] = t.jobs[i]
      BY <3>1, IsSeqAppend
    <3>3. u.jobs = w
      BY <1>1, <2>1
    <3> HIDE DEF w, job
    <3>4. \A x : x \in Jobs(u) <=> x \in Jobs(t) \cup {job}
      BY <3>1, <3>2, <3>3, SMTT(30) DEF Jobs
    <3> QED BY <2>1, <3>4
  <2>2. CASE ~full
    BY <1>1, <2>2 DEF Jobs
  <2> QED BY <2>1, <2>2
<1>5. ASSUME NEW q \in Resets(u), Owner(q) = c PROVE Spells(u.requests, After(c, q.id), S)
  <2>1. q \in Resets(t) /\ Spells(t.requests, After(c, q.id), S)
    BY <1>3, <1>5 DEF OwnInv
  <2>2. \/ p.id < q.id /\ p.arrival < q.arrival
        \/ q.id < p.id /\ q.arrival < p.arrival
    BY <1>2, <2>1 DEF TransportInv, LinkInv
  <2>3. tick < q.arrival /\ p.arrival <= tick
    BY <2>1 DEF SentUpTo, Admissible, FirstRequest
  <2>4. q \in Packet
    BY <2>1 DEF TransportInv, TypeInv, Resets
  <2>5. q.arrival \in Nat /\ p.arrival \in Nat /\ q.id \in Nat /\ p.id \in Nat
    BY <1>2, <2>4, PacketFields
  <2>6. ~(q.id < p.id)
    BY <2>2, <2>3, <2>5
  <2>7. p \notin After(c, q.id)
    BY <2>6 DEF After
  <2> QED BY <1>1, <1>2, <1>4, <1>t, <2>1, <2>7, SpellsTail, SMTT(30)
<1>6. ASSUME Accounted(t, c, S, r, k) PROVE Accounted(u, c, S, r, k)
  <2>0. /\ k <= r /\ (s.result # <<>> <=> k < r)
        /\ s.result # <<>> => s.result = <<Total(S, n, k + 1, r)>>
        /\ \A j \in Jobs(t) : Owner(j) = c => j.result = Decode(WindowIn(S, n, r + 1))
    BY <1>6 DEF Accounted
  <2>1. PICK D, U \in Seq(Bit) : /\ Len(D) = (IF s.submitted THEN r + 1 ELSE r) * n
                                 /\ Spells(t.requests, Own(c), U)
                                 /\ S = (D \o s.measurements) \o U
    BY <1>6 DEF Accounted
  <2>2. PICK V \in Seq(Bit) : /\ Spells(u.requests, Own(c), V)
                              /\ U = IF p \in Own(c) THEN p.bits \o V ELSE V
    <3>1. \E V \in Seq(Bit) : /\ Spells(Tail(t.requests), Own(c), V)
                              /\ U = IF t.requests[1] \in Own(c) THEN t.requests[1].bits \o V ELSE V
      <4> DEFINE z == t.requests
                 X == Own(c)
      <4>1. IsSeq(z) /\ z # <<>> /\ X \subseteq Packet /\ Spells(z, X, U)
        BY <1>2, <1>4, <1>t, <2>1
      <4> SUFFICES \E V \in Seq(Bit) : /\ Spells(Tail(z), X, V)
                                       /\ U = IF z[1] \in X THEN z[1].bits \o V ELSE V
        OBVIOUS
      <4> HIDE DEF z, X
      <4> QED BY <4>1, SpellsTail, SMTT(30)
    <3> HIDE DEF p
    <3> QED BY <1>1, <1>2, <3>1
  <2>3. Owner(job) = Owner(p) /\ job.result = Decode(WindowOf(t))
    BY DEF JobOf, Owner
  <2> HIDE DEF job
  <2>4. CASE c # Owner(p)
    <3>1. U = V
      BY <2>2, <2>4 DEF Own
    <3>2. \A j \in Jobs(u) : Owner(j) = c => j \in Jobs(t)
      BY <1>j, <2>3, <2>4
    <3>3. u.sessions[c] = s
      BY <1>1, <2>4
    <3> HIDE DEF s
    <3> QED BY <2>0, <2>1, <2>2, <3>1, <3>2, <3>3 DEF Accounted, s
  <2>5. CASE c = Owner(p)
    <3> DEFINE m == s.measurements
               b == p.bits
               w == WindowOf(t)
               z == u.sessions[c]
    <3>1. U = b \o V
      BY <1>2, <2>2, <2>5 DEF Own
    <3>2. ~s.submitted /\ \A j \in Jobs(t) : Owner(j) # c
      BY <1>t, <2>5 DEF Admissible, FirstRequest
    <3>3. m \in Seq(Bit) /\ b \in Seq(Bit) /\ w = m \o b
      BY <1>2, <1>t, <2>5, PacketFields, SessionFields DEF WindowOf, Bit
    <3>4. w \in Seq(Bit) /\ n \in Nat \ {0}
      BY <3>3, JoinIs, QuotaNat
    <3>5. z.result = s.result /\ z.submitted = full /\ z.measurements = IF full THEN <<>> ELSE w
      BY <1>1, <2>5
    <3>l. Len(D) = r * n
      BY <2>1, <3>2
    <3>s. S = (D \o m) \o U
      BY <2>1
    <3>n. c[2] = p.decoder
      BY <2>5 DEF Owner
    <3> HIDE DEF m, b, w, s, z
    <3>6. S = (D \o w) \o V
      <4>1. D \o m \in Seq(Bit)
        BY <3>3, JoinIs
      <4>2. (D \o m) \o (b \o V) = ((D \o m) \o b) \o V
        BY <3>3, <4>1, JoinAssoc
      <4>3. (D \o m) \o b = D \o (m \o b)
        BY <3>3, JoinAssoc, SMTT(30)
      <4> QED BY <3>1, <3>3, <3>s, <4>2, <4>3
    <3>7. CASE ~full
      <4>1. \E E, W \in Seq(Bit) : /\ Len(E) = (IF z.submitted THEN r + 1 ELSE r) * n
                                   /\ Spells(u.requests, Own(c), W)
                                   /\ S = (E \o z.measurements) \o W
        BY <2>2, <3>5, <3>6, <3>7, <3>l
      <4>2. \A j \in Jobs(u) : Owner(j) # c
        BY <1>j, <3>2, <3>7
      <4> QED BY <2>0, <3>5, <4>1, <4>2, Zenon DEF Accounted, z
    <3>8. CASE full
      <4> DEFINE E == D \o w
      <4>1. Len(w) = n
        BY <1>1, <3>8, <3>n DEF Quota, w
      <4>2. E \in Seq(Bit)
        BY <3>4, JoinIs
      <4>3. WindowIn(E \o V, n, r + 1) = w /\ Len(E) = (r + 1) * n
        BY <1>o, <2>2, <3>4, <3>l, <4>1, WindowNext, SMTT(30)
      <4> HIDE DEF E, n
      <4>4. WindowIn(S, n, r + 1) = w
        BY <3>6, <4>3 DEF E
      <4>5. S = (E \o <<>>) \o V
        BY <3>6, <4>2, JoinNone DEF E
      <4>6. \E F, W \in Seq(Bit) : /\ Len(F) = (IF z.submitted THEN r + 1 ELSE r) * n
                                   /\ Spells(u.requests, Own(c), W)
                                   /\ S = (F \o z.measurements) \o W
        BY <2>2, <3>5, <3>8, <4>2, <4>3, <4>5
      <4>7. \A j \in Jobs(u) : Owner(j) = c => j.result = Decode(WindowIn(S, n, r + 1))
        BY <1>j, <2>3, <3>2, <4>4 DEF w
      <4> QED BY <2>0, <3>5, <4>6, <4>7, Zenon DEF Accounted, z, n
    <3> QED BY <3>7, <3>8
  <2> QED BY <2>4, <2>5
<1> QED BY <1>3, <1>5, <1>6, <1>o DEF OwnInv

\* So does a turn of the loop that admits nothing or finds an overflow.
LEMMA TurnOwn ==
  ASSUME NEW t, NEW tick \in Nat, Settling(t, tick),
         NEW c \in Clients, NEW S, NEW r, NEW k, OwnInv(t, c, S, r, k)
  PROVE  OwnInv(Turn(t, tick), c, S, r, k)
<1>0. TransportInv(t) /\ SentUpTo(t, tick)
  BY DEF Settling
<1>1. CASE ~Admissible(t, tick)
  BY <1>1 DEF Turn
<1>2. CASE Admissible(t, tick)
  <2> DEFINE u == AdmitOne(t, tick)
  <2>0. Turn(t, tick) = u
    BY <1>2 DEF Turn
  <2>1. \/ u = [t EXCEPT !.fault = "WindowOverflow"]
        \/ \E full \in BOOLEAN : Admitted(t, u, full, tick)
    BY <1>0, <1>2, AdmittedIs
  <2> HIDE DEF u
  <2>2. CASE u = [t EXCEPT !.fault = "WindowOverflow"]
    <3>1. /\ u.requests = t.requests /\ u.reset_request = t.reset_request /\ u.jobs = t.jobs
          /\ u.sessions = t.sessions
      BY <1>0, <2>2 DEF TransportInv, TypeInv, IsTransport
    <3>2. Jobs(u) = Jobs(t)
      BY <3>1 DEF Jobs
    <3> QED BY <2>0, <3>1, <3>2, OwnCarry
  <2>3. CASE \E full \in BOOLEAN : Admitted(t, u, full, tick)
    BY <1>0, <1>2, <2>0, <2>3, AdmittedOwn
  <2> QED BY <2>1, <2>2, <2>3
<1> QED BY <1>1, <1>2

\* And the whole loop.
LEMMA AdmitOwn ==
  ASSUME NEW t, NEW tick \in Nat, Settling(t, tick),
         NEW c \in Clients, NEW S, NEW r, NEW k, OwnInv(t, c, S, r, k)
  PROVE  OwnInv(AdmitRequests(t, tick), c, S, r, k)
<1> DEFINE L == Len(t.requests)
<1>1. L \in Nat
  BY ListsSeq DEF Settling, TransportInv, TypeInv
<1>f. PICK f : Passes(t, tick, L, f)
  BY <1>1, AdmitIs
<1>2. /\ AdmitRequests(t, tick) = f[L] /\ f[0] = t
      /\ \A n \in 1..L : f[n] = Turn(f[n - 1], tick)
  BY <1>f DEF Passes
<1> HIDE DEF L
<1> DEFINE Good(n) == Settling(f[n], tick) /\ OwnInv(f[n], c, S, r, k)
           T == {n \in 0..L : Good(n)}
<1>3. 0 \in T
  BY <1>1, <1>2
<1>4. \A n \in 0..(L - 1) : n \in T => n + 1 \in T
  <2> SUFFICES ASSUME NEW n \in 0..(L - 1), Good(n) PROVE Good(n + 1) /\ n + 1 \in 0..L
    OBVIOUS
  <2>1. n + 1 \in 1..L /\ (n + 1) - 1 = n /\ n + 1 \in 0..L
    BY <1>1
  <2>2. f[n + 1] = Turn(f[n], tick)
    BY <1>2, <2>1
  <2>3. Settling(f[n + 1], tick)
    BY <2>2, TurnStep
  <2>4. OwnInv(f[n + 1], c, S, r, k)
    BY <2>2, TurnOwn
  <2> QED BY <2>1, <2>3, <2>4
<1>5. \A n \in 0..L : n \in T
  <2> HIDE DEF T
  <2> QED BY <1>1, <1>3, <1>4, UpTo
<1>6. L \in 0..L
  BY <1>1
<1> QED BY <1>2, <1>5, <1>6

\* Sending a result changes no result.
LEMMA RespondedOwn ==
  ASSUME NEW t, TransportInv(t), NEW u, NEW first \in Unsent(t), NEW end, Responded(t, u, first, end),
         NEW c \in Clients, NEW S, NEW r, NEW k, OwnInv(t, c, S, r, k)
  PROVE  OwnInv(u, c, S, r, k)
<1> DEFINE j == t.jobs[first]
           g == [j EXCEPT !.arrival = <<end + LinkLatency>>]
<1>1. /\ u.sessions = t.sessions /\ u.requests = t.requests /\ u.reset_request = t.reset_request
      /\ u.jobs = [t.jobs EXCEPT ![first] = g]
  BY DEF Responded
<1>2. IsJob(j) /\ j \in Jobs(t) /\ first \in 1..Len(t.jobs)
  BY DEF Unsent, Jobs, TransportInv, TypeInv
<1>3. g.result = j.result /\ Owner(g) = Owner(j)
  <2> DEFINE v == <<end + LinkLatency>>
  <2>1. g = [j EXCEPT !.arrival = v]
    OBVIOUS
  <2> HIDE DEF v, g, j
  <2> QED BY <1>2, <2>1 DEF IsJob, Owner
<1> HIDE DEF g
<1>4. Len(t.jobs) \in Nat /\ IsSeq(t.jobs)
  BY ListsSeq DEF TransportInv, TypeInv
<1>5. DOMAIN t.jobs = 1..Len(t.jobs)
  BY <1>4, IsSeqLen
<1>6. DOMAIN u.jobs = 1..Len(t.jobs) /\ \A i \in 1..Len(t.jobs) : u.jobs[i] = IF i = first THEN g ELSE t.jobs[i]
  BY <1>1, <1>5
<1>7. Len(u.jobs) = Len(t.jobs)
  BY <1>4, <1>6
<1>8. \A x \in Jobs(u) : \E y \in Jobs(t) : Owner(y) = Owner(x) /\ x.result = y.result
  BY <1>2, <1>3, <1>6, <1>7 DEF Jobs
<1> QED BY <1>1, <1>8, OwnCarry

\* How many results a barrier returns to client c.
Back(t, tick, c) ==
  Cardinality({i \in 1..Len(t.jobs) : Returned(t.jobs[i], tick) /\ Owner(t.jobs[i]) = c})

\* At most one result returns to a client at a tick.
LEMMA BackIs ==
  ASSUME NEW t, TransportInv(t), NEW tick \in Nat, NEW c \in Clients
  PROVE  Back(t, tick, c) = IF Answered(t, tick, c) THEN 1 ELSE 0
<1> DEFINE P == {i \in 1..Len(t.jobs) : Returned(t.jobs[i], tick) /\ Owner(t.jobs[i]) = c}
<1>t. /\ \A i, k \in 1..Len(t.jobs) : t.jobs[i] = t.jobs[k] => i = k
      /\ \A x, y \in Jobs(t) : Owner(x) = Owner(y) => x = y
  BY DEF TransportInv, TypeInv, SlotInv, Lists
<1>1. CASE Answered(t, tick, c)
  <2>1. PICK i \in 1..Len(t.jobs) : Returned(t.jobs[i], tick) /\ Owner(t.jobs[i]) = c
    BY <1>1 DEF Answered, Jobs
  <2>2. \A m \in P : m = i
    BY <1>t, <2>1 DEF Jobs
  <2>3. P = {i}
    BY <2>1, <2>2
  <2> HIDE DEF P
  <2>4. Cardinality(P) = 1
    BY <2>3, FS_Singleton
  <2> QED BY <1>1, <2>4 DEF Back, P
<1>2. CASE ~Answered(t, tick, c)
  <2>1. P = {}
    BY <1>2 DEF Answered, Jobs
  <2> HIDE DEF P
  <2>2. Cardinality(P) = 0
    BY <2>1, FS_EmptySet
  <2> QED BY <1>2, <2>2 DEF Back, P
<1> QED BY <1>1, <1>2

\* A step of the transport keeps the account of every client.
LEMMA StepOwn ==
  ASSUME NEW t, TransportInv(t), NEW tick \in Nat,
         NEW c \in Clients, NEW S, NEW r, NEW k, OwnInv(t, c, S, r, k)
  PROVE  LET back == Back(AdvanceTransmission(t, tick), tick, c)
         IN  IF Clears(t, tick, c) THEN OwnInv(StepTransport(t, tick), c, S, 0, 0)
             ELSE OwnInv(StepTransport(t, tick), c, S, r + back, k)
<1> DEFINE a == AdvanceTransmission(t, tick)
           b == AdvanceJobs(a, tick)
           d == AdmitRequests(b, tick)
           e == TransmitResult(d, tick)
           back == Back(a, tick, c)
<1>0. StepTransport(t, tick) = e
  BY DEF StepTransport
<1>1. Transmitted(t, tick, a) /\ TransportInv(a) /\ SentUpTo(a, tick)
  BY TransmittedIs, TransmissionStep
<1>2. IF Clears(t, tick, c) THEN OwnInv(a, c, S, 0, 0) ELSE OwnInv(a, c, S, r, k)
  BY TransmissionOwn
<1> SUFFICES IF Clears(t, tick, c) THEN OwnInv(e, c, S, 0, 0) ELSE OwnInv(e, c, S, r + back, k)
  BY <1>0
<1> HIDE DEF a
<1>3. \A q, n : OwnInv(a, c, S, q, n) => OwnInv(b, c, S, IF Answered(a, tick, c) THEN q + 1 ELSE q, n)
  BY <1>1, JobsOwn
<1>4. Settling(b, tick)
  BY <1>1, WorkedIs, JobsStep DEF Settling
<1> HIDE DEF b
<1>5. \A q, n : OwnInv(b, c, S, q, n) => OwnInv(d, c, S, q, n)
  BY <1>4, AdmitOwn
<1>6. Settling(d, tick)
  BY <1>4, AdmitStep
<1> HIDE DEF d
<1>7. \A q, n : OwnInv(d, c, S, q, n) => OwnInv(e, c, S, q, n)
  <2>1. CASE d.rx_available > tick \/ Unsent(d) = {}
    BY <2>1 DEF TransmitResult
  <2>2. CASE ~(d.rx_available > tick) /\ Unsent(d) # {}
    <3>1. PICK first \in Unsent(d), end \in Nat : tick < end /\ Responded(d, e, first, end)
      BY <1>6, <2>2, RespondedIs DEF Settling
    <3> HIDE DEF e
    <3> QED BY <1>6, <3>1, RespondedOwn DEF Settling
  <2> QED BY <2>1, <2>2
<1> HIDE DEF e
<1>8. \A q, n : OwnInv(a, c, S, q, n) => OwnInv(e, c, S, IF Answered(a, tick, c) THEN q + 1 ELSE q, n)
  BY <1>3, <1>5, <1>7, Zenon
<1>9. CASE Clears(t, tick, c)
  <2>1. a.sessions[c] = ClearSession
    BY <1>1, <1>9 DEF Transmitted
  <2>2. ~Answered(a, tick, c)
    BY <1>1, <2>1, ClearIs DEF Answered, TransportInv, SlotInv
  <2> QED BY <1>2, <1>8, <1>9, <2>2, Zenon
<1>10. CASE ~Clears(t, tick, c)
  <2>1. back = IF Answered(a, tick, c) THEN 1 ELSE 0
    BY <1>1, BackIs
  <2>2. r \in Nat
    BY DEF OwnInv
  <2> HIDE DEF back
  <2>3. r + back = IF Answered(a, tick, c) THEN r + 1 ELSE r
    BY <2>1, <2>2
  <2> QED BY <1>2, <1>8, <1>10, <2>3
<1> QED BY <1>9, <1>10

-----------------------------------------------------------------------------
(* The account and the commands.                                           *)

\* More bits at the end of a stream.
LEMMA LongerAccounted ==
  ASSUME NEW t, TransportInv(t), NEW u, NEW c \in Clients, NEW S \in Seq(Bit), NEW r \in Nat, NEW k \in Nat,
         Accounted(t, c, S, r, k), NEW b \in Seq(Bit),
         u.sessions[c] = t.sessions[c], Jobs(u) = Jobs(t),
         \A T : Spells(t.requests, Own(c), T) => Spells(u.requests, Own(c), T \o b)
  PROVE  Accounted(u, c, S \o b, r, k)
<1> DEFINE n == Quota(c)
           s == t.sessions[c]
           m == s.measurements
<1>t. /\ IsSession(s)
      /\ s.submitted <=> \E j \in Jobs(t) : Owner(j) = c
  BY DEF TransportInv, TypeInv, SlotInv
<1>m. m \in Seq(Bit) /\ n \in Nat \ {0}
  BY <1>t, SessionFields, QuotaNat DEF Bit
<1>0. /\ k <= r /\ (s.result # <<>> <=> k < r)
      /\ s.result # <<>> => s.result = <<Total(S, n, k + 1, r)>>
      /\ \A j \in Jobs(t) : Owner(j) = c => j.result = Decode(WindowIn(S, n, r + 1))
  BY DEF Accounted
<1>1. PICK D, U \in Seq(Bit) : /\ Len(D) = (IF s.submitted THEN r + 1 ELSE r) * n
                               /\ Spells(t.requests, Own(c), U)
                               /\ S = (D \o m) \o U
  BY DEF Accounted
<1>2. Spells(u.requests, Own(c), U \o b) /\ U \o b \in Seq(Bit)
  BY <1>1, JoinIs
<1> HIDE DEF n, s, m
<1>3. S \o b = (D \o m) \o (U \o b)
  <2>1. D \o m \in Seq(Bit)
    BY <1>1, <1>m, JoinIs
  <2>2. ((D \o m) \o U) \o b = (D \o m) \o (U \o b)
    BY <1>1, <2>1, JoinAssoc, ZenonT(30)
  <2> QED BY <1>1, <2>2
<1>4. Len(D) <= Len(S) /\ Len(S) \in Nat /\ Len(D) \in Nat
  <2>1. D \o m \in Seq(Bit) /\ Len(D \o m) = Len(D) + Len(m) /\ Len(D) \in Nat /\ Len(m) \in Nat
    BY <1>1, <1>m, JoinIs
  <2>2. Len((D \o m) \o U) = Len(D \o m) + Len(U) /\ Len(U) \in Nat
    BY <1>1, <2>1, JoinIs
  <2> QED BY <1>1, <2>1, <2>2
<1>5. r * n \in Nat /\ (r + 1) * n = r * n + n
  BY <1>m, Product
<1>6. r * n <= Len(S)
  <2>1. CASE s.submitted
    <3>1. Len(D) = (r + 1) * n
      BY <1>1, <2>1
    <3> QED BY <1>4, <1>5, <1>m, <3>1
  <2>2. CASE ~s.submitted
    <3>1. Len(D) = r * n
      BY <1>1, <2>2
    <3> QED BY <1>4, <3>1
  <2> QED BY <2>1, <2>2
<1>7. Total(S \o b, n, k + 1, r) = Total(S, n, k + 1, r)
  BY <1>0, <1>6, <1>m, TotalPrefix
<1>8. ASSUME NEW j \in Jobs(t), Owner(j) = c PROVE j.result = Decode(WindowIn(S \o b, n, r + 1))
  <2>1. s.submitted
    BY <1>8, <1>t
  <2> DEFINE R == r + 1
  <2>2. Len(D) = R * n /\ R \in Nat \ {0}
    BY <1>1, <2>1
  <2>3. R * n <= Len(S)
    BY <1>4, <2>2
  <2> HIDE DEF R
  <2>4. WindowIn(S \o b, n, R) = WindowIn(S, n, R)
    BY <1>m, <2>2, <2>3, WindowFits, ZenonT(30)
  <2> QED BY <1>0, <1>8, <2>4 DEF R
<1>9. \E E, V \in Seq(Bit) : /\ Len(E) = (IF s.submitted THEN r + 1 ELSE r) * n
                             /\ Spells(u.requests, Own(c), V)
                             /\ S \o b = (E \o m) \o V
  BY <1>1, <1>2, <1>3
<1> QED BY <1>0, <1>7, <1>8, <1>9, Zenon DEF Accounted, n, s, m

\* Submitting bits.
LEMMA SubmitOwn ==
  ASSUME NEW t, TransportInv(t), NEW u, NEW m, m.kind = "Submit",
         NEW p \in Packet, NEW end \in Nat, p.id = t.next, Posted(t, u, m, p, end),
         NEW c \in Clients, NEW S, NEW r, NEW k, OwnInv(t, c, S, r, k)
  PROVE  OwnInv(u, c, IF c = Owner(p) THEN S \o p.bits ELSE S, r, k)
<1>1. /\ u.sessions = t.sessions /\ u.jobs = t.jobs /\ u.requests = Append(t.requests, p)
      /\ u.reset_request = t.reset_request
  BY DEF Posted
<1>2. Jobs(u) = Jobs(t) /\ Resets(u) = Resets(t) /\ (Pending(u, c) <=> Pending(t, c))
  BY <1>1 DEF Jobs, Resets, Pending
<1>o. S \in Seq(Bit) /\ r \in Nat /\ k \in Nat
  BY DEF OwnInv
<1>3. IsSeq(t.requests)
  BY ListsSeq DEF TransportInv, TypeInv
<1>4. Own(c) \subseteq Packet /\ \A q : After(c, q) \subseteq Packet
  BY DEF Own, After
<1>s. \A X \in SUBSET Packet : \A T :
        Spells(t.requests, X, T) => Spells(u.requests, X, IF p \in X THEN T \o p.bits ELSE T)
  <2> TAKE X \in SUBSET Packet
  <2> TAKE T
  <2> HAVE Spells(t.requests, X, T)
  <2> DEFINE z == t.requests
  <2>1. IsSeq(z) /\ Spells(z, X, T) /\ X \subseteq Packet
    BY <1>3
  <2> HIDE DEF z
  <2>2. Spells(Append(z, p), X, IF p \in X THEN T \o p.bits ELSE T)
    BY <2>1, SpellsAppend
  <2> QED BY <1>1, <2>2 DEF z
<1>5. CASE c # Owner(p)
  <2>1. p \notin Own(c) /\ \A q : p \notin After(c, q)
    BY <1>5 DEF Own, After
  <2>2. \A T : Spells(t.requests, Own(c), T) => Spells(u.requests, Own(c), T)
    BY <1>4, <1>s, <2>1
  <2>3. \A T, q : Spells(t.requests, After(c, q), T) => Spells(u.requests, After(c, q), T)
    BY <1>4, <1>s, <2>1
  <2>4. Accounted(t, c, S, r, k) => Accounted(u, c, S, r, k)
    BY <1>1, <1>2, <2>2 DEF Accounted
  <2>5. OwnInv(u, c, S, r, k)
    BY <1>2, <1>o, <2>3, <2>4 DEF OwnInv
  <2> QED BY <1>5, <2>5
<1>6. CASE c = Owner(p)
  <2> DEFINE b == p.bits
  <2>1. p \in Own(c) /\ b \in Seq(Bit)
    BY <1>6, PacketFields DEF Own, Bit
  <2>2. \A q \in Resets(t) : p \in After(c, q.id)
    BY <2>1 DEF After, TransportInv, IdInv, Packets
  <2>3. \A T : Spells(t.requests, Own(c), T) => Spells(u.requests, Own(c), T \o b)
    BY <1>4, <1>s, <2>1
  <2>4. \A q \in Resets(t) : \A T : Spells(t.requests, After(c, q.id), T) => Spells(u.requests, After(c, q.id), T \o b)
    BY <1>4, <1>s, <2>2
  <2> HIDE DEF b
  <2>5. Accounted(t, c, S, r, k) => Accounted(u, c, S \o b, r, k)
    BY <1>1, <1>2, <1>o, <2>1, <2>3, LongerAccounted
  <2>6. S \o b \in Seq(Bit)
    BY <1>o, <2>1, JoinIs
  <2>7. OwnInv(u, c, S \o b, r, k)
    BY <1>2, <1>o, <2>4, <2>5, <2>6 DEF OwnInv
  <2> QED BY <1>6, <2>7 DEF b
<1> QED BY <1>5, <1>6

\* Sending a reset: nothing that was sent before it counts any more.
LEMMA ResetOwn ==
  ASSUME NEW t, TransportInv(t), NEW u, NEW m, m.kind = "Reset", ~HeldBack(t, m),
         NEW p \in Packet, NEW end \in Nat, p.id = t.next, Posted(t, u, m, p, end),
         NEW c \in Clients, NEW S, NEW r, NEW k, OwnInv(t, c, S, r, k)
  PROVE  OwnInv(u, c, IF c = Owner(p) THEN <<>> ELSE S, r, k)
<1>1. /\ u.sessions = t.sessions /\ u.jobs = t.jobs /\ u.requests = t.requests
      /\ u.reset_request = <<p>> /\ t.reset_request = <<>>
  BY DEF Posted, HeldBack
<1>2. Jobs(u) = Jobs(t) /\ Resets(u) = {p} /\ Resets(t) = {}
  <2>1. Len(<<p>>) = 1 /\ <<p>>[1] = p /\ Len(<<>>) = 0
    OBVIOUS
  <2> QED BY <1>1, <2>1 DEF Jobs, Resets
<1>o. S \in Seq(Bit) /\ r \in Nat /\ k \in Nat
  BY DEF OwnInv
<1>3. CASE c # Owner(p)
  <2>1. ~Pending(u, c) /\ ~Pending(t, c)
    BY <1>2, <1>3 DEF Pending
  <2>2. Accounted(t, c, S, r, k)
    BY <2>1 DEF OwnInv
  <2>3. Accounted(u, c, S, r, k)
    BY <1>1, <1>2, <2>2 DEF Accounted
  <2>4. OwnInv(u, c, S, r, k)
    BY <1>2, <1>3, <1>o, <2>1, <2>3 DEF OwnInv
  <2> QED BY <1>3, <2>4
<1>4. CASE c = Owner(p)
  <2>1. Pending(u, c)
    BY <1>2, <1>4 DEF Pending
  <2>2. \A i \in 1..Len(t.requests) : t.requests[i] \notin After(c, p.id)
    <3> TAKE i \in 1..Len(t.requests)
    <3>1. t.requests[i] \in Requests(t)
      BY DEF Requests
    <3>2. t.requests[i].id \in Nat /\ t.requests[i].id < p.id /\ p.id \in Nat
      BY <3>1, PacketFields DEF TransportInv, TypeInv, IdInv, Packets
    <3>3. ~(p.id < t.requests[i].id)
      BY <3>2
    <3> QED BY <3>3 DEF After
  <2>3. Len(t.requests) \in Nat
    BY ListsSeq DEF TransportInv, TypeInv
  <2>4. Spells(u.requests, After(c, p.id), <<>>)
    BY <1>1, <2>2, <2>3, SpellsNone
  <2>5. <<>> \in Seq(Bit)
    OBVIOUS
  <2>6. OwnInv(u, c, <<>>, r, k)
    BY <1>2, <1>o, <2>1, <2>4, <2>5 DEF OwnInv
  <2> QED BY <1>4, <2>6
<1> QED BY <1>3, <1>4

\* Consuming the results.
LEMMA ConsumeOwn ==
  ASSUME NEW t, TransportInv(t), NEW d \in Clients, Consumable(t.sessions[d]),
         NEW u, u.requests = t.requests, u.reset_request = t.reset_request, u.jobs = t.jobs,
         \A e \in Clients : u.sessions[e] = IF e = d THEN ClearSession ELSE t.sessions[e],
         NEW c \in Clients, NEW S, NEW r, NEW k, OwnInv(t, c, S, r, k)
  PROVE  OwnInv(u, c, S, r, IF c = d THEN r ELSE k)
<1>2. Jobs(u) = Jobs(t) /\ Resets(u) = Resets(t) /\ (Pending(u, c) <=> Pending(t, c))
  BY DEF Jobs, Resets, Pending
<1>o. S \in Seq(Bit) /\ r \in Nat /\ k \in Nat
  BY DEF OwnInv
<1>3. u.sessions[c] = IF c = d THEN ClearSession ELSE t.sessions[c]
  OBVIOUS
<1>4. CASE c # d
  <2>1. u.sessions[c] = t.sessions[c]
    BY <1>3, <1>4
  <2>2. \A x \in Jobs(u) : Owner(x) = c => \E y \in Jobs(t) : Owner(y) = c /\ x.result = y.result
    BY <1>2
  <2>3. OwnInv(u, c, S, r, k)
    BY <2>1, <2>2, OwnCarry
  <2> QED BY <1>4, <2>3
<1>5. CASE c = d
  <2>1. ASSUME Accounted(t, c, S, r, k) PROVE Accounted(u, c, S, r, r)
    <3> DEFINE s == t.sessions[c]
               w == u.sessions[c]
               n == Quota(c)
    <3>1. ~s.submitted /\ s.measurements = <<>>
      BY <1>5 DEF Consumable
    <3>2. ~w.submitted /\ w.measurements = <<>> /\ w.result = <<>>
      BY <1>3, <1>5, ClearIs
    <3>3. \E D, U \in Seq(Bit) : /\ Len(D) = (IF s.submitted THEN r + 1 ELSE r) * n
                                 /\ Spells(t.requests, Own(c), U)
                                 /\ S = (D \o s.measurements) \o U
      BY <2>1 DEF Accounted
    <3>4. \E D, U \in Seq(Bit) : /\ Len(D) = (IF w.submitted THEN r + 1 ELSE r) * n
                                 /\ Spells(u.requests, Own(c), U)
                                 /\ S = (D \o w.measurements) \o U
      BY <3>1, <3>2, <3>3
    <3>5. r <= r /\ ~(r < r)
      BY <1>o
    <3>6. \A j \in Jobs(u) : Owner(j) = c => j.result = Decode(WindowIn(S, n, r + 1))
      BY <1>2, <2>1 DEF Accounted
    <3> QED BY <3>2, <3>4, <3>5, <3>6, Zenon DEF Accounted
  <2>2. OwnInv(u, c, S, r, r)
    BY <1>2, <1>o, <2>1 DEF OwnInv
  <2> QED BY <1>5, <2>2
<1> QED BY <1>4, <1>5

-----------------------------------------------------------------------------
(* The history.                                                            *)

\* The history of every client agrees with the transport.
HistoryInv ==
  /\ stream \in [Clients -> Seq(Bit)] /\ returned \in [Clients -> Nat] /\ taken \in [Clients -> Nat]
  /\ \A c \in Clients : OwnInv(transport, c, stream[c], returned[c], taken[c])

\* A command changes the history exactly as it changes the transport.
LEMMA ExecuteOwn ==
  ASSUME TransportInv(transport), HistoryInv, now \in Nat, NEW core \in Cores, NEW m, IsCommand(m),
         ~CommandFaults(transport, core, m), ~HeldBack(transport, m),
         transport' = Execute(transport, core, m), Record(core, m)
  PROVE  HistoryInv'
<1> DEFINE t == transport
           u == transport'
           d == <<core, m.decoder>>
<1>h. /\ stream \in [Clients -> Seq(Bit)] /\ returned \in [Clients -> Nat] /\ taken \in [Clients -> Nat]
      /\ \A c \in Clients : OwnInv(t, c, stream[c], returned[c], taken[c])
  BY DEF HistoryInv
<1>1. CASE m.kind = "Consume"
  <2>1. d \in Clients /\ Consumable(t.sessions[d])
    BY <1>1 DEF CommandFaults, IsCommand, Clients
  <2>2. u = [t EXCEPT !.sessions[d] = ClearSession]
    BY <1>1 DEF Execute
  <2>3. taken' = [taken EXCEPT ![d] = returned[d]] /\ UNCHANGED <<stream, returned>>
    BY <1>1 DEF Record
  <2> HIDE DEF u, d
  <2>4. \A c \in Clients : OwnInv(u, c, stream[c], returned[c], IF c = d THEN returned[c] ELSE taken[c])
    <3>1. /\ u.requests = t.requests /\ u.reset_request = t.reset_request /\ u.jobs = t.jobs
          /\ u.sessions = [t.sessions EXCEPT ![d] = ClearSession]
          /\ t.sessions = [e \in Clients |-> t.sessions[e]]
      BY <2>2 DEF TransportInv, TypeInv, IsTransport
    <3>2. \A e \in Clients : u.sessions[e] = IF e = d THEN ClearSession ELSE t.sessions[e]
      BY <2>1, <3>1
    <3> QED BY <1>h, <2>1, <3>1, <3>2, ConsumeOwn
  <2>5. taken' \in [Clients -> Nat] /\ \A c \in Clients : taken'[c] = IF c = d THEN returned[c] ELSE taken[c]
    BY <1>h, <2>1, <2>3
  <2> QED BY <1>h, <2>3, <2>4, <2>5 DEF HistoryInv, u
<1>2. CASE m.kind \in {"Submit", "Reset"}
  <2>1. u = Transmit(t, core, m)
    BY <1>2 DEF Execute
  <2>2. PICK p \in Packet, end \in Nat :
          /\ p.id = t.next /\ t.tx_available < end /\ p.arrival = end + LinkLatency
          /\ Owner(p) = d /\ (m.kind = "Submit" => p.bits = m.bits)
          /\ Posted(t, Transmit(t, core, m), m, p, end)
    BY <1>2, PostedIs
  <2>3. Posted(t, u, m, p, end)
    BY <2>1, <2>2
  <2>4. d \in Clients
    BY <1>2 DEF IsCommand, Clients
  <2> HIDE DEF u
  <2>5. CASE m.kind = "Submit"
    <3>1. stream' = [stream EXCEPT ![d] = @ \o m.bits] /\ UNCHANGED <<returned, taken>>
      BY <2>5 DEF Record
    <3> HIDE DEF d
    <3>2. \A c \in Clients : OwnInv(u, c, IF c = Owner(p) THEN stream[c] \o p.bits ELSE stream[c], returned[c], taken[c])
      BY <1>h, <2>2, <2>3, <2>5, SubmitOwn
    <3>3. \A c \in Clients : stream'[c] = IF c = Owner(p) THEN stream[c] \o p.bits ELSE stream[c]
      BY <1>h, <2>2, <2>4, <2>5, <3>1
    <3>4. stream' = [c \in Clients |-> stream'[c]]
      BY <1>h, <3>1
    <3>5. \A c \in Clients : OwnInv(u, c, stream'[c], returned[c], taken[c])
      BY <3>2, <3>3
    <3>6. stream' \in [Clients -> Seq(Bit)]
      BY <3>4, <3>5 DEF OwnInv
    <3> QED BY <1>h, <3>1, <3>5, <3>6 DEF HistoryInv, u
  <2>6. CASE m.kind = "Reset"
    <3>1. stream' = [stream EXCEPT ![d] = <<>>] /\ UNCHANGED <<returned, taken>>
      BY <2>6 DEF Record
    <3> HIDE DEF d
    <3>2. \A c \in Clients : OwnInv(u, c, IF c = Owner(p) THEN <<>> ELSE stream[c], returned[c], taken[c])
      BY <1>h, <2>2, <2>3, <2>6, ResetOwn
    <3>3. \A c \in Clients : stream'[c] = IF c = Owner(p) THEN <<>> ELSE stream[c]
      BY <1>h, <2>2, <2>4, <3>1
    <3>4. stream' = [c \in Clients |-> stream'[c]]
      BY <1>h, <3>1
    <3>5. \A c \in Clients : OwnInv(u, c, stream'[c], returned[c], taken[c])
      BY <3>2, <3>3
    <3>6. stream' \in [Clients -> Seq(Bit)]
      BY <3>4, <3>5 DEF OwnInv
    <3> QED BY <1>h, <3>1, <3>5, <3>6 DEF HistoryInv, u
  <2> QED BY <1>2, <2>5, <2>6
<1>3. CASE m.kind \notin {"Consume", "Submit", "Reset"}
  <2>1. u = t /\ UNCHANGED <<stream, returned, taken>>
    BY <1>3 DEF Execute, Record, historyVars
  <2> QED BY <1>h, <2>1 DEF HistoryInv
<1> QED BY <1>1, <1>2, <1>3

\* The account of a fresh transport is empty.
LEMMA ClearOwn ==
  ASSUME NEW n, NEW c \in Clients
  PROVE  OwnInv(ClearTransport(n), c, <<>>, 0, 0)
<1> DEFINE u == ClearTransport(n)
           s == u.sessions[c]
<1>1. u.requests = <<>> /\ u.reset_request = <<>> /\ u.jobs = <<>> /\ s = ClearSession
  BY DEF ClearTransport
<1> SUFFICES OwnInv(u, c, <<>>, 0, 0)
  OBVIOUS
<1> HIDE DEF u
<1>2. Resets(u) = {} /\ Jobs(u) = {}
  <2>1. 1..Len(<<>>) = {}
    OBVIOUS
  <2> QED BY <1>1, <2>1 DEF Resets, Jobs
<1>3. ~s.submitted /\ s.measurements = <<>> /\ s.result = <<>>
  BY <1>1, ClearIs
<1>4. <<>> \in Seq(Bit) /\ Len(<<>>) = 0 /\ <<>> = (<<>> \o <<>>) \o <<>> /\ 0 * Quota(c) = 0
  <2>1. <<>> \in Seq(Bit) /\ Len(<<>>) = 0
    OBVIOUS
  <2> QED BY <2>1, JoinNone, QuotaNat
<1>5. Spells(u.requests, Own(c), <<>>)
  BY <1>1, SpellsEmpty
<1> HIDE DEF s
<1>6. \E D, U \in Seq(Bit) : /\ Len(D) = (IF s.submitted THEN 0 + 1 ELSE 0) * Quota(c)
                             /\ Spells(u.requests, Own(c), U)
                             /\ <<>> = (D \o s.measurements) \o U
  BY <1>3, <1>4, <1>5
<1>7. 0 <= 0 /\ ~(0 < 0) /\ 0 \in Nat
  OBVIOUS
<1>8. Accounted(u, c, <<>>, 0, 0)
  BY <1>2, <1>3, <1>6, <1>7, Zenon DEF Accounted, s
<1> QED BY <1>2, <1>4, <1>7, <1>8, Zenon DEF OwnInv

\* So the simulation begins with it.
LEMMA ClearHistory ==
  ASSUME NEW n, transport = ClearTransport(n), stream = [c \in Clients |-> <<>>],
         returned = [c \in Clients |-> 0], taken = [c \in Clients |-> 0]
  PROVE  HistoryInv
<1>1. \A c \in Clients : OwnInv(transport, c, <<>>, 0, 0)
  BY ClearOwn
<1>2. <<>> \in Seq(Bit)
  OBVIOUS
<1> QED BY <1>1, <1>2 DEF HistoryInv

\* An access keeps the accounts.
LEMMA AccessOwn ==
  ASSUME WorldInv, TransportInv(transport), HistoryInv, NEW core \in Cores, Access(core)
  PROVE  HistoryInv'
<1>1. PICK q \in Offered(core) : \E access \in {MmioAccess(registers[core], q)} :
        LET command == access.command
        IN  \/ /\ CommandFaults(transport, core, command)
               /\ halted' = halted \cup {core}
               /\ UNCHANGED <<transport, registers, made, pending, historyVars>>
            \/ /\ ~CommandFaults(transport, core, command)
               /\ HeldBack(transport, command)
               /\ pending' = [pending EXCEPT ![core] = <<q>>]
               /\ UNCHANGED <<transport, registers, made, halted, historyVars>>
            \/ /\ ~CommandFaults(transport, core, command)
               /\ ~HeldBack(transport, command)
               /\ registers' = [registers EXCEPT ![core] = access.registers]
               /\ transport' = Execute(transport, core, command)
               /\ made' = [made EXCEPT ![core] = @ + 1]
               /\ pending' = [pending EXCEPT ![core] = <<>>]
               /\ Record(core, command)
               /\ UNCHANGED halted
  BY DEF Access
<1> DEFINE a == MmioAccess(registers[core], q)
<1>2. IsCommand(a.command) /\ now \in Nat
  <2>1. q \in Accesses
    BY OfferedIs
  <2>2. registers[core] \in Registers /\ now \in Nat
    BY DEF WorldInv
  <2> QED BY <2>1, <2>2, MmioIs
<1>3. \/ UNCHANGED <<transport, historyVars>>
      \/ /\ ~CommandFaults(transport, core, a.command) /\ ~HeldBack(transport, a.command)
         /\ transport' = Execute(transport, core, a.command) /\ Record(core, a.command)
  BY <1>1
<1> HIDE DEF a
<1>4. CASE UNCHANGED <<transport, historyVars>>
  BY <1>4 DEF HistoryInv, historyVars
<1>5. CASE /\ ~CommandFaults(transport, core, a.command) /\ ~HeldBack(transport, a.command)
           /\ transport' = Execute(transport, core, a.command) /\ Record(core, a.command)
  BY <1>2, <1>5, ExecuteOwn
<1> QED BY <1>3, <1>4, <1>5

\* A barrier keeps the accounts.
LEMMA BarrierOwn ==
  ASSUME WorldInv, TransportInv(transport), HistoryInv, Barrier
  PROVE  HistoryInv'
<1> DEFINE back(c) == Back(AdvanceTransmission(transport, now), now, c)
<1>h. /\ stream \in [Clients -> Seq(Bit)] /\ returned \in [Clients -> Nat] /\ taken \in [Clients -> Nat]
      /\ \A c \in Clients : OwnInv(transport, c, stream[c], returned[c], taken[c])
  BY DEF HistoryInv
<1>1. /\ transport' = StepTransport(transport, now) /\ UNCHANGED stream
      /\ returned' = [c \in Clients |-> IF Clears(transport, now, c) THEN 0 ELSE returned[c] + back(c)]
      /\ taken' = [c \in Clients |-> IF Clears(transport, now, c) THEN 0 ELSE taken[c]]
  BY DEF Barrier, Back, Clears
<1>2. now \in Nat
  BY DEF WorldInv
<1>3. \A c \in Clients :
        IF Clears(transport, now, c) THEN OwnInv(transport', c, stream[c], 0, 0)
        ELSE OwnInv(transport', c, stream[c], returned[c] + back(c), taken[c])
  BY <1>1, <1>2, <1>h, StepOwn
<1> HIDE DEF back
<1>4. \A c \in Clients : OwnInv(transport', c, stream[c], returned'[c], taken'[c])
  BY <1>1, <1>3
<1>5. \A c \in Clients : returned'[c] \in Nat /\ taken'[c] \in Nat
  BY <1>4 DEF OwnInv
<1>6. returned' = [c \in Clients |-> returned'[c]] /\ taken' = [c \in Clients |-> taken'[c]]
  BY <1>1
<1>7. returned' \in [Clients -> Nat] /\ taken' \in [Clients -> Nat]
  BY <1>5, <1>6
<1> QED BY <1>1, <1>4, <1>7, <1>h DEF HistoryInv

\* Every step keeps them.
LEMMA NextHistory == Inv /\ HistoryInv /\ [Next]_vars => HistoryInv'
<1> SUFFICES ASSUME Inv, HistoryInv, [Next]_vars PROVE HistoryInv'
  OBVIOUS
<1>1. WorldInv /\ TransportInv(transport)
  BY DEF Inv
<1>2. CASE MemoryEdge
  <2>1. served + 1 \in Cores
    BY <1>1, <1>2, ConstantsNat DEF MemoryEdge, WorldInv, Cores
  <2>2. CASE Access(served + 1)
    BY <1>1, <2>1, <2>2, AccessOwn
  <2>3. CASE UNCHANGED <<transport, registers, cpuVars, historyVars>>
    BY <2>3 DEF HistoryInv, historyVars
  <2> QED BY <1>2, <2>2, <2>3 DEF MemoryEdge
<1>3. CASE Barrier
  BY <1>1, <1>3, BarrierOwn
<1>4. CASE AdvanceTick
  BY <1>4 DEF AdvanceTick, HistoryInv, historyVars
<1>5. CASE ResetSession
  <2>1. \A c \in Clients : OwnInv(transport', c, <<>>, 0, 0)
    BY <1>5, ClearOwn DEF ResetSession
  <2>2. <<>> \in Seq(Bit)
    OBVIOUS
  <2>3. stream' = [c \in Clients |-> <<>>] /\ returned' = [c \in Clients |-> 0] /\ taken' = [c \in Clients |-> 0]
    BY <1>5 DEF ResetSession
  <2> QED BY <2>1, <2>2, <2>3 DEF HistoryInv
<1>6. CASE UNCHANGED vars
  BY <1>6 DEF vars, HistoryInv, historyVars
<1> QED BY <1>2, <1>3, <1>4, <1>5, <1>6 DEF Next, Stopped

\* In every reachable state the submitted bits of every client, since its last
\* reset command, are accounted for: returned windows, the job under way, the open
\* window and the packets on the link, in this order (submit, admit_requests,
\* advance_jobs and the cancellation in decoder.cpp).
THEOREM DecoderHistory == Spec => []HistoryInv
<1>1. Init => HistoryInv
  BY ClearHistory DEF Init
<1> QED BY <1>1, DecoderInvariant, NextHistory, PTL DEF Spec

\* The account of a client that is not busy is closed.
LEMMA InvCorrections == Inv /\ HistoryInv => CorrectionsAreOwnWork
<1> SUFFICES ASSUME Inv, HistoryInv, NEW c \in Clients, ~IsBusy(transport, c)
             PROVE  /\ Len(stream[c]) = returned[c] * DecoderConfig[c[2]].measurements
                    /\ IsReady(transport, c) <=> returned[c] > taken[c]
                    /\ IsReady(transport, c) =>
                         transport.sessions[c].result[1] = Corrections(c, taken[c] + 1, returned[c])
  BY DEF CorrectionsAreOwnWork
<1> DEFINE t == transport
           s == t.sessions[c]
           S == stream[c]
           r == returned[c]
           k == taken[c]
           n == Quota(c)
<1>1. /\ ~s.submitted /\ s.measurements = <<>> /\ ~Pending(t, c)
      /\ \A i \in 1..Len(t.requests) : t.requests[i] \notin Own(c)
  BY DEF IsBusy, Pending, Resets, Own
<1>2. Accounted(t, c, S, r, k) /\ r \in Nat /\ k \in Nat
  BY <1>1 DEF HistoryInv, OwnInv
<1>3. PICK D, U \in Seq(Bit) : /\ Len(D) = (IF s.submitted THEN r + 1 ELSE r) * n
                               /\ Spells(t.requests, Own(c), U)
                               /\ S = (D \o s.measurements) \o U
  BY <1>2 DEF Accounted
<1>4. Len(t.requests) \in Nat
  BY ListsSeq DEF Inv, TransportInv, TypeInv
<1>5. U = <<>>
  BY <1>1, <1>3, <1>4, SpellsNone
<1>6. S = D
  BY <1>1, <1>3, <1>5, JoinNone
<1>7. Len(S) = r * n
  BY <1>1, <1>3, <1>6
<1>8. /\ k <= r /\ (s.result # <<>> <=> k < r)
      /\ s.result # <<>> => s.result = <<Total(S, n, k + 1, r)>>
  BY <1>2 DEF Accounted
<1>9. Corrections(c, k + 1, r) = Total(S, n, k + 1, r)
  BY DEF Corrections, Total, Window, WindowIn, Quota
<1>10. k < r <=> r > k
  BY <1>2
<1>11. s.result # <<>> => s.result[1] = Corrections(c, k + 1, r)
  BY <1>8, <1>9
<1> QED BY <1>7, <1>8, <1>10, <1>11, Zenon DEF IsReady, Quota

\* What a core reads when its session is not busy is the sum of the corrections
\* of exactly its own windows since its last reset that it has not consumed: no
\* packet of another session, none from before the reset, none twice (decoder.cpp).
THEOREM OwnCorrections == Spec => []CorrectionsAreOwnWork
BY DecoderInvariant, DecoderHistory, InvCorrections, PTL

=============================================================================
