-------------------------- MODULE SubsequenceProofs --------------------------
(***************************************************************************)
(* Lemmas about sequences of any elements, about sequences that list a     *)
(* set, and about the subsequences of module Subsequences.                 *)
(***************************************************************************)
EXTENDS Subsequences, SequenceTheorems, FiniteSetTheorems, WellFoundedInduction, TLAPS

\* A finite list of any elements.
IsSeq(s) == \E S : s \in Seq(S)

\* s lists the elements of S, each of them once.
Lists(s, S) ==
  /\ s \in Seq(S)
  /\ \A i, j \in 1..Len(s) : s[i] = s[j] => i = j
  /\ \A x \in S : \E i \in 1..Len(s) : s[i] = x

\* Induction up to a bound: a set that holds 0 and, with each n below L, also
\* n + 1 holds everything up to L.
LEMMA UpTo ==
  ASSUME NEW L \in Nat, NEW S, 0 \in S, \A n \in 0..(L - 1) : n \in S => n + 1 \in S
  PROVE  \A n \in 0..L : n \in S
<1> DEFINE T == {n \in 0..L : n \notin S}
<1> SUFFICES ASSUME T # {} PROVE FALSE
  OBVIOUS
<1>1. T \subseteq Nat
  OBVIOUS
<1>2. \E x \in T : \A y \in T : ~(<<y, x>> \in OpToRel(<, Nat))
  BY <1>1, NatLessThanWellFounded, WFMin
<1>3. PICK x \in T : \A y \in T : ~(y < x)
  BY <1>1, <1>2 DEF OpToRel
<1>4. x \in 0..L /\ x # 0 /\ x \notin S
  OBVIOUS
<1>5. x - 1 \in 0..(L - 1) /\ x - 1 \in 0..L /\ x - 1 < x /\ (x - 1) + 1 = x
  BY <1>4
<1>6. x - 1 \in S
  BY <1>3, <1>5
<1> QED BY <1>4, <1>5, <1>6

\* A nonempty set of naturals has a least element.
LEMMA LeastOf ==
  ASSUME NEW T, T \subseteq Nat, T # {}
  PROVE  \E x \in T : \A y \in T : x <= y
<1>1. \E x \in T : \A y \in T : ~(<<y, x>> \in OpToRel(<, Nat))
  BY NatLessThanWellFounded, WFMin
<1>2. PICK x \in T : \A y \in T : ~(y < x)
  BY <1>1 DEF OpToRel
<1> QED BY <1>2

\* f satisfies the recursion of At up to position n.
AtStep(s, P, n, t) == IF n \in P THEN Append(t, s[n]) ELSE t
AtOf(s, P, L, f) == f = [n \in 0..L |-> IF n = 0 THEN <<>> ELSE AtStep(s, P, n, f[n - 1])]

\* The recursion of At has a solution for every list.
LEMMA AtOfExists ==
  ASSUME NEW s, NEW P, NEW L \in Nat
  PROVE  \E f : AtOf(s, P, L, f)
<1> DEFINE S == {n \in 0..L : \E f : AtOf(s, P, n, f)}
<1>1. 0 \in S
  <2> DEFINE f == [i \in 0..0 |-> <<>>]
  <2>1. AtOf(s, P, 0, f)
    BY DEF AtOf
  <2> QED BY <2>1
<1>2. \A n \in 0..(L - 1) : n \in S => n + 1 \in S
  <2> SUFFICES ASSUME NEW n \in 0..(L - 1), NEW f, AtOf(s, P, n, f)
               PROVE  \E g : AtOf(s, P, n + 1, g)
    OBVIOUS
  <2> DEFINE g == [i \in 0..(n + 1) |-> IF i <= n THEN f[i] ELSE AtStep(s, P, n + 1, f[n])]
  <2>1. \A i \in 0..n : f[i] = IF i = 0 THEN <<>> ELSE AtStep(s, P, i, f[i - 1])
    BY DEF AtOf
  <2>2. \A i \in 0..(n + 1) : g[i] = IF i = 0 THEN <<>> ELSE AtStep(s, P, i, g[i - 1])
    <3> TAKE i \in 0..(n + 1)
    <3>1. CASE i = 0
      BY <2>1, <3>1
    <3>2. CASE i \in 1..n
      <4>1. g[i] = f[i] /\ g[i - 1] = f[i - 1]
        BY <3>2
      <4> QED BY <2>1, <3>2, <4>1
    <3>3. CASE i = n + 1
      <4>1. g[i] = AtStep(s, P, i, f[n]) /\ g[i - 1] = f[n] /\ i # 0
        BY <3>3
      <4> QED BY <4>1
    <3> QED BY <3>1, <3>2, <3>3
  <2>3. g = [i \in 0..(n + 1) |-> g[i]]
    OBVIOUS
  <2> HIDE DEF g
  <2>4. AtOf(s, P, n + 1, g)
    BY <2>2, <2>3 DEF AtOf
  <2> QED BY <2>4
<1>3. L \in S
  <2> HIDE DEF S
  <2> QED BY <1>1, <1>2, UpTo
<1> QED BY <1>3

\* At is the last value of that solution.
LEMMA AtIs ==
  ASSUME NEW s, NEW P, Len(s) \in Nat
  PROVE  \E f : /\ At(s, P) = f[Len(s)]
                /\ f[0] = <<>>
                /\ \A n \in 1..Len(s) : f[n] = AtStep(s, P, n, f[n - 1])
<1> DEFINE g == CHOOSE f : f = [n \in 0..Len(s) |->
                 IF n = 0 THEN <<>> ELSE IF n \in P THEN Append(f[n - 1], s[n]) ELSE f[n - 1]]
<1>1. PICK f : AtOf(s, P, Len(s), f)
  BY AtOfExists
<1>2. f = [n \in 0..Len(s) |->
                 IF n = 0 THEN <<>> ELSE IF n \in P THEN Append(f[n - 1], s[n]) ELSE f[n - 1]]
  BY <1>1 DEF AtOf, AtStep
<1>3. AtOf(s, P, Len(s), g)
  BY <1>2 DEF AtOf, AtStep
<1>4. At(s, P) = g[Len(s)]
  BY DEF At
<1> HIDE DEF g
<1>5. \A n \in 0..Len(s) : g[n] = IF n = 0 THEN <<>> ELSE AtStep(s, P, n, g[n - 1])
  BY <1>3 DEF AtOf
<1>6. g[0] = <<>> /\ \A n \in 1..Len(s) : g[n] = AtStep(s, P, n, g[n - 1])
  BY <1>5
<1> QED BY <1>4, <1>6

\* A list has a length, and its domain is 1 up to it.
LEMMA IsSeqLen ==
  ASSUME NEW s, IsSeq(s)
  PROVE  Len(s) \in Nat /\ DOMAIN s = 1..Len(s) /\ (Len(s) = 0 <=> s = <<>>)
<1>1. PICK S : s \in Seq(S)
  BY DEF IsSeq
<1> QED BY <1>1, LenProperties, EmptySeq

\* The empty list is one.
LEMMA IsSeqEmpty == IsSeq(<<>>) /\ Len(<<>>) = 0
<1>1. <<>> \in Seq({}) /\ Len(<<>>) = 0
  OBVIOUS
<1> QED BY <1>1 DEF IsSeq

\* What Append does to a list of any elements.
LEMMA IsSeqAppend ==
  ASSUME NEW s, IsSeq(s), NEW x
  PROVE  /\ IsSeq(Append(s, x)) /\ Len(Append(s, x)) = Len(s) + 1
         /\ Append(s, x)[Len(s) + 1] = x
         /\ \A i \in 1..Len(s) : Append(s, x)[i] = s[i]
         /\ Append(s, x) # <<>>
<1>1. PICK S : s \in Seq(S)
  BY DEF IsSeq
<1> DEFINE T == S \cup {x}
<1>2. s \in Seq(T) /\ x \in T
  BY <1>1, SeqMonotonic
<1> HIDE DEF T
<1>3. /\ Append(s, x) \in Seq(T) /\ Len(Append(s, x)) = Len(s) + 1
      /\ Append(s, x)[Len(s) + 1] = x
      /\ \A i \in 1..Len(s) : Append(s, x)[i] = s[i]
      /\ Append(s, x) # <<>>
  BY <1>2, AppendProperties
<1> QED BY <1>3 DEF IsSeq

\* What concatenation does to lists of any elements.
LEMMA IsSeqConcat ==
  ASSUME NEW s, NEW t, IsSeq(s), IsSeq(t)
  PROVE  /\ IsSeq(s \o t) /\ Len(s \o t) = Len(s) + Len(t)
         /\ \A i \in 1..Len(s) : (s \o t)[i] = s[i]
         /\ \A i \in 1..Len(t) : (s \o t)[Len(s) + i] = t[i]
         /\ \A i \in 1..Len(s \o t) : \/ i \in 1..Len(s)
                                      \/ i - Len(s) \in 1..Len(t) /\ (s \o t)[i] = t[i - Len(s)]
<1>1. PICK S : s \in Seq(S)
  BY DEF IsSeq
<1>2. PICK T : t \in Seq(T)
  BY DEF IsSeq
<1> DEFINE U == S \cup T
<1>3. s \in Seq(U) /\ t \in Seq(U)
  BY <1>1, <1>2, SeqMonotonic
<1> HIDE DEF U
<1> DEFINE r == s \o t
<1>4. /\ r \in Seq(U) /\ Len(r) = Len(s) + Len(t)
      /\ \A i \in 1..(Len(s) + Len(t)) : r[i] = IF i <= Len(s) THEN s[i] ELSE t[i - Len(s)]
  BY <1>3, ConcatProperties, Zenon
<1>5. Len(s) \in Nat /\ Len(t) \in Nat
  BY <1>3, LenProperties
<1>6. IsSeq(r)
  BY <1>4 DEF IsSeq
<1> HIDE DEF r
<1>7. \A i \in 1..Len(s) : r[i] = s[i]
  BY <1>4, <1>5
<1>8. ASSUME NEW i \in 1..Len(t) PROVE r[Len(s) + i] = t[i]
  <2>1. Len(s) + i \in 1..(Len(s) + Len(t)) /\ ~(Len(s) + i <= Len(s)) /\ Len(s) + i - Len(s) = i
    BY <1>5
  <2> QED BY <1>4, <2>1
<1>9. ASSUME NEW i \in 1..Len(r), i \notin 1..Len(s)
      PROVE  i - Len(s) \in 1..Len(t) /\ r[i] = t[i - Len(s)]
  BY <1>4, <1>5, <1>9
<1> QED BY <1>4, <1>6, <1>7, <1>8, <1>9 DEF r

\* At is a list of elements at the chosen positions.
LEMMA AtSeq ==
  ASSUME NEW s, IsSeq(s), NEW P
  PROVE  /\ IsSeq(At(s, P))
         /\ \A k \in 1..Len(At(s, P)) : \E i \in 1..Len(s) : i \in P /\ At(s, P)[k] = s[i]
<1>0. Len(s) \in Nat
  BY IsSeqLen
<1>1. PICK f : /\ At(s, P) = f[Len(s)]
               /\ f[0] = <<>>
               /\ \A n \in 1..Len(s) : f[n] = AtStep(s, P, n, f[n - 1])
  BY <1>0, AtIs, SMTT(30)
<1> DEFINE Good(t) == IsSeq(t) /\ \A k \in 1..Len(t) : \E i \in 1..Len(s) : i \in P /\ t[k] = s[i]
           S == {n \in 0..Len(s) : Good(f[n])}
<1>2. 0 \in S
  BY <1>0, <1>1, IsSeqEmpty
<1>3. \A n \in 0..(Len(s) - 1) : n \in S => n + 1 \in S
  <2> SUFFICES ASSUME NEW n \in 0..(Len(s) - 1), n \in S PROVE n + 1 \in S
    OBVIOUS
  <2>0. Good(f[n]) /\ n + 1 \in 0..Len(s)
    BY <1>0
  <2> SUFFICES Good(f[n + 1])
    BY <2>0
  <2>1. n + 1 \in 1..Len(s) /\ (n + 1) - 1 = n
    BY <1>0
  <2>2. f[n + 1] = AtStep(s, P, n + 1, f[n])
    BY <1>1, <2>1
  <2>3. CASE n + 1 \in P
    <3> DEFINE t == f[n]
               u == Append(t, s[n + 1])
    <3>1. f[n + 1] = u
      BY <2>2, <2>3 DEF AtStep
    <3>2. /\ IsSeq(u) /\ Len(u) = Len(t) + 1 /\ u[Len(t) + 1] = s[n + 1]
          /\ \A i \in 1..Len(t) : u[i] = t[i]
      BY IsSeqAppend
    <3>3. Len(t) \in Nat
      BY IsSeqLen
    <3> HIDE DEF u
    <3>4. ASSUME NEW k \in 1..Len(u) PROVE \E i \in 1..Len(s) : i \in P /\ u[k] = s[i]
      <4>1. CASE k \in 1..Len(t)
        BY <3>2, <4>1
      <4>2. CASE k = Len(t) + 1
        BY <2>1, <2>3, <3>2, <4>2
      <4> QED BY <3>2, <3>3, <4>1, <4>2
    <3> QED BY <3>1, <3>2, <3>4
  <2>4. CASE n + 1 \notin P
    BY <2>2, <2>4 DEF AtStep
  <2> QED BY <2>3, <2>4
<1>4. Len(s) \in S
  <2> HIDE DEF S
  <2>1. \A n \in 0..Len(s) : n \in S
    BY <1>0, <1>2, <1>3, UpTo
  <2> QED BY <1>0, <2>1
<1> QED BY <1>1, <1>4

\* g computes At of u and Q up to position n, and u and Q begin like s and P.
Computes(u, Q, n, g) == g[0] = <<>> /\ \A i \in 1..n : g[i] = AtStep(u, Q, i, g[i - 1])
BeginsLike(u, Q, s, P) == \A i \in 1..Len(s) : u[i] = s[i] /\ (i \in Q <=> i \in P)

\* At of a list is a value of the recursion of any list that begins like it.
LEMMA AtPrefix ==
  ASSUME NEW s, NEW P, Len(s) \in Nat, NEW u, NEW Q, NEW g,
         BeginsLike(u, Q, s, P), Computes(u, Q, Len(s), g)
  PROVE  At(s, P) = g[Len(s)]
<1>1. PICK f : /\ At(s, P) = f[Len(s)]
               /\ f[0] = <<>>
               /\ \A n \in 1..Len(s) : f[n] = AtStep(s, P, n, f[n - 1])
  BY AtIs
<1> DEFINE S == {n \in 0..Len(s) : f[n] = g[n]}
<1>2. 0 \in S
  BY <1>1 DEF Computes
<1>3. \A n \in 0..(Len(s) - 1) : n \in S => n + 1 \in S
  <2> SUFFICES ASSUME NEW n \in 0..(Len(s) - 1), n \in S PROVE n + 1 \in S
    OBVIOUS
  <2>0. f[n] = g[n] /\ n + 1 \in 0..Len(s)
    OBVIOUS
  <2> SUFFICES f[n + 1] = g[n + 1]
    BY <2>0
  <2>1. n + 1 \in 1..Len(s) /\ (n + 1) - 1 = n
    OBVIOUS
  <2>2. f[n + 1] = AtStep(s, P, n + 1, f[n]) /\ g[n + 1] = AtStep(u, Q, n + 1, f[n])
    BY <1>1, <2>1 DEF Computes
  <2> QED BY <2>1, <2>2 DEF AtStep, BeginsLike
<1>4. Len(s) \in S
  <2> HIDE DEF S
  <2>1. \A n \in 0..Len(s) : n \in S
    BY <1>2, <1>3, UpTo
  <2> QED BY <2>1
<1> QED BY <1>1, <1>4

\* Only the positions within the list matter to At.
LEMMA AtSame ==
  ASSUME NEW s, IsSeq(s), NEW P, NEW Q, \A i \in 1..Len(s) : i \in Q <=> i \in P
  PROVE  At(s, P) = At(s, Q)
<1>0. Len(s) \in Nat
  BY IsSeqLen
<1>1. PICK g : /\ At(s, Q) = g[Len(s)]
               /\ g[0] = <<>>
               /\ \A n \in 1..Len(s) : g[n] = AtStep(s, Q, n, g[n - 1])
  BY <1>0, AtIs
<1>2. BeginsLike(s, Q, s, P) /\ Computes(s, Q, Len(s), g)
  BY <1>1 DEF BeginsLike, Computes
<1> QED BY <1>0, <1>1, <1>2, AtPrefix

\* At of a longer list: the new element is added exactly if it is chosen.
LEMMA AtAppend ==
  ASSUME NEW s, IsSeq(s), NEW x, NEW P, NEW Q, \A i \in 1..Len(s) : i \in Q <=> i \in P
  PROVE  At(Append(s, x), Q) = IF Len(s) + 1 \in Q THEN Append(At(s, P), x) ELSE At(s, P)
<1> DEFINE u == Append(s, x)
<1>0. Len(s) \in Nat /\ Len(u) = Len(s) + 1 /\ u[Len(s) + 1] = x /\ \A i \in 1..Len(s) : u[i] = s[i]
  BY IsSeqLen, IsSeqAppend
<1> HIDE DEF u
<1>1. PICK g : /\ At(u, Q) = g[Len(u)]
               /\ g[0] = <<>>
               /\ \A n \in 1..Len(u) : g[n] = AtStep(u, Q, n, g[n - 1])
  BY <1>0, AtIs, SMTT(30)
<1>2. BeginsLike(u, Q, s, P) /\ Computes(u, Q, Len(s), g)
  BY <1>0, <1>1 DEF BeginsLike, Computes
<1>3. At(s, P) = g[Len(s)]
  BY <1>0, <1>2, AtPrefix
<1>4. g[Len(s) + 1] = AtStep(u, Q, Len(s) + 1, g[Len(s)])
  <2>1. Len(s) + 1 \in 1..Len(u) /\ (Len(s) + 1) - 1 = Len(s)
    BY <1>0
  <2> QED BY <1>1, <2>1
<1> QED BY <1>0, <1>1, <1>3, <1>4 DEF AtStep, u

\* At of the empty list is empty.
LEMMA AtEmpty == \A P : At(<<>>, P) = <<>>
<1> TAKE P
<1>1. PICK f : At(<<>>, P) = f[Len(<<>>)] /\ f[0] = <<>>
  BY IsSeqEmpty, AtIs
<1> QED BY <1>1, IsSeqEmpty

\* A list of the elements of S has its elements in S.
LEMMA ListsSeq ==
  ASSUME NEW s, NEW S, Lists(s, S)
  PROVE  IsSeq(s) /\ Len(s) \in Nat /\ \A i \in 1..Len(s) : s[i] \in S
<1>1. s \in Seq(S)
  BY DEF Lists
<1> QED BY <1>1, ElementOfSeq, LenProperties DEF IsSeq

\* A list whose elements are in S is a sequence over S.
LEMMA SeqIn ==
  ASSUME NEW s, IsSeq(s), NEW S, \A i \in 1..Len(s) : s[i] \in S
  PROVE  s \in Seq(S)
<1>1. PICK T : s \in Seq(T)
  BY DEF IsSeq
<1>2. Len(s) \in Nat /\ s \in [1..Len(s) -> T]
  BY <1>1, LenProperties
<1>3. s \in [1..Len(s) -> S]
  BY <1>2
<1> QED BY <1>2, <1>3, SeqDef

\* What has to be shown of a list of the elements of S.
LEMMA ListsIntro ==
  ASSUME NEW s, IsSeq(s), NEW S, \A i \in 1..Len(s) : s[i] \in S,
         \A i, j \in 1..Len(s) : s[i] = s[j] => i = j,
         \A x \in S : \E i \in 1..Len(s) : s[i] = x
  PROVE  Lists(s, S)
BY SeqIn DEF Lists

\* The empty list lists the empty set.
LEMMA ListsEmpty == Lists(<<>>, {})
BY IsSeqEmpty, ListsIntro

\* And nothing else.
LEMMA ListsNothing ==
  ASSUME NEW S, Lists(<<>>, S)
  PROVE  S = {}
BY IsSeqEmpty DEF Lists

\* A new element at the end of a list.
LEMMA ListsAppend ==
  ASSUME NEW s, NEW S, Lists(s, S), NEW x, x \notin S
  PROVE  Lists(Append(s, x), S \cup {x})
<1> DEFINE u == Append(s, x)
           U == S \cup {x}
<1>1. IsSeq(s) /\ Len(s) \in Nat /\ \A i \in 1..Len(s) : s[i] \in S
  BY ListsSeq
<1>2. /\ IsSeq(u) /\ Len(u) = Len(s) + 1 /\ u[Len(s) + 1] = x /\ \A i \in 1..Len(s) : u[i] = s[i]
  BY <1>1, IsSeqAppend
<1> HIDE DEF u
<1>3. \A i \in 1..Len(u) : i \in 1..Len(s) \/ i = Len(s) + 1
  BY <1>1, <1>2
<1>4. \A i \in 1..Len(u) : u[i] \in U
  BY <1>1, <1>2, <1>3
<1>5. ASSUME NEW i \in 1..Len(u), NEW j \in 1..Len(u), u[i] = u[j] PROVE i = j
  BY <1>1, <1>2, <1>3, <1>5 DEF Lists
<1>6. ASSUME NEW y \in U PROVE \E i \in 1..Len(u) : u[i] = y
  <2>1. CASE y = x
    <3>1. Len(s) + 1 \in 1..Len(u)
      BY <1>1, <1>2
    <3> QED BY <1>2, <2>1, <3>1
  <2>2. CASE y \in S
    <3>1. PICK i \in 1..Len(s) : s[i] = y
      BY <2>2 DEF Lists
    <3>2. i \in 1..Len(u)
      BY <1>1, <1>2
    <3> QED BY <1>2, <3>1, <3>2
  <2> QED BY <2>1, <2>2
<1>7. Lists(u, U)
  <2> HIDE DEF U
  <2> QED BY <1>2, <1>4, <1>5, <1>6, ListsIntro
<1> QED BY <1>7 DEF u

\* Lists of disjoint sets, one after the other, list their union.
LEMMA ListsConcat ==
  ASSUME NEW s, NEW S, Lists(s, S), NEW t, NEW T, Lists(t, T), S \cap T = {}
  PROVE  Lists(s \o t, S \cup T)
<1> DEFINE u == s \o t
           U == S \cup T
<1>1. /\ IsSeq(s) /\ Len(s) \in Nat /\ \A i \in 1..Len(s) : s[i] \in S
      /\ IsSeq(t) /\ Len(t) \in Nat /\ \A i \in 1..Len(t) : t[i] \in T
  BY ListsSeq
<1>2. /\ IsSeq(u) /\ Len(u) = Len(s) + Len(t)
      /\ \A i \in 1..Len(s) : u[i] = s[i]
      /\ \A i \in 1..Len(t) : u[Len(s) + i] = t[i]
      /\ \A i \in 1..Len(u) : \/ i \in 1..Len(s)
                              \/ i - Len(s) \in 1..Len(t) /\ u[i] = t[i - Len(s)]
  BY <1>1, IsSeqConcat
<1> HIDE DEF u
<1>4. \A i \in 1..Len(u) : u[i] \in U
  BY <1>1, <1>2
<1>5. ASSUME NEW i \in 1..Len(u), NEW j \in 1..Len(u), u[i] = u[j] PROVE i = j
  <2>1. CASE i \in 1..Len(s) /\ j \in 1..Len(s)
    BY <1>2, <1>5, <2>1 DEF Lists
  <2>2. CASE i \in 1..Len(s) /\ j \notin 1..Len(s)
    <3>1. u[i] \in S /\ u[j] \in T
      BY <1>1, <1>2, <2>2
    <3> QED BY <1>5, <3>1
  <2>3. CASE i \notin 1..Len(s) /\ j \in 1..Len(s)
    <3>1. u[j] \in S /\ u[i] \in T
      BY <1>1, <1>2, <2>3
    <3> QED BY <1>5, <3>1
  <2>4. CASE i \notin 1..Len(s) /\ j \notin 1..Len(s)
    <3>0. /\ i - Len(s) \in 1..Len(t) /\ j - Len(s) \in 1..Len(t)
          /\ t[i - Len(s)] = t[j - Len(s)]
      BY <1>2, <1>5, <2>4
    <3>1. i - Len(s) = j - Len(s)
      BY <3>0 DEF Lists
    <3> QED BY <1>1, <3>1
  <2> QED BY <2>1, <2>2, <2>3, <2>4
<1>6. ASSUME NEW y \in U PROVE \E i \in 1..Len(u) : u[i] = y
  <2>1. CASE y \in T
    <3>1. PICK i \in 1..Len(t) : t[i] = y
      BY <2>1 DEF Lists
    <3>2. Len(s) + i \in 1..Len(u)
      BY <1>1, <1>2
    <3> QED BY <1>2, <3>1, <3>2
  <2>2. CASE y \in S
    <3>1. PICK i \in 1..Len(s) : s[i] = y
      BY <2>2 DEF Lists
    <3>2. i \in 1..Len(u)
      BY <1>1, <1>2
    <3> QED BY <1>2, <3>1, <3>2
  <2> QED BY <2>1, <2>2
<1>7. Lists(u, U)
  <2> HIDE DEF U
  <2> QED BY <1>2, <1>4, <1>5, <1>6, ListsIntro, SMTT(30)
<1> QED BY <1>7 DEF u

\* An injective function maps a list of S to one of its image.
LEMMA ListsMap ==
  ASSUME NEW s, NEW S, Lists(s, S), NEW f,
         \A x, y \in S : f[x] = f[y] => x = y
  PROVE  Lists([i \in 1..Len(s) |-> f[s[i]]], {f[x] : x \in S})
<1> DEFINE u == [i \in 1..Len(s) |-> f[s[i]]]
           U == {f[x] : x \in S}
<1>1. IsSeq(s) /\ Len(s) \in Nat /\ \A i \in 1..Len(s) : s[i] \in S
  BY ListsSeq
<1>2. u \in Seq(U)
  <2>1. u \in [1..Len(s) -> U]
    BY <1>1
  <2> HIDE DEF u, U
  <2> QED BY <1>1, <2>1, SeqDef
<1>3. Len(u) = Len(s)
  <2>1. DOMAIN u = 1..Len(s)
    OBVIOUS
  <2> HIDE DEF u
  <2> QED BY <1>1, <1>2, <2>1, LenProperties
<1>4. \A i \in 1..Len(s) : u[i] = f[s[i]]
  OBVIOUS
<1> HIDE DEF u
<1>5. ASSUME NEW i \in 1..Len(u), NEW j \in 1..Len(u), u[i] = u[j] PROVE i = j
  <2>1. f[s[i]] = f[s[j]] /\ s[i] \in S /\ s[j] \in S
    BY <1>1, <1>3, <1>4, <1>5
  <2>2. s[i] = s[j]
    BY <2>1
  <2> QED BY <1>3, <2>2 DEF Lists
<1>6. ASSUME NEW y \in U PROVE \E i \in 1..Len(u) : u[i] = y
  <2>1. PICK x \in S : y = f[x]
    OBVIOUS
  <2>2. PICK i \in 1..Len(s) : s[i] = x
    BY DEF Lists
  <2> QED BY <1>3, <1>4, <2>1, <2>2
<1>7. Lists(u, U)
  BY <1>2, <1>5, <1>6 DEF Lists
<1> QED BY <1>7 DEF u

\* A set with a list is finite and as large as the list is long.
LEMMA ListsCard ==
  ASSUME NEW s, NEW S, Lists(s, S)
  PROVE  IsFiniteSet(S) /\ Cardinality(S) = Len(s)
<1>1. IsSeq(s) /\ Len(s) \in Nat /\ \A i \in 1..Len(s) : s[i] \in S
  BY ListsSeq
<1>2. s \in [1..Len(s) -> S]
  BY LenProperties DEF Lists
<1>3. s \in Bijection(1..Len(s), S)
  BY <1>2 DEF Lists, Bijection, Injection, Surjection, IsInjective
<1>4. ExistsBijection(1..Len(s), S)
  BY <1>3 DEF ExistsBijection
<1>5. IsFiniteSet(1..Len(s)) /\ Cardinality(1..Len(s)) = Len(s)
  BY <1>1, FS_Interval, SMTT(30)
<1> QED BY <1>1, <1>4, <1>5, FS_Bijection

\* At of a list lists the chosen elements.
LEMMA AtLists ==
  ASSUME NEW s, NEW S, Lists(s, S), NEW P
  PROVE  Lists(At(s, P), {s[i] : i \in {j \in 1..Len(s) : j \in P}})
<1>0. IsSeq(s) /\ Len(s) \in Nat /\ \A i \in 1..Len(s) : s[i] \in S
  BY ListsSeq
<1>1. PICK f : /\ At(s, P) = f[Len(s)]
               /\ f[0] = <<>>
               /\ \A n \in 1..Len(s) : f[n] = AtStep(s, P, n, f[n - 1])
  BY <1>0, AtIs
<1> DEFINE T(n) == {s[i] : i \in {j \in 1..n : j \in P}}
           G == {n \in 0..Len(s) : Lists(f[n], T(n))}
<1>2. 0 \in G
  <2>1. T(0) = {}
    OBVIOUS
  <2> HIDE DEF T
  <2> QED BY <1>0, <1>1, <2>1, ListsEmpty
<1>3. \A n \in 0..(Len(s) - 1) : n \in G => n + 1 \in G
  <2> SUFFICES ASSUME NEW n \in 0..(Len(s) - 1), Lists(f[n], T(n)) PROVE Lists(f[n + 1], T(n + 1))
    <3> HIDE DEF T
    <3> QED BY <1>0, SMTT(30)
  <2>1. n + 1 \in 1..Len(s) /\ (n + 1) - 1 = n /\ n \in Nat
    BY <1>0
  <2>2. f[n + 1] = AtStep(s, P, n + 1, f[n])
    BY <1>1, <2>1
  <2>3. CASE n + 1 \in P
    <3>1. T(n + 1) = T(n) \cup {s[n + 1]}
      <4>1. {j \in 1..(n + 1) : j \in P} = {j \in 1..n : j \in P} \cup {n + 1}
        BY <2>1, <2>3
      <4> QED BY <4>1
    <3>2. s[n + 1] \notin T(n)
      <4> SUFFICES ASSUME NEW i \in 1..n, s[i] = s[n + 1] PROVE FALSE
        OBVIOUS
      <4>1. i \in 1..Len(s) /\ i # n + 1
        BY <1>0, <2>1
      <4> QED BY <2>1, <4>1 DEF Lists
    <3>3. f[n + 1] = Append(f[n], s[n + 1])
      BY <2>2, <2>3 DEF AtStep
    <3> HIDE DEF T
    <3> QED BY <3>1, <3>2, <3>3, ListsAppend
  <2>4. CASE n + 1 \notin P
    <3>1. T(n + 1) = T(n)
      <4>1. {j \in 1..(n + 1) : j \in P} = {j \in 1..n : j \in P}
        BY <2>1, <2>4
      <4> QED BY <4>1
    <3>2. f[n + 1] = f[n]
      BY <2>2, <2>4 DEF AtStep
    <3> HIDE DEF T
    <3> QED BY <3>1, <3>2
  <2> QED BY <2>3, <2>4
<1>4. Len(s) \in G
  <2> HIDE DEF G
  <2>1. \A n \in 0..Len(s) : n \in G
    BY <1>0, <1>2, <1>3, UpTo
  <2> QED BY <1>0, <2>1
<1> QED BY <1>1, <1>4

\* Choosing every position changes nothing.
LEMMA AtAll ==
  ASSUME NEW s, IsSeq(s), NEW P, \A i \in 1..Len(s) : i \in P
  PROVE  At(s, P) = s
<1>1. Len(s) \in Nat /\ s = [i \in 1..Len(s) |-> s[i]]
  BY SMT DEF IsSeq
<1>2. PICK f : /\ At(s, P) = f[Len(s)]
               /\ f[0] = <<>>
               /\ \A n \in 1..Len(s) : f[n] = AtStep(s, P, n, f[n - 1])
  BY <1>1, AtIs
<1> DEFINE S == {n \in 0..Len(s) : f[n] = [i \in 1..n |-> s[i]]}
<1>3. 0 \in S
  BY <1>1, <1>2
<1>4. ASSUME NEW n \in 0..(Len(s) - 1), n \in S PROVE n + 1 \in S
  <2>1. n + 1 \in 1..Len(s) /\ (n + 1) - 1 = n /\ n \in Nat
    BY <1>1
  <2>2. f[n + 1] = Append(f[n], s[n + 1])
    BY <1>2, <2>1 DEF AtStep
  <2> DEFINE g == [i \in 1..n |-> s[i]]
  <2>3. f[n] = g
    BY <1>4
  <2>4. g \in Seq({s[i] : i \in 1..n}) /\ Len(g) = n
    BY <2>1
  <2>5. Append(g, s[n + 1]) = [i \in 1..(n + 1) |-> IF i = n + 1 THEN s[n + 1] ELSE g[i]]
    BY <2>1, <2>4
  <2>6. Append(g, s[n + 1]) = [i \in 1..(n + 1) |-> s[i]]
    BY <2>1, <2>5
  <2> QED BY <2>1, <2>2, <2>3, <2>6, SMTT(30)
<1>5. Len(s) \in S
  <2> HIDE DEF S
  <2>1. \A n \in 0..Len(s) : n \in S
    BY <1>1, <1>3, <1>4, UpTo
  <2> QED BY <1>1, <2>1
<1> QED BY <1>1, <1>2, <1>5

\* The elements of a list of S.
LEMMA ListsRange ==
  ASSUME NEW s, NEW S, Lists(s, S)
  PROVE  {s[i] : i \in 1..Len(s)} = S
  BY ListsSeq, SMTT(30) DEF Lists

\* Keeping the elements in Q leaves a list of those.
LEMMA KeptList ==
  ASSUME NEW s, NEW S, Lists(s, S), NEW Q, NEW P,
         \A i \in 1..Len(s) : i \in P <=> s[i] \in Q
  PROVE  Lists(At(s, P), {x \in S : x \in Q})
<1>0. Len(s) \in Nat /\ \A i \in 1..Len(s) : s[i] \in S
  BY ListsSeq
<1>1. Lists(At(s, P), {s[i] : i \in {j \in 1..Len(s) : j \in P}})
  BY AtLists
<1>2. {s[i] : i \in {j \in 1..Len(s) : j \in P}} = {x \in S : x \in Q}
  BY <1>0, ListsRange
<1> QED BY <1>1, <1>2

\* Only the empty list lists the empty set.
LEMMA ListsNone ==
  ASSUME NEW s, Lists(s, {})
  PROVE  s = <<>>
<1>1. IsSeq(s) /\ Len(s) \in Nat /\ \A i \in 1..Len(s) : s[i] \in {}
  BY ListsSeq
<1>2. Len(s) = 0
  BY <1>1
<1> QED BY <1>1, <1>2, IsSeqLen

\* The tail of a list lists all but its first element.
LEMMA ListsTail ==
  ASSUME NEW s, NEW S, Lists(s, S), s # <<>>
  PROVE  /\ Lists(Tail(s), S \ {s[1]}) /\ s[1] \in S /\ Len(Tail(s)) = Len(s) - 1
         /\ Len(s) \in Nat \ {0}
<1>1. s \in Seq(S) /\ Len(s) \in Nat /\ Len(s) # 0
  BY ListsSeq, IsSeqLen DEF Lists
<1>2. s[1] \in S
  BY <1>1, ListsSeq
<1>3. Tail(s) \in Seq(S) /\ Len(Tail(s)) = Len(s) - 1 /\ \A i \in 1..(Len(s) - 1) : Tail(s)[i] = s[i + 1]
  BY <1>1
<1>4. IsSeq(Tail(s))
  BY <1>3 DEF IsSeq
<1>5. \A i, j \in 1..Len(s) : s[i] = s[j] => i = j
  BY DEF Lists
<1>6. \A i \in 1..Len(Tail(s)) : Tail(s)[i] \in S \ {s[1]}
  <2> TAKE i \in 1..Len(Tail(s))
  <2>1. i + 1 \in 1..Len(s) /\ 1 \in 1..Len(s) /\ Tail(s)[i] = s[i + 1] /\ i + 1 # 1
    BY <1>1, <1>3
  <2>2. s[i + 1] # s[1]
    BY <1>5, <2>1
  <2> QED BY <1>1, <2>1, <2>2, ListsSeq
<1>7. \A i, j \in 1..Len(Tail(s)) : Tail(s)[i] = Tail(s)[j] => i = j
  <2> TAKE i, j \in 1..Len(Tail(s))
  <2>1. i + 1 \in 1..Len(s) /\ j + 1 \in 1..Len(s) /\ Tail(s)[i] = s[i + 1] /\ Tail(s)[j] = s[j + 1]
    BY <1>1, <1>3
  <2>2. s[i + 1] = s[j + 1] => i + 1 = j + 1
    BY <1>5, <2>1
  <2> QED BY <2>1, <2>2
<1>8. \A x \in S \ {s[1]} : \E i \in 1..Len(Tail(s)) : Tail(s)[i] = x
  <2> TAKE x \in S \ {s[1]}
  <2>1. PICK i \in 1..Len(s) : s[i] = x
    BY DEF Lists
  <2>2. i # 1
    BY <2>1
  <2>3. i - 1 \in 1..Len(Tail(s)) /\ Tail(s)[i - 1] = s[(i - 1) + 1] /\ (i - 1) + 1 = i
    BY <1>1, <1>3, <2>1, <2>2
  <2> QED BY <2>1, <2>3
<1>9. Lists(Tail(s), S \ {s[1]})
  <2> DEFINE T == Tail(s)
             R == S \ {s[1]}
  <2>1. /\ IsSeq(T) /\ \A i \in 1..Len(T) : T[i] \in R
        /\ \A i, j \in 1..Len(T) : T[i] = T[j] => i = j
        /\ \A x \in R : \E i \in 1..Len(T) : T[i] = x
    BY <1>4, <1>6, <1>7, <1>8, Zenon
  <2> SUFFICES Lists(T, R)
    OBVIOUS
  <2> HIDE DEF T, R
  <2> QED BY <2>1, ListsIntro
<1> QED BY <1>1, <1>2, <1>3, <1>9

\* Replacing an element of a list by a new one.
LEMMA ListsReplace ==
  ASSUME NEW s, NEW S, Lists(s, S), NEW i \in 1..Len(s), NEW x, x \notin S
  PROVE  Lists([s EXCEPT ![i] = x], (S \ {s[i]}) \cup {x})
<1> DEFINE u == [s EXCEPT ![i] = x]
           R == (S \ {s[i]}) \cup {x}
<1>1. s \in Seq(S) /\ Len(s) \in Nat /\ \A k \in 1..Len(s) : s[k] \in S
  BY ListsSeq DEF Lists
<1>2. s \in Seq(S \cup {x})
  BY <1>1
<1>3. u \in Seq(S \cup {x}) /\ Len(u) = Len(s)
  BY <1>2
<1>4. u[i] = x /\ \A k \in 1..Len(s) : k # i => u[k] = s[k]
  BY <1>1, IsSeqLen, ListsSeq
<1>5. \A k, n \in 1..Len(s) : s[k] = s[n] => k = n
  BY DEF Lists
<1>6. \A y \in S : \E k \in 1..Len(s) : s[k] = y
  BY DEF Lists
<1> SUFFICES Lists(u, R)
  OBVIOUS
<1> HIDE DEF u
<1>7. IsSeq(u)
  BY <1>3 DEF IsSeq
<1>8. \A k \in 1..Len(u) : u[k] \in R
  BY <1>1, <1>3, <1>4, <1>5
<1>9. \A k, n \in 1..Len(u) : u[k] = u[n] => k = n
  BY <1>1, <1>3, <1>4, <1>5
<1>10. \A y \in R : \E k \in 1..Len(u) : u[k] = y
  <2> TAKE y \in R
  <2>1. CASE y = x
    BY <1>3, <1>4, <2>1
  <2>2. CASE y \in S /\ y # s[i]
    BY <1>3, <1>4, <1>6, <2>2
  <2> QED BY <2>1, <2>2
<1> HIDE DEF R
<1> QED BY <1>7, <1>8, <1>9, <1>10, ListsIntro

\* A list of one element.
LEMMA ListsOne ==
  ASSUME NEW s, NEW x, Lists(s, {x})
  PROVE  Len(s) = 1 /\ s[1] = x
<1>1. Len(s) \in Nat /\ \A i \in 1..Len(s) : s[i] = x
  BY ListsSeq
<1>2. /\ \A i, j \in 1..Len(s) : s[i] = s[j] => i = j
      /\ \E i \in 1..Len(s) : s[i] = x
  BY DEF Lists
<1>3. \A i, j \in 1..Len(s) : i = j
  BY <1>1, <1>2
<1>4. Len(s) # 0
  BY <1>1, <1>2
<1>5. 1 \in 1..Len(s) /\ Len(s) \in 1..Len(s)
  BY <1>1, <1>4
<1> QED BY <1>1, <1>3, <1>5
=============================================================================
