------------------------- MODULE PacketTransferProofs -------------------------
(****************************************************************************)
(* Proofs about PacketFormats and PacketTransfer, for LSAs and packets of   *)
(* any contents and any size that can be written in their headers, lists of *)
(* any length, every limit of an update and any number of routers.          *)
(*                                                                          *)
(* First, what is written is read again: sums and positions in a buffer,    *)
(* words, layouts (MembersRead), vectors of equal and of different parts,   *)
(* the three bodies, LSAs (LSARead), the five packets (PacketArrives). That *)
(* something stands in a buffer is Holds, and a part that stands in a part  *)
(* stands in the whole, so that each of these rests on the ones before it.  *)
(*                                                                          *)
(* Then the lists. LSAs change on the way, by their age and length and the  *)
(* priority of a link, but not by what they tell: Follows and Turned say    *)
(* that one list tells a part of what another one tells, in the same or in  *)
(* the other order. TransferInv says with them how what is held is divided  *)
(* between the list, the packet on the way and the neighbour, in each mode. *)
(*                                                                          *)
(* The library's induction is over predicates, which the provers cannot     *)
(* instantiate; IntervalInduction, over sets of numbers, and                *)
(* RecursionExists take its place.                                          *)
(****************************************************************************)
EXTENDS PacketTransfer, NaturalsInduction, WellFoundedInduction, TLAPS

-----------------------------------------------------------------------------
(* Induction and recursion                                                  *)

\* A set of natural numbers has a least element.
LEMMA LeastElement ==
  ASSUME NEW S \in SUBSET Nat, S # {}
  PROVE  \E m \in S : \A k \in S : m <= k
<1> DEFINE R == {p \in Nat \X Nat : p[1] < p[2]}
<1>1. IsWellFoundedOn(R, Nat)
  BY NatLessThanWellFounded DEF OpToRel
<1>2. PICK m \in S : \A k \in S : ~(<<k, m>> \in R)
  BY <1>1, WFMin
<1>3. ASSUME NEW k \in S, k < m PROVE FALSE
  <2>1. <<k, m>> \in R
    BY <1>3
  <2>2. QED
    BY <1>2, <2>1
<1>4. QED
  BY <1>3

\* Induction over an interval.
LEMMA IntervalInduction ==
  ASSUME NEW n \in Nat, NEW S, 0 \in S,
         \A k \in 0 .. n : k \in S /\ k < n => k + 1 \in S
  PROVE  0 .. n \subseteq S
<1> DEFINE T == 0 .. n \ S
<1> SUFFICES ASSUME T # {} PROVE FALSE
  OBVIOUS
<1>1. PICK m \in T : \A k \in T : m <= k
  <2>1. T \in SUBSET Nat
    OBVIOUS
  <2>2. QED
    BY <2>1, LeastElement
<1>2. m - 1 \in S /\ m - 1 \in 0 .. n /\ m - 1 < n
  BY <1>1
<1>3. QED
  BY <1>1, <1>2

\* A function that is defined by recursion exists.
Recurs(f, V, n, v, g) ==
    /\ f \in [0 .. n -> V]
    /\ f[0] = v
    /\ \A k \in 1 .. n : f[k] = g[k][f[k - 1]]

\* There is one: the sets of m up to which one exists is closed under + 1.
LEMMA RecursionExists ==
  ASSUME NEW V, NEW n \in Nat, NEW v \in V, NEW g \in [1 .. n -> [V -> V]]
  PROVE  \E f : Recurs(f, V, n, v, g)
<1> DEFINE Upto(f, m) == f[0] = v /\ \A k \in 1 .. m : f[k] = g[k][f[k - 1]]
           S == {m \in 0 .. n : \E f \in [0 .. n -> V] : Upto(f, m)}
<1>1. 0 \in S
  <2>1. [k \in 0 .. n |-> v] \in [0 .. n -> V] /\ Upto([k \in 0 .. n |-> v], 0)
    OBVIOUS
  <2> HIDE DEF Upto
  <2>2. QED
    BY <2>1
<1>2. ASSUME NEW m \in 0 .. n, m \in S, m < n PROVE m + 1 \in S
  <2>1. PICK f \in [0 .. n -> V] : Upto(f, m)
    BY <1>2
  <2> DEFINE h == [f EXCEPT ![m + 1] = g[m + 1][f[m]]]
  <2>2. m + 1 \in 1 .. n /\ m + 1 \in 0 .. n /\ g[m + 1][f[m]] \in V
    BY <1>2
  <2>3. h \in [0 .. n -> V] /\ h[m + 1] = g[m + 1][f[m]]
    BY <2>2
  <2>4. \A k \in 0 .. m : h[k] = f[k]
    BY <1>2, <2>2
  <2>5. Upto(h, m + 1)
    <3>1. h[0] = v
      BY <2>1, <2>4
    <3>2. ASSUME NEW k \in 1 .. m + 1 PROVE h[k] = g[k][h[k - 1]]
      <4>1. CASE k = m + 1
        BY <2>3, <2>4, <4>1
      <4>2. CASE k \in 1 .. m
        <5>1. k \in 0 .. m /\ k - 1 \in 0 .. m
          BY <4>2
        <5>2. QED
          BY <2>1, <2>4, <4>2, <5>1
      <4>3. QED
        BY <4>1, <4>2
    <3>3. QED
      BY <3>1, <3>2
  <2>6. QED
    BY <2>2, <2>3, <2>5
<1>3. n \in S
  <2> HIDE DEF S
  <2>1. 0 .. n \subseteq S
    BY <1>1, <1>2, IntervalInduction
  <2>2. QED
    BY <2>1
<1>4. QED
  BY <1>3 DEF Recurs

-----------------------------------------------------------------------------
(* Sums                                                                     *)

\* t holds the sums of the first 0, 1, 2 ... numbers of ns.
IsSums(t, ns) ==
    /\ t \in [0 .. Len(ns) -> Nat]
    /\ t[0] = 0
    /\ \A k \in 1 .. Len(ns) : t[k] = t[k - 1] + ns[k]

\* The sums of the beginnings of ns exist.
LEMMA SumsExist ==
  ASSUME NEW ns \in Seq(Nat)
  PROVE  \E t : IsSums(t, ns)
<1> DEFINE g == [k \in 1 .. Len(ns) |-> [x \in Nat |-> x + ns[k]]]
<1>1. g \in [1 .. Len(ns) -> [Nat -> Nat]] /\ Len(ns) \in Nat
  OBVIOUS
<1>2. PICK t \in [0 .. Len(ns) -> Nat] :
        t[0] = 0 /\ \A k \in 1 .. Len(ns) : t[k] = g[k][t[k - 1]]
  <2> HIDE DEF g
  <2>1. \E t : Recurs(t, Nat, Len(ns), 0, g)
    BY <1>1, RecursionExists
  <2>2. QED
    BY <2>1 DEF Recurs
<1>3. ASSUME NEW k \in 1 .. Len(ns) PROVE t[k] = t[k - 1] + ns[k]
  <2>1. k - 1 \in 0 .. Len(ns)
    BY <1>1
  <2>2. t[k - 1] \in Nat
    BY <2>1
  <2>3. QED
    BY <1>2, <2>2
<1>4. QED
  BY <1>2, <1>3 DEF IsSums

\* Total is the last of the sums.
LEMMA TotalIsSum ==
  ASSUME NEW ns \in Seq(Nat), NEW t, IsSums(t, ns)
  PROVE  Total(ns) = t[Len(ns)] /\ Total(ns) \in Nat
<1> DEFINE n == Len(ns)
           Rec(d) == [k \in 0 .. n |-> IF k = 0 THEN 0 ELSE d[k - 1] + ns[k]]
           D == CHOOSE d : d = Rec(d)
           S == {k \in 0 .. n : D[k] = t[k]}
<1>1. n \in Nat
  OBVIOUS
<1>2. t = Rec(t)
  BY DEF IsSums
<1>3. D = Rec(D)
  <2> HIDE DEF Rec
  <2>1. QED
    BY <1>2
<1>4. 0 \in S
  <2> HIDE DEF D
  <2>1. D[0] = 0
    BY <1>1, <1>3
  <2>2. QED
    BY <1>1, <2>1 DEF IsSums
<1>5. ASSUME NEW k \in 0 .. n, k \in S, k < n PROVE k + 1 \in S
  <2> HIDE DEF D
  <2>1. k + 1 \in 0 .. n /\ k + 1 # 0 /\ k + 1 - 1 = k /\ k + 1 \in 1 .. n
    BY <1>1, <1>5
  <2>2. D[k + 1] = D[k] + ns[k + 1]
    BY <1>3, <2>1
  <2>3. t[k + 1] = t[k] + ns[k + 1]
    BY <2>1 DEF IsSums
  <2>4. QED
    BY <1>5, <2>1, <2>2, <2>3
<1>6. D[n] = t[n]
  <2>1. 0 .. n \subseteq S
    <3> HIDE DEF S
    <3>1. QED
      BY <1>1, <1>4, <1>5, IntervalInduction
  <2> HIDE DEF D
  <2>2. QED
    BY <1>1, <2>1
<1>7. Total(ns) = D[n]
  BY DEF Total
<1>8. t[n] \in Nat
  BY <1>1 DEF IsSums
<1>9. QED
  BY <1>6, <1>7, <1>8

\* Total of the beginning of a sequence.
LEMMA TotalOfFirst ==
  ASSUME NEW ns \in Seq(Nat), NEW ms \in Seq(Nat), Len(ms) <= Len(ns),
         \A j \in 1 .. Len(ms) : ms[j] = ns[j], NEW t, IsSums(t, ns)
  PROVE  Total(ms) = t[Len(ms)]
<1> DEFINE u == [k \in 0 .. Len(ms) |-> t[k]]
<1>1. Len(ms) \in Nat /\ Len(ns) \in Nat
  OBVIOUS
<1>2. IsSums(u, ms)
  BY <1>1 DEF IsSums
<1>3. Total(ms) = u[Len(ms)]
  <2> HIDE DEF u
  <2>1. QED
    BY <1>2, TotalIsSum
<1>4. QED
  BY <1>1, <1>3

\* They are natural numbers and grow.
LEMMA SumsGrow ==
  ASSUME NEW ns \in Seq(Nat), NEW t, IsSums(t, ns),
         NEW i \in 0 .. Len(ns), NEW j \in 0 .. Len(ns), i <= j
  PROVE  t[i] \in Nat /\ t[j] \in Nat /\ t[i] <= t[j]
<1> DEFINE n == Len(ns)
           S == {k \in 0 .. n : i <= k => t[i] <= t[k]}
<1>1. n \in Nat /\ \A k \in 0 .. n : t[k] \in Nat
  <2> HIDE DEF S
  <2>1. n \in Nat /\ t \in [0 .. n -> Nat]
    BY DEF IsSums
  <2>2. QED
    BY <2>1
<1>2. 0 \in S
  <2>1. i <= 0 => i = 0
    OBVIOUS
  <2>2. QED
    BY <1>1, <2>1
<1>3. ASSUME NEW k \in 0 .. n, k \in S, k < n PROVE k + 1 \in S
  <2>0. k + 1 \in 1 .. n /\ k + 1 \in 0 .. n /\ k + 1 - 1 = k
    BY <1>1, <1>3
  <2>1. t[k + 1] = t[k] + ns[k + 1] /\ ns[k + 1] \in Nat
    BY <2>0 DEF IsSums
  <2>2. t[i] \in Nat /\ t[k] \in Nat /\ t[k + 1] \in Nat /\ k + 1 \in 0 .. n
    BY <1>1, <1>3, <2>0
  <2>3. i <= k + 1 => t[i] <= t[k + 1]
    BY <1>3, <2>1, <2>2
  <2>4. QED
    BY <2>2, <2>3
<1>4. 0 .. n \subseteq S
  <2> HIDE DEF S
  <2>1. QED
    BY <1>1, <1>2, <1>3, IntervalInduction
<1>5. QED
  BY <1>1, <1>4

\* Total is a natural number.
LEMMA TotalType ==
  ASSUME NEW ns \in Seq(Nat)
  PROVE  Total(ns) \in Nat
  BY SumsExist, TotalIsSum

-----------------------------------------------------------------------------
(* Bytes in a buffer                                                        *)

Byte == 0 .. 255

\* The bytes b stand in s behind the first at bytes.
Holds(s, at, b) ==
    /\ at + Len(b) <= Len(s)
    /\ \A k \in 1 .. Len(b) : s[at + k] = b[k]

\* A function on 1 .. n is a sequence.
LEMMA SequenceOf ==
  ASSUME NEW S, NEW n \in Nat, NEW f \in [1 .. n -> S]
  PROVE  f \in Seq(S) /\ Len(f) = n
  OBVIOUS

\* A sequence stands in itself.
LEMMA HoldsAll ==
  ASSUME NEW s \in Seq(Byte)
  PROVE  Holds(s, 0, s)
  BY DEF Holds

\* The parts of a concatenation stand one behind the other.
LEMMA HoldsConcat ==
  ASSUME NEW a \in Seq(Byte), NEW b \in Seq(Byte)
  PROVE  /\ a \o b \in Seq(Byte)
         /\ Len(a \o b) = Len(a) + Len(b)
         /\ Holds(a \o b, 0, a)
         /\ Holds(a \o b, Len(a), b)
<1>1. a \o b \in Seq(Byte) /\ Len(a \o b) = Len(a) + Len(b)
  OBVIOUS
<1>2. Holds(a \o b, 0, a)
  BY DEF Holds
<1>3. Holds(a \o b, Len(a), b)
  BY DEF Holds
<1>4. QED
  BY <1>1, <1>2, <1>3

\* What stands in a part stands in the whole.
LEMMA HoldsWithin ==
  ASSUME NEW s \in Seq(Byte), NEW b \in Seq(Byte), NEW c \in Seq(Byte),
         NEW at \in Nat, NEW o \in Nat, Holds(s, at, b), Holds(b, o, c)
  PROVE  Holds(s, at + o, c)
<1>1. Len(s) \in Nat /\ Len(b) \in Nat /\ Len(c) \in Nat
  OBVIOUS
<1>2. at + o + Len(c) <= Len(s)
  BY <1>1 DEF Holds
<1>3. ASSUME NEW k \in 1 .. Len(c) PROVE s[at + o + k] = c[k]
  <2>1. o + k \in 1 .. Len(b) /\ b[o + k] = c[k]
    BY <1>1 DEF Holds
  <2>2. s[at + (o + k)] = b[o + k]
    BY <2>1 DEF Holds
  <2>3. at + (o + k) = at + o + k
    BY <1>1
  <2>4. QED
    BY <2>1, <2>2, <2>3
<1>4. QED
  BY <1>2, <1>3 DEF Holds

\* What stands in two sequences, one behind the other.
LEMMA HoldsBoth ==
  ASSUME NEW s \in Seq(Byte), NEW a \in Seq(Byte), NEW b \in Seq(Byte),
         NEW at \in Nat, Holds(s, at, a \o b)
  PROVE  Holds(s, at, a) /\ Holds(s, at + Len(a), b)
<1>1. /\ a \o b \in Seq(Byte)
      /\ Holds(a \o b, 0, a)
      /\ Holds(a \o b, Len(a), b)
      /\ Len(a) \in Nat
  BY HoldsConcat
<1>2. Holds(s, at + 0, a)
  BY <1>1, HoldsWithin
<1>3. Holds(s, at + Len(a), b)
  BY <1>1, HoldsWithin
<1>4. QED
  BY <1>2, <1>3

\* The same of three parts, as wholes are written here.
LEMMA ThreeParts ==
  ASSUME NEW a \in Seq(Byte), NEW b \in Seq(Byte), NEW c \in Seq(Byte)
  PROVE  /\ a \o b \o c \in Seq(Byte)
         /\ Len(a \o b \o c) = Len(a) + Len(b) + Len(c)
         /\ \A s \in Seq(Byte) : \A at \in Nat : Holds(s, at, a \o b \o c) =>
               /\ Holds(s, at, a)
               /\ Holds(s, at + Len(a), b)
               /\ Holds(s, at + (Len(a) + Len(b)), c)
<1> DEFINE x == a \o b
<1>1. x \in Seq(Byte) /\ Len(x) = Len(a) + Len(b)
  BY HoldsConcat
<1>2. \A s \in Seq(Byte) : \A at \in Nat :
         Holds(s, at, x) => Holds(s, at, a) /\ Holds(s, at + Len(a), b)
  BY HoldsBoth
<1> HIDE DEF x
<1>3. x \o c \in Seq(Byte) /\ Len(x \o c) = Len(x) + Len(c)
  BY <1>1, HoldsConcat
<1>4. \A s \in Seq(Byte) : \A at \in Nat :
         Holds(s, at, x \o c) => Holds(s, at, x) /\ Holds(s, at + Len(x), c)
  BY <1>1, HoldsBoth
<1> DEFINE y == x \o c
<1> HIDE DEF y
<1>5. y \in Seq(Byte) /\ Len(y) = Len(a) + Len(b) + Len(c)
  BY <1>1, <1>3 DEF y
<1>6. ASSUME NEW s \in Seq(Byte), NEW at \in Nat, Holds(s, at, y)
      PROVE  /\ Holds(s, at, a)
             /\ Holds(s, at + Len(a), b)
             /\ Holds(s, at + (Len(a) + Len(b)), c)
  <2>1. Holds(s, at, x) /\ Holds(s, at + Len(x), c)
    BY <1>4, <1>6 DEF y
  <2>2. QED
    BY <1>1, <1>2, <2>1
<1>7. QED
  BY <1>5, <1>6 DEF x, y

\* And of four.
LEMMA FourParts ==
  ASSUME NEW a \in Seq(Byte), NEW b \in Seq(Byte),
         NEW c \in Seq(Byte), NEW d \in Seq(Byte)
  PROVE  /\ a \o b \o c \o d \in Seq(Byte)
         /\ Len(a \o b \o c \o d) = Len(a) + Len(b) + Len(c) + Len(d)
         /\ \A s \in Seq(Byte) : \A at \in Nat : Holds(s, at, a \o b \o c \o d) =>
               /\ Holds(s, at, a)
               /\ Holds(s, at + Len(a), b)
               /\ Holds(s, at + (Len(a) + Len(b)), c)
               /\ Holds(s, at + (Len(a) + Len(b) + Len(c)), d)
<1> DEFINE x == a \o b \o c
<1>1. /\ x \in Seq(Byte) /\ Len(x) = Len(a) + Len(b) + Len(c)
      /\ \A s \in Seq(Byte) : \A at \in Nat : Holds(s, at, x) =>
               /\ Holds(s, at, a)
               /\ Holds(s, at + Len(a), b)
               /\ Holds(s, at + (Len(a) + Len(b)), c)
  BY ThreeParts, Zenon
<1> HIDE DEF x
<1>3. x \o d \in Seq(Byte) /\ Len(x \o d) = Len(x) + Len(d)
  BY <1>1, HoldsConcat
<1>4. \A s \in Seq(Byte) : \A at \in Nat :
         Holds(s, at, x \o d) => Holds(s, at, x) /\ Holds(s, at + Len(x), d)
  BY <1>1, HoldsBoth
<1> DEFINE y == x \o d
<1> HIDE DEF y
<1>5. y \in Seq(Byte) /\ Len(y) = Len(a) + Len(b) + Len(c) + Len(d)
  BY <1>1, <1>3 DEF y
<1>6. ASSUME NEW s \in Seq(Byte), NEW at \in Nat, Holds(s, at, y)
      PROVE  /\ Holds(s, at, a)
             /\ Holds(s, at + Len(a), b)
             /\ Holds(s, at + (Len(a) + Len(b)), c)
             /\ Holds(s, at + (Len(a) + Len(b) + Len(c)), d)
  <2>1. Holds(s, at, x) /\ Holds(s, at + Len(x), d)
    BY <1>4, <1>6 DEF y
  <2>2. QED
    BY <1>1, <2>1
<1>7. QED
  BY <1>5, <1>6 DEF x, y

\* The lengths of the parts of a sequence.
Lengths(ps) == [k \in 1 .. Len(ps) |-> Len(ps[k])]

\* FlattenSeq puts each part where the parts before it end.
LEMMA FlattenParts ==
  ASSUME NEW ps \in Seq(Seq(Byte)), NEW t, IsSums(t, Lengths(ps))
  PROVE  /\ FlattenSeq(ps) \in Seq(Byte)
         /\ Len(FlattenSeq(ps)) = t[Len(ps)]
         /\ \A k \in 1 .. Len(ps) : Holds(FlattenSeq(ps), t[k - 1], ps[k])
<1> DEFINE n == Len(ps)
           Rec(d) == [i \in 1 .. n |-> IF i = 1 THEN ps[i] ELSE d[i - 1] \o ps[i]]
           D == CHOOSE d : d = Rec(d)
           Good(b, i) == /\ b \in Seq(Byte)
                         /\ Len(b) = t[i]
                         /\ \A k \in 1 .. i : Holds(b, t[k - 1], ps[k])
           S == {i \in 0 .. n : i = 0 \/ Good(D[i], i)}
<1>1. n \in Nat /\ \A i \in 1 .. n : ps[i] \in Seq(Byte)
  OBVIOUS
<1>2. /\ t \in [0 .. n -> Nat]
      /\ t[0] = 0
      /\ \A k \in 1 .. n : t[k] = t[k - 1] + Len(ps[k])
  <2>1. Len(Lengths(ps)) = n
    BY <1>1 DEF Lengths
  <2>2. \A k \in 1 .. n : Lengths(ps)[k] = Len(ps[k])
    BY DEF Lengths
  <2>3. QED
    BY <2>1, <2>2 DEF IsSums
<1>3. CASE n = 0
  <2>1. ps = <<>> /\ FlattenSeq(ps) = <<>>
    BY <1>3 DEF FlattenSeq
  <2>2. QED
    BY <1>2, <1>3, <2>1
<1>4. CASE n # 0
  <2>1. D = Rec(D)
    <3> DEFINE g == [k \in 1 .. n |-> [x \in Seq(Byte) |-> x \o ps[k]]]
    <3>1. g \in [1 .. n -> [Seq(Byte) -> Seq(Byte)]] /\ <<>> \in Seq(Byte)
      BY <1>1
    <3>2. PICK f : Recurs(f, Seq(Byte), n, <<>>, g)
      <4> HIDE DEF g, n
      <4>1. QED
        BY <1>1, <3>1, RecursionExists
    <3> DEFINE d == [i \in 1 .. n |-> f[i]]
    <3>3. ASSUME NEW i \in 1 .. n
          PROVE  d[i] = IF i = 1 THEN ps[i] ELSE d[i - 1] \o ps[i]
      <4>1. f[i - 1] \in Seq(Byte) /\ f[i] = f[i - 1] \o ps[i]
        <5>1. i - 1 \in 0 .. n
          BY <1>1
        <5>2. QED
          BY <3>2, <5>1 DEF Recurs
      <4>2. CASE i = 1
        <5>0. i - 1 = 0 /\ f[0] = <<>>
          BY <3>2, <4>2 DEF Recurs
        <5>1. f[i] = <<>> \o ps[i]
          BY <4>1, <5>0
        <5>2. QED
          BY <1>1, <4>2, <5>1
      <4>3. CASE i # 1
        <5>1. i - 1 \in 1 .. n
          BY <1>1, <4>3
        <5>2. QED
          BY <4>1, <4>3, <5>1
      <4>4. QED
        BY <4>2, <4>3
    <3>4. d = Rec(d)
      BY <3>3
    <3> HIDE DEF Rec, d
    <3>5. QED
      BY <3>4
  <2>2. ASSUME NEW i \in 0 .. n, i \in S, i < n PROVE i + 1 \in S
    <3> HIDE DEF D
    <3>0. i + 1 \in 1 .. n /\ i + 1 \in 0 .. n /\ i + 1 - 1 = i
      BY <1>1, <2>2
    <3>1. CASE i = 0
      <4>1. D[1] = ps[1]
        BY <2>1, <3>0, <3>1
      <4>2. t[1] = Len(ps[1]) /\ t[1 - 1] = 0
        BY <1>1, <1>2, <3>0, <3>1
      <4>3. Good(D[1], 1)
        BY <1>1, <3>0, <3>1, <4>1, <4>2, HoldsAll
      <4>4. QED
        BY <3>0, <3>1, <4>3
    <3>2. CASE i # 0
      <4>1. D[i + 1] = D[i] \o ps[i + 1]
        <5>1. i + 1 # 1
          BY <1>1, <3>2
        <5>2. \A j \in 1 .. n : j # 1 => Rec(D)[j] = D[j - 1] \o ps[j]
          OBVIOUS
        <5> HIDE DEF Rec
        <5>3. QED
          <6>1. \A j \in 1 .. n : j # 1 => D[j] = D[j - 1] \o ps[j]
            BY <2>1, <5>2
          <6> DEFINE m == i + 1
          <6>2. m \in 1 .. n /\ m # 1 /\ m - 1 = i
            BY <3>0, <5>1
          <6> HIDE DEF m, n
          <6>3. D[m] = D[m - 1] \o ps[m]
            BY <6>1, <6>2
          <6>4. QED
            BY <6>2, <6>3 DEF m
      <4>2. Good(D[i], i) /\ i \in Nat
        BY <2>2, <3>2
      <4>3. t[i + 1] = t[i] + Len(ps[i + 1]) /\ t[i + 1] \in Nat /\ t[i] \in Nat
        BY <1>2, <3>0
      <4>4. /\ D[i + 1] \in Seq(Byte)
            /\ Len(D[i + 1]) = t[i + 1]
            /\ Holds(D[i + 1], 0, D[i])
            /\ Holds(D[i + 1], t[i], ps[i + 1])
        BY <1>1, <3>0, <4>1, <4>2, <4>3, HoldsConcat
      <4>5. ASSUME NEW k \in 1 .. i + 1 PROVE Holds(D[i + 1], t[k - 1], ps[k])
        <5>1. CASE k = i + 1
          BY <3>0, <4>4, <5>1
        <5>2. CASE k # i + 1
          <6>1. k \in 1 .. i /\ k \in 1 .. n /\ k - 1 \in 0 .. n
            BY <1>1, <3>0, <4>2, <5>2
          <6>2. Holds(D[i], t[k - 1], ps[k])
            BY <4>2, <6>1
          <6>3. t[k - 1] \in Nat /\ ps[k] \in Seq(Byte) /\ 0 + t[k - 1] = t[k - 1]
            <7>1. t[k - 1] \in Nat
              BY <1>2, <6>1
            <7>2. QED
              BY <1>1, <6>1, <7>1
          <6>4. Holds(D[i + 1], 0 + t[k - 1], ps[k])
            BY <4>2, <4>4, <6>2, <6>3, HoldsWithin
          <6>5. QED
            BY <6>3, <6>4
        <5>3. QED
          BY <5>1, <5>2
      <4>6. Good(D[i + 1], i + 1)
        BY <4>4, <4>5
      <4> HIDE DEF Good
      <4>7. QED
        BY <3>0, <4>6
    <3>3. QED
      BY <3>1, <3>2
  <2>3. n \in S
    <3>1. 0 \in S
      BY <1>1
    <3> HIDE DEF S
    <3>2. 0 .. n \subseteq S
      BY <1>1, <2>2, <3>1, IntervalInduction
    <3>3. QED
      BY <1>1, <3>2
  <2>4. Good(D[n], n)
    BY <1>4, <2>3
  <2>5. FlattenSeq(ps) = D[n]
    BY <1>4 DEF FlattenSeq
  <2> HIDE DEF D
  <2>6. QED
    BY <2>4, <2>5
<1>5. QED
  BY <1>3, <1>4

-----------------------------------------------------------------------------
(* Words                                                                    *)

\* The powers of 256 that are used.
LEMMA Powers ==
  /\ Power(0) = 1
  /\ Power(1) = 256
  /\ Power(2) = 65536
  /\ Power(3) = 16777216
  /\ Power(4) = 4294967296
  BY SMT DEF Power

\* The steps of the recursion of Number.
Reads(t, s, at, w) ==
    /\ t \in [0 .. w -> Nat]
    /\ t[0] = 0
    /\ \A k \in 1 .. w : t[k] = 256 * t[k - 1] + s[at + k]

\* A word of w bytes is w bytes.
LEMMA WordType ==
  ASSUME NEW w \in 1 .. 4, NEW v \in Nat
  PROVE  Word(w, v) \in Seq(Byte) /\ Len(Word(w, v)) = w
<1>1. ASSUME NEW k \in 1 .. w PROVE (v \div 256 ^ (w - k)) % 256 \in Byte
  <2>1. w - k \in {0, 1, 2, 3}
    BY SMT
  <2>2. Power(w - k) \in {1, 256, 65536, 16777216}
    BY <2>1, Powers
  <2>3. v \div Power(w - k) \in Nat
    BY <2>2, SMT
  <2>4. QED
    BY <2>3 DEF Byte, Power
<1>2. Word(w, v) \in [1 .. w -> Byte]
  BY <1>1 DEF Word
<1>3. QED
  BY <1>2, SequenceOf

\* Number is what follows from its recursion.
LEMMA NumberIs ==
  ASSUME NEW w \in 1 .. 4, NEW s, NEW at, NEW t, Reads(t, s, at, w)
  PROVE  Number(s, at, w) = t[w]
<1> DEFINE Rec(d) == [k \in 0 .. w |-> IF k = 0 THEN 0 ELSE 256 * d[k - 1] + s[at + k]]
           D == CHOOSE d : d = Rec(d)
           S == {k \in 0 .. w : D[k] = t[k]}
<1>1. t = Rec(t)
  BY DEF Reads
<1>0. /\ t[0] = 0 /\ w \in Nat
      /\ \A k \in 1 .. w : t[k] = 256 * t[k - 1] + s[at + k]
  BY DEF Reads
<1>2. D = Rec(D)
  <2> HIDE DEF Rec
  <2>1. QED
    BY <1>1
<1>3. /\ \A k \in 1 .. w : D[k] = 256 * D[k - 1] + s[at + k]
      /\ D[0] = 0
  <2> HIDE DEF D
  <2>1. /\ \A k \in 1 .. w : Rec(D)[k] = 256 * D[k - 1] + s[at + k]
        /\ Rec(D)[0] = 0
    OBVIOUS
  <2> HIDE DEF Rec
  <2>2. QED
    BY <1>2, <2>1
<1>4. 0 .. w \subseteq S
  <2>1. 0 \in S
    BY <1>0, <1>3
  <2>2. ASSUME NEW k \in 0 .. w, k \in S, k < w PROVE k + 1 \in S
    <3> HIDE DEF D
    <3> DEFINE m == k + 1
    <3>1. m \in 1 .. w /\ m - 1 = k /\ m \in 0 .. w
      BY <2>2
    <3> HIDE DEF m
    <3>2. D[m] = 256 * D[m - 1] + s[at + m] /\ t[m] = 256 * t[m - 1] + s[at + m]
      BY <1>0, <1>3, <3>1
    <3>3. D[m] = t[m]
      BY <2>2, <3>1, <3>2
    <3>4. m \in S
      BY <3>1, <3>3
    <3> HIDE DEF S
    <3>5. QED
      BY <3>4 DEF m
  <2> HIDE DEF S
  <2>3. QED
    BY <1>0, <2>1, <2>2, IntervalInduction
<1>5. D[w] = t[w]
  <2> HIDE DEF D
  <2>1. w \in S
    BY <1>4
  <2>2. QED
    BY <2>1
<1>6. QED
  BY <1>5 DEF Number

\* A number is its low byte and the rest, shifted.
LEMMA LowByte ==
  \A v \in Nat : v = 256 * (v \div 256) + (v % 256)
  BY SMT

\* Shifts by bytes, one after the other.
LEMMA Quotients ==
  \A v \in Nat : /\ v \div 1 = v
                /\ v \div 256 \in Nat
                /\ v \div 65536 \in Nat
                /\ v \div 16777216 \in Nat
                /\ (v \div 256) \div 256 = v \div 65536
                /\ (v \div 65536) \div 256 = v \div 16777216
                /\ (v \div 16777216) \div 256 = v \div 4294967296
  BY SMT

\* The step of the recursion of Number, by which a word is read.
LEMMA ByteSplit ==
  ASSUME NEW v \in Nat, NEW e \in {0, 1, 2, 3}
  PROVE  v \div Power(e) = 256 * (v \div Power(e + 1)) + ((v \div Power(e)) % 256)
<1>1. CASE e = 0
  <2>1. Power(e) = 1 /\ Power(e + 1) = 256
    BY <1>1, Powers, SMT
  <2> DEFINE u == v \div 1
  <2>2. u \in Nat /\ u \div 256 = v \div 256
    BY Quotients, SMT
  <2> HIDE DEF u
  <2>3. u = 256 * (u \div 256) + (u % 256)
    BY <2>2, LowByte
  <2>4. v \div Power(e) = u /\ v \div Power(e + 1) = u \div 256
    BY <2>1, <2>2, SMT DEF u
  <2>5. QED
    BY <2>3, <2>4
<1>2. CASE e = 1
  <2>1. Power(e) = 256 /\ Power(e + 1) = 65536
    BY <1>2, Powers, SMT
  <2> DEFINE u == v \div 256
  <2>2. u \in Nat /\ u \div 256 = v \div 65536
    BY Quotients, SMT
  <2> HIDE DEF u
  <2>3. u = 256 * (u \div 256) + (u % 256)
    BY <2>2, LowByte
  <2>4. v \div Power(e) = u /\ v \div Power(e + 1) = u \div 256
    BY <2>1, <2>2, SMT DEF u
  <2>5. QED
    BY <2>3, <2>4
<1>3. CASE e = 2
  <2>1. Power(e) = 65536 /\ Power(e + 1) = 16777216
    BY <1>3, Powers, SMT
  <2> DEFINE u == v \div 65536
  <2>2. u \in Nat /\ u \div 256 = v \div 16777216
    BY Quotients, SMT
  <2> HIDE DEF u
  <2>3. u = 256 * (u \div 256) + (u % 256)
    BY <2>2, LowByte
  <2>4. v \div Power(e) = u /\ v \div Power(e + 1) = u \div 256
    BY <2>1, <2>2, SMT DEF u
  <2>5. QED
    BY <2>3, <2>4
<1>4. CASE e = 3
  <2>1. Power(e) = 16777216 /\ Power(e + 1) = 4294967296
    BY <1>4, Powers, SMT
  <2> DEFINE u == v \div 16777216
  <2>2. u \in Nat /\ u \div 256 = v \div 4294967296
    BY Quotients, SMT
  <2> HIDE DEF u
  <2>3. u = 256 * (u \div 256) + (u % 256)
    BY <2>2, LowByte
  <2>4. v \div Power(e) = u /\ v \div Power(e + 1) = u \div 256
    BY <2>1, <2>2, SMT DEF u
  <2>5. QED
    BY <2>3, <2>4
<1>5. QED
  BY <1>1, <1>2, <1>3, <1>4

\* What WriteU8, WriteHtonU16 and WriteHtonU32 write is read again.
LEMMA NumberOfWord ==
  ASSUME NEW w \in 1 .. 4, NEW v \in Nat, v < Power(w),
         NEW s \in Seq(Byte), NEW at \in Nat, Holds(s, at, Word(w, v))
  PROVE  Number(s, at, w) = v
<1> DEFINE t == [k \in 0 .. w |-> v \div Power(w - k)]
<1>1. ASSUME NEW k \in 1 .. w PROVE s[at + k] = (v \div Power(w - k)) % 256
  <2>1. Len(Word(w, v)) = w
    BY WordType
  <2>2. s[at + k] = Word(w, v)[k]
    BY <2>1 DEF Holds
  <2>3. Word(w, v)[k] = (v \div Power(w - k)) % 256
    BY DEF Word, Power
  <2>4. QED
    BY <2>2, <2>3
<1>2. t \in [0 .. w -> Nat]
  <2>1. ASSUME NEW k \in 0 .. w PROVE v \div Power(w - k) \in Nat
    <3>1. w - k \in {0, 1, 2, 3, 4}
      BY SMT
    <3>2. Power(w - k) \in {1, 256, 65536, 16777216, 4294967296}
      BY <3>1, Powers
    <3>3. QED
      BY <3>2, SMT
  <2>2. QED
    BY <2>1
<1>3. t[0] = 0
  <2>1. Power(w) \in {256, 65536, 16777216, 4294967296}
    <3>1. w \in {1, 2, 3, 4}
      OBVIOUS
    <3>2. QED
      BY <3>1, Powers
  <2>2. v \div Power(w) = 0
    BY <2>1, SMT
  <2>3. t[0] = v \div Power(w - 0) /\ w - 0 = w
    OBVIOUS
  <2> HIDE DEF t
  <2>4. QED
    BY <2>2, <2>3
<1>4. ASSUME NEW k \in 1 .. w PROVE t[k] = 256 * t[k - 1] + s[at + k]
  <2> DEFINE e == w - k
  <2>1. e \in {0, 1, 2, 3} /\ w - (k - 1) = e + 1
    BY SMT
  <2>2. t[k] = v \div Power(e) /\ t[k - 1] = v \div Power(e + 1)
    <3>1. k \in 0 .. w /\ k - 1 \in 0 .. w
      OBVIOUS
    <3>2. t[k] = v \div Power(w - k) /\ t[k - 1] = v \div Power(w - (k - 1))
      BY <3>1
    <3> HIDE DEF t
    <3>3. QED
      BY <2>1, <3>2
  <2>3. s[at + k] = (v \div Power(e)) % 256
    BY <1>1
  <2> HIDE DEF e, t
  <2>4. v \div Power(e) = 256 * (v \div Power(e + 1)) + ((v \div Power(e)) % 256)
    BY <2>1, ByteSplit
  <2> DEFINE x == v \div Power(e)
             y == v \div Power(e + 1)
  <2>5. t[k] = x /\ t[k - 1] = y /\ s[at + k] = x % 256 /\ x = 256 * y + (x % 256)
    BY <2>2, <2>3, <2>4
  <2> HIDE DEF x, y
  <2>6. QED
    BY <2>5
<1>5. t[w] = v
  <2>1. t[w] = v \div Power(w - w) /\ w - w = 0
    OBVIOUS
  <2> HIDE DEF t
  <2>2. t[w] = v \div 1
    BY <2>1, Powers
  <2>3. QED
    BY <2>2, SMT
<1> HIDE DEF t
<1>6. Reads(t, s, at, w)
  BY <1>2, <1>3, <1>4 DEF Reads
<1>7. Number(s, at, w) = t[w]
  BY <1>6, NumberIs
<1>8. QED
  BY <1>5, <1>7

-----------------------------------------------------------------------------
(* Layouts                                                                  *)

Name(L, i) == L[i][1]
Bytes(L, i) == L[i][2]
Named(L, i) == Name(L, i) # ""

\* A sequence of fields of 1 to 4 bytes.
IsLayout(L) ==
    /\ L \in Seq({L[i] : i \in 1 .. Len(L)})
    /\ \A i \in 1 .. Len(L) : Bytes(L, i) \in 1 .. 4

Members(L) == {Name(L, i) : i \in {i \in 1 .. Len(L) : Named(L, i)}}

\* What is written for field i.
Value(L, r, i) == IF Named(L, i) THEN r[Name(L, i)] ELSE 0

Fits(L, r) == \A i \in 1 .. Len(L) : Value(L, r, i) \in UInt(Bytes(L, i))

\* Where field i begins.
Offset(L, i) == Width(SubSeq(L, 1, i - 1))

\* What IsLayout says, field by field.
LEMMA LayoutFields ==
  ASSUME NEW L, IsLayout(L)
  PROVE  /\ Len(L) \in Nat
         /\ DOMAIN L = 1 .. Len(L)
         /\ \A i \in 1 .. Len(L) : Bytes(L, i) \in 1 .. 4
<1> DEFINE E == {L[i] : i \in 1 .. Len(L)}
<1>1. L \in Seq(E)
  BY DEF IsLayout
<1> HIDE DEF E
<1>2. Len(L) \in Nat /\ DOMAIN L = 1 .. Len(L)
  BY <1>1
<1>3. QED
  BY <1>2 DEF IsLayout

\* Each field begins where the one before it ends, and Width is where the last
\* one does.
LEMMA LayoutOffsets ==
  ASSUME NEW L, IsLayout(L)
  PROVE  /\ Offset(L, 1) = 0
         /\ \A k \in 1 .. Len(L) : Offset(L, k + 1) = Offset(L, k) + Bytes(L, k)
         /\ \A k \in 1 .. Len(L) + 1 : Offset(L, k) \in Nat
         /\ Width(L) = Offset(L, Len(L) + 1)
         /\ IsSums([k \in 0 .. Len(L) |-> Offset(L, k + 1)],
                   [i \in 1 .. Len(L) |-> Bytes(L, i)])
<1> DEFINE n == Len(L)
           ns == [i \in 1 .. n |-> Bytes(L, i)]
           E == {L[i] : i \in 1 .. Len(L)}
<1>1. n \in Nat /\ DOMAIN L = 1 .. n /\ L \in Seq(E)
  BY LayoutFields DEF IsLayout
<1> HIDE DEF E
<1>2. ns \in Seq(Nat) /\ Len(ns) = n /\ \A i \in 1 .. n : ns[i] = Bytes(L, i)
  BY <1>1, LayoutFields
<1>3. PICK t : IsSums(t, ns)
  <2> HIDE DEF ns
  <2>1. QED
    BY <1>2, SumsExist
<1>4. ASSUME NEW k \in 0 .. n
      PROVE  Width(SubSeq(L, 1, k)) = t[k]
  <2> DEFINE ms == [i \in DOMAIN SubSeq(L, 1, k) |-> SubSeq(L, 1, k)[i][2]]
  <2>1. /\ DOMAIN SubSeq(L, 1, k) = 1 .. k
        /\ \A i \in 1 .. k : SubSeq(L, 1, k)[i] = L[i]
    BY <1>1
  <2>2. ms = [i \in 1 .. k |-> Bytes(L, i)]
    BY <2>1 DEF Bytes
  <2>3. ms \in Seq(Nat) /\ Len(ms) = k /\ \A i \in 1 .. k : ms[i] = ns[i]
    <3>1. \A i \in 1 .. k : i \in 1 .. n /\ Bytes(L, i) \in Nat
      BY <1>1, LayoutFields
    <3>2. k \in Nat /\ ms \in [1 .. k -> Nat] /\ \A i \in 1 .. k : ms[i] = Bytes(L, i)
      BY <1>1, <2>2, <3>1
    <3> HIDE DEF ms, ns
    <3>3. ms \in Seq(Nat) /\ Len(ms) = k
      BY <3>2, SequenceOf
    <3>4. QED
      BY <1>2, <3>1, <3>2, <3>3
  <2>4. Total(ms) = t[k]
    <3> HIDE DEF ms, ns
    <3>1. Len(ms) <= Len(ns) /\ \A i \in 1 .. Len(ms) : ms[i] = ns[i]
      BY <1>1, <1>2, <2>3
    <3>2. Total(ms) = t[Len(ms)]
      BY <1>2, <1>3, <2>3, <3>1, TotalOfFirst
    <3>3. QED
      BY <2>3, <3>2
  <2>5. QED
    BY <2>4 DEF Width
<1>5. \A k \in 0 .. n : Offset(L, k + 1) = t[k]
  <2>1. ASSUME NEW k \in 0 .. n PROVE Offset(L, k + 1) = t[k]
    <3>1. k + 1 - 1 = k
      BY <1>1
    <3>2. QED
      BY <1>4, <3>1 DEF Offset
  <2>2. QED
    BY <2>1
<1>6. /\ t \in [0 .. n -> Nat]
      /\ t[0] = 0
      /\ \A k \in 1 .. n : t[k] = t[k - 1] + Bytes(L, k)
  <2> HIDE DEF ns
  <2>1. QED
    BY <1>2, <1>3 DEF IsSums
<1>7. Offset(L, 1) = 0
  <2>1. Offset(L, 0 + 1) = t[0]
    BY <1>1, <1>5
  <2>2. QED
    BY <1>6, <2>1
<1>8. ASSUME NEW k \in 1 .. n PROVE Offset(L, k + 1) = Offset(L, k) + Bytes(L, k)
  <2>1. k - 1 \in 0 .. n /\ k - 1 + 1 = k /\ k \in 0 .. n
    BY <1>1
  <2>2. Offset(L, k - 1 + 1) = t[k - 1] /\ Offset(L, k + 1) = t[k]
    BY <1>5, <2>1
  <2>3. QED
    BY <1>6, <2>1, <2>2
<1>9. ASSUME NEW k \in 1 .. n + 1 PROVE Offset(L, k) \in Nat
  <2>1. k - 1 \in 0 .. n /\ k - 1 + 1 = k
    BY <1>1
  <2>2. Offset(L, k - 1 + 1) = t[k - 1]
    BY <1>5, <2>1
  <2>3. t[k - 1] \in Nat
    BY <1>6, <2>1
  <2>4. QED
    BY <2>1, <2>2, <2>3
<1>10. Width(L) = Offset(L, n + 1)
  <2>1. SubSeq(L, 1, n) = L /\ n + 1 - 1 = n
    BY <1>1
  <2>2. Offset(L, n + 1) = Width(SubSeq(L, 1, n))
    BY <2>1 DEF Offset
  <2> HIDE DEF n
  <2>3. QED
    BY <2>1, <2>2
<1>11. IsSums([k \in 0 .. n |-> Offset(L, k + 1)], ns)
  <2>1. [k \in 0 .. n |-> Offset(L, k + 1)] = t
    BY <1>5, <1>6
  <2>2. QED
    BY <1>3, <2>1
<1>12. QED
  BY <1>7, <1>8, <1>9, <1>10, <1>11

\* The fields are written one behind the other.
LEMMA WriteLayout ==
  ASSUME NEW L, NEW r, IsLayout(L), Fits(L, r)
  PROVE  /\ Write(L, r) \in Seq(Byte)
         /\ Len(Write(L, r)) = Width(L)
         /\ \A i \in 1 .. Len(L) :
              Holds(Write(L, r), Offset(L, i), Word(Bytes(L, i), Value(L, r, i)))
<1> DEFINE n == Len(L)
           ps == [i \in 1 .. n |-> Word(Bytes(L, i), Value(L, r, i))]
           t == [k \in 0 .. n |-> Offset(L, k + 1)]
<1>1. n \in Nat /\ DOMAIN L = 1 .. n /\ \A i \in 1 .. n : Bytes(L, i) \in 1 .. 4
  BY LayoutFields
<1>2. \A i \in 1 .. n : Value(L, r, i) \in Nat
  BY DEF Fits, UInt
<1>3. \A i \in 1 .. n : /\ Word(Bytes(L, i), Value(L, r, i)) \in Seq(Byte)
                        /\ Len(Word(Bytes(L, i), Value(L, r, i))) = Bytes(L, i)
  BY <1>1, <1>2, WordType
<1>4. ps \in Seq(Seq(Byte)) /\ Len(ps) = n
  BY <1>1, <1>3
<1>5. Lengths(ps) = [i \in 1 .. n |-> Bytes(L, i)]
  BY <1>3, <1>4 DEF Lengths
<1>6. IsSums(t, Lengths(ps))
  <2> HIDE DEF ps
  <2>1. QED
    BY <1>5, LayoutOffsets
<1>7. Write(L, r) = FlattenSeq(ps)
  BY <1>1 DEF Write, Name, Bytes, Value, Named
<1>8. /\ FlattenSeq(ps) \in Seq(Byte)
      /\ Len(FlattenSeq(ps)) = t[n]
      /\ \A k \in 1 .. n : Holds(FlattenSeq(ps), t[k - 1], ps[k])
  <2> HIDE DEF ps, t
  <2>1. QED
    BY <1>4, <1>6, FlattenParts
<1>9. t[n] = Width(L)
  <2>1. n \in 0 .. n
    BY <1>1
  <2>2. t[n] = Offset(L, n + 1)
    BY <2>1
  <2> HIDE DEF t
  <2>3. QED
    BY <2>2, LayoutOffsets
<1>10. ASSUME NEW k \in 1 .. n
       PROVE  Holds(Write(L, r), Offset(L, k), Word(Bytes(L, k), Value(L, r, k)))
  <2>1. k - 1 \in 0 .. n /\ k - 1 + 1 = k
    BY <1>1
  <2>2. t[k - 1] = Offset(L, k) /\ ps[k] = Word(Bytes(L, k), Value(L, r, k))
    BY <2>1
  <2> HIDE DEF ps, t
  <2>3. QED
    BY <1>7, <1>8, <2>2
<1>11. QED
  <2> HIDE DEF ps, t
  <2>1. QED
    BY <1>7, <1>8, <1>9, <1>10

\* The fields stand in s behind the first at bytes.
HoldsFields(s, at, L, r) ==
    \A i \in 1 .. Len(L) :
       Named(L, i) => Holds(s, at + Offset(L, i), Word(Bytes(L, i), r[Name(L, i)]))

\* What Write writes is such a place.
LEMMA FieldsHeld ==
  ASSUME NEW L, NEW r, IsLayout(L), Fits(L, r),
         NEW s \in Seq(Byte), NEW at \in Nat, Holds(s, at, Write(L, r))
  PROVE  HoldsFields(s, at, L, r)
<1>1. ASSUME NEW i \in 1 .. Len(L), Named(L, i)
      PROVE  Holds(s, at + Offset(L, i), Word(Bytes(L, i), r[Name(L, i)]))
  <2>1. Value(L, r, i) = r[Name(L, i)]
    BY <1>1 DEF Value
  <2>2. /\ Write(L, r) \in Seq(Byte)
        /\ Holds(Write(L, r), Offset(L, i), Word(Bytes(L, i), r[Name(L, i)]))
    BY <2>1, WriteLayout
  <2>3. Offset(L, i) \in Nat
    <3>1. Len(L) \in Nat /\ i \in 1 .. Len(L) + 1
      BY LayoutFields
    <3>2. QED
      BY <3>1, LayoutOffsets
  <2>4. Word(Bytes(L, i), r[Name(L, i)]) \in Seq(Byte)
    <3>1. Bytes(L, i) \in 1 .. 4 /\ r[Name(L, i)] \in Nat
      BY <2>1, LayoutFields DEF Fits, UInt
    <3>2. QED
      BY <3>1, WordType
  <2>5. QED
    BY <2>2, <2>3, <2>4, HoldsWithin
<1>2. QED
  BY <1>1 DEF HoldsFields

\* Read finds the members.
LEMMA ReadLayout ==
  ASSUME NEW L, NEW r, IsLayout(L), Fits(L, r),
         NEW s \in Seq(Byte), NEW at \in Nat, HoldsFields(s, at, L, r)
  PROVE  Read(L, s, at) = [name \in Members(L) |-> r[name]]
<1> DEFINE n == Len(L)
           Fields == {i \in DOMAIN L : L[i][1] # ""}
           Field(name) == CHOOSE i \in Fields : L[i][1] = name
<1>1. n \in Nat /\ DOMAIN L = 1 .. n
  BY LayoutFields
<1>2. Members(L) = {L[i][1] : i \in Fields}
  BY <1>1 DEF Members, Name, Named
<1>3. ASSUME NEW i \in Fields
      PROVE  Number(s, at + Width(SubSeq(L, 1, i - 1)), L[i][2]) = r[L[i][1]]
  <2>1. i \in 1 .. n /\ Named(L, i)
    BY <1>1 DEF Name, Named
  <2> HIDE DEF Fields, Field
  <2>2. Holds(s, at + Offset(L, i), Word(Bytes(L, i), r[Name(L, i)]))
    BY <2>1 DEF HoldsFields
  <2>3. Bytes(L, i) \in 1 .. 4 /\ at + Offset(L, i) \in Nat
    <3>1. Offset(L, i) \in Nat
      <4>1. \A k \in 1 .. n : k \in 1 .. n + 1
        BY <1>1
      <4>2. i \in 1 .. n + 1
        BY <2>1, <4>1
      <4>3. QED
        BY <4>2, LayoutOffsets
    <3>2. at + Offset(L, i) \in Nat
      BY <3>1
    <3>3. Bytes(L, i) \in 1 .. 4
      BY <2>1, LayoutFields
    <3>4. QED
      BY <3>2, <3>3
  <2>4. r[Name(L, i)] \in Nat /\ r[Name(L, i)] < Power(Bytes(L, i))
    <3>1. Value(L, r, i) \in UInt(Bytes(L, i))
      BY <2>1 DEF Fits
    <3>2. r[Name(L, i)] \in UInt(Bytes(L, i))
      BY <2>1, <3>1 DEF Value
    <3>3. Power(Bytes(L, i)) \in Nat
      <4>1. Bytes(L, i) \in {1, 2, 3, 4}
        BY <2>3
      <4>2. QED
        BY <4>1, Powers, SMT
    <3>4. QED
      BY <3>2, <3>3 DEF UInt
  <2>5. Number(s, at + Offset(L, i), Bytes(L, i)) = r[Name(L, i)]
    BY <2>2, <2>3, <2>4, NumberOfWord
  <2>6. QED
    BY <2>5 DEF Offset, Name, Bytes
<1>4. ASSUME NEW name \in Members(L)
      PROVE  Number(s, at + Width(SubSeq(L, 1, Field(name) - 1)), L[Field(name)][2])
               = r[name]
  <2>1. Field(name) \in Fields /\ L[Field(name)][1] = name
    BY <1>2
  <2> HIDE DEF Field, Fields
  <2>2. QED
    BY <1>3, <2>1
<1>5. Read(L, s, at) =
        [name \in Members(L) |->
           Number(s, at + Width(SubSeq(L, 1, Field(name) - 1)), L[Field(name)][2])]
  BY <1>2 DEF Read
<1> HIDE DEF Field
<1>6. QED
  BY <1>4, <1>5

-----------------------------------------------------------------------------
(* The layouts of the code: their members, where each begins, their widths. *)

\* The fields of LSAHeader, in their order.
LEMMA LSAHeaderFields ==
  /\ Len(LSAHeader) = 7
  /\ Name(LSAHeader, 1) = "age" /\ Named(LSAHeader, 1) /\ Bytes(LSAHeader, 1) = 2
  /\ Name(LSAHeader, 2) = "type" /\ Named(LSAHeader, 2) /\ Bytes(LSAHeader, 2) = 2
  /\ Name(LSAHeader, 3) = "id" /\ Named(LSAHeader, 3) /\ Bytes(LSAHeader, 3) = 4
  /\ Name(LSAHeader, 4) = "advRtr" /\ Named(LSAHeader, 4) /\ Bytes(LSAHeader, 4) = 4
  /\ Name(LSAHeader, 5) = "seqNum" /\ Named(LSAHeader, 5) /\ Bytes(LSAHeader, 5) = 4
  /\ Name(LSAHeader, 6) = "checksum" /\ Named(LSAHeader, 6) /\ Bytes(LSAHeader, 6) = 2
  /\ Name(LSAHeader, 7) = "length" /\ Named(LSAHeader, 7) /\ Bytes(LSAHeader, 7) = 2
  BY DEF LSAHeader, Name, Bytes, Named

\* LSAHeader is a layout: its members, where each begins, its width.
LEMMA LSAHeaderLayout ==
  /\ IsLayout(LSAHeader)
  /\ Members(LSAHeader) = {"age", "type", "id", "advRtr", "seqNum", "checksum", "length"}
  /\ Offset(LSAHeader, 1) = 0 /\ Offset(LSAHeader, 2) = 2 /\ Offset(LSAHeader, 3) = 4
  /\ Offset(LSAHeader, 4) = 8 /\ Offset(LSAHeader, 5) = 12 /\ Offset(LSAHeader, 6) = 16
  /\ Offset(LSAHeader, 7) = 18
  /\ Width(LSAHeader) = 20
<1>0. 1 .. 7 = {1, 2, 3, 4, 5, 6, 7}
  OBVIOUS
<1>1. \A i \in 1 .. 7 : Bytes(LSAHeader, i) \in 1 .. 4
  BY <1>0, LSAHeaderFields
<1>2. LSAHeader \in Seq({LSAHeader[i] : i \in 1 .. Len(LSAHeader)}) /\ Len(LSAHeader) = 7
  <2> DEFINE E == {LSAHeader[i] : i \in 1 .. Len(LSAHeader)}
  <2>1. LSAHeader = [i \in 1 .. 7 |-> LSAHeader[i]]
    BY DEF LSAHeader
  <2>2. \A i \in 1 .. 7 : LSAHeader[i] \in E
    BY LSAHeaderFields
  <2> HIDE DEF E
  <2>3. LSAHeader \in [1 .. 7 -> E]
    BY <2>1, <2>2
  <2>4. PICK n \in Nat : n = 7 /\ LSAHeader \in [1 .. n -> E]
    BY <2>3
  <2>5. LSAHeader \in Seq(E)
    BY <2>4, SequenceOf
  <2>6. QED
    BY <2>5, LSAHeaderFields DEF E
<1>3. IsLayout(LSAHeader)
  BY <1>1, <1>2 DEF IsLayout
<1>4. Members(LSAHeader) = {"age", "type", "id", "advRtr", "seqNum", "checksum", "length"}
  <2>1. {i \in 1 .. 7 : Named(LSAHeader, i)} = {1, 2, 3, 4, 5, 6, 7}
    BY <1>0, LSAHeaderFields
  <2>2. Members(LSAHeader) = {Name(LSAHeader, i) : i \in {1, 2, 3, 4, 5, 6, 7}}
    BY <1>2, <2>1 DEF Members
  <2>3. QED
    BY <2>2, LSAHeaderFields
<1>5. \A k \in 1 .. 7 : Offset(LSAHeader, k + 1) = Offset(LSAHeader, k) + Bytes(LSAHeader, k)
  BY <1>2, <1>3, LayoutOffsets
<1>6. Offset(LSAHeader, 1) = 0 /\ Width(LSAHeader) = Offset(LSAHeader, 7 + 1)
  BY <1>2, <1>3, LayoutOffsets
<1>7. Offset(LSAHeader, 2) = 2
  <2>1. Offset(LSAHeader, 1 + 1) = Offset(LSAHeader, 1) + Bytes(LSAHeader, 1)
    BY <1>5
  <2>2. QED
    BY <1>6, <2>1, LSAHeaderFields
<1>8. Offset(LSAHeader, 3) = 4
  <2>1. Offset(LSAHeader, 2 + 1) = Offset(LSAHeader, 2) + Bytes(LSAHeader, 2)
    BY <1>5
  <2>2. QED
    BY <1>7, <2>1, LSAHeaderFields
<1>9. Offset(LSAHeader, 4) = 8
  <2>1. Offset(LSAHeader, 3 + 1) = Offset(LSAHeader, 3) + Bytes(LSAHeader, 3)
    BY <1>5
  <2>2. QED
    BY <1>8, <2>1, LSAHeaderFields
<1>10. Offset(LSAHeader, 5) = 12
  <2>1. Offset(LSAHeader, 4 + 1) = Offset(LSAHeader, 4) + Bytes(LSAHeader, 4)
    BY <1>5
  <2>2. QED
    BY <1>9, <2>1, LSAHeaderFields
<1>11. Offset(LSAHeader, 6) = 16
  <2>1. Offset(LSAHeader, 5 + 1) = Offset(LSAHeader, 5) + Bytes(LSAHeader, 5)
    BY <1>5
  <2>2. QED
    BY <1>10, <2>1, LSAHeaderFields
<1>12. Offset(LSAHeader, 7) = 18
  <2>1. Offset(LSAHeader, 6 + 1) = Offset(LSAHeader, 6) + Bytes(LSAHeader, 6)
    BY <1>5
  <2>2. QED
    BY <1>11, <2>1, LSAHeaderFields
<1>13. Offset(LSAHeader, 8) = 20
  <2>1. Offset(LSAHeader, 7 + 1) = Offset(LSAHeader, 7) + Bytes(LSAHeader, 7)
    BY <1>5
  <2>2. QED
    BY <1>12, <2>1, LSAHeaderFields
<1>14. QED
  BY <1>3, <1>4, <1>6, <1>7, <1>8, <1>9, <1>10, <1>11, <1>12, <1>13

\* The fields of LSAHeaderStart, in their order.
LEMMA LSAHeaderStartFields ==
  /\ Len(LSAHeaderStart) = 6
  /\ Name(LSAHeaderStart, 1) = "age" /\ Named(LSAHeaderStart, 1) /\ Bytes(LSAHeaderStart, 1) = 2
  /\ Name(LSAHeaderStart, 2) = "type" /\ Named(LSAHeaderStart, 2) /\ Bytes(LSAHeaderStart, 2) = 2
  /\ Name(LSAHeaderStart, 3) = "id" /\ Named(LSAHeaderStart, 3) /\ Bytes(LSAHeaderStart, 3) = 4
  /\ Name(LSAHeaderStart, 4) = "advRtr" /\ Named(LSAHeaderStart, 4) /\ Bytes(LSAHeaderStart, 4) = 4
  /\ Name(LSAHeaderStart, 5) = "seqNum" /\ Named(LSAHeaderStart, 5) /\ Bytes(LSAHeaderStart, 5) = 4
  /\ Name(LSAHeaderStart, 6) = "checksum" /\ Named(LSAHeaderStart, 6) /\ Bytes(LSAHeaderStart, 6) = 2
  BY DEF LSAHeaderStart, LSAHeader, Name, Bytes, Named

\* LSAHeaderStart is a layout: its members, where each begins, its width.
LEMMA LSAHeaderStartLayout ==
  /\ IsLayout(LSAHeaderStart)
  /\ Members(LSAHeaderStart) = {"age", "type", "id", "advRtr", "seqNum", "checksum"}
  /\ Offset(LSAHeaderStart, 1) = 0 /\ Offset(LSAHeaderStart, 2) = 2 /\ Offset(LSAHeaderStart, 3) = 4
  /\ Offset(LSAHeaderStart, 4) = 8 /\ Offset(LSAHeaderStart, 5) = 12 /\ Offset(LSAHeaderStart, 6) = 16
  /\ Width(LSAHeaderStart) = 18
<1>0. 1 .. 6 = {1, 2, 3, 4, 5, 6}
  OBVIOUS
<1>1. \A i \in 1 .. 6 : Bytes(LSAHeaderStart, i) \in 1 .. 4
  BY <1>0, LSAHeaderStartFields
<1>2. LSAHeaderStart \in Seq({LSAHeaderStart[i] : i \in 1 .. Len(LSAHeaderStart)}) /\ Len(LSAHeaderStart) = 6
  <2> DEFINE E == {LSAHeaderStart[i] : i \in 1 .. Len(LSAHeaderStart)}
  <2>1. LSAHeaderStart = [i \in 1 .. 6 |-> LSAHeaderStart[i]]
    <3> DEFINE F == {LSAHeader[i] : i \in 1 .. Len(LSAHeader)}
    <3>1. LSAHeader \in Seq(F) /\ Len(LSAHeader) = 7
      BY LSAHeaderLayout, LSAHeaderFields DEF IsLayout
    <3> HIDE DEF F
    <3>2. QED
      BY <3>1 DEF LSAHeaderStart
  <2>2. \A i \in 1 .. 6 : LSAHeaderStart[i] \in E
    BY LSAHeaderStartFields
  <2> HIDE DEF E
  <2>3. LSAHeaderStart \in [1 .. 6 -> E]
    BY <2>1, <2>2
  <2>4. PICK n \in Nat : n = 6 /\ LSAHeaderStart \in [1 .. n -> E]
    BY <2>3
  <2>5. LSAHeaderStart \in Seq(E)
    BY <2>4, SequenceOf
  <2>6. QED
    BY <2>5, LSAHeaderStartFields DEF E
<1>3. IsLayout(LSAHeaderStart)
  BY <1>1, <1>2 DEF IsLayout
<1>4. Members(LSAHeaderStart) = {"age", "type", "id", "advRtr", "seqNum", "checksum"}
  <2>1. {i \in 1 .. 6 : Named(LSAHeaderStart, i)} = {1, 2, 3, 4, 5, 6}
    BY <1>0, LSAHeaderStartFields
  <2>2. Members(LSAHeaderStart) = {Name(LSAHeaderStart, i) : i \in {1, 2, 3, 4, 5, 6}}
    BY <1>2, <2>1 DEF Members
  <2>3. QED
    BY <2>2, LSAHeaderStartFields
<1>5. \A k \in 1 .. 6 : Offset(LSAHeaderStart, k + 1) = Offset(LSAHeaderStart, k) + Bytes(LSAHeaderStart, k)
  BY <1>2, <1>3, LayoutOffsets
<1>6. Offset(LSAHeaderStart, 1) = 0 /\ Width(LSAHeaderStart) = Offset(LSAHeaderStart, 6 + 1)
  BY <1>2, <1>3, LayoutOffsets
<1>7. Offset(LSAHeaderStart, 2) = 2
  <2>1. Offset(LSAHeaderStart, 1 + 1) = Offset(LSAHeaderStart, 1) + Bytes(LSAHeaderStart, 1)
    BY <1>5
  <2>2. QED
    BY <1>6, <2>1, LSAHeaderStartFields
<1>8. Offset(LSAHeaderStart, 3) = 4
  <2>1. Offset(LSAHeaderStart, 2 + 1) = Offset(LSAHeaderStart, 2) + Bytes(LSAHeaderStart, 2)
    BY <1>5
  <2>2. QED
    BY <1>7, <2>1, LSAHeaderStartFields
<1>9. Offset(LSAHeaderStart, 4) = 8
  <2>1. Offset(LSAHeaderStart, 3 + 1) = Offset(LSAHeaderStart, 3) + Bytes(LSAHeaderStart, 3)
    BY <1>5
  <2>2. QED
    BY <1>8, <2>1, LSAHeaderStartFields
<1>10. Offset(LSAHeaderStart, 5) = 12
  <2>1. Offset(LSAHeaderStart, 4 + 1) = Offset(LSAHeaderStart, 4) + Bytes(LSAHeaderStart, 4)
    BY <1>5
  <2>2. QED
    BY <1>9, <2>1, LSAHeaderStartFields
<1>11. Offset(LSAHeaderStart, 6) = 16
  <2>1. Offset(LSAHeaderStart, 5 + 1) = Offset(LSAHeaderStart, 5) + Bytes(LSAHeaderStart, 5)
    BY <1>5
  <2>2. QED
    BY <1>10, <2>1, LSAHeaderStartFields
<1>12. Offset(LSAHeaderStart, 7) = 18
  <2>1. Offset(LSAHeaderStart, 6 + 1) = Offset(LSAHeaderStart, 6) + Bytes(LSAHeaderStart, 6)
    BY <1>5
  <2>2. QED
    BY <1>11, <2>1, LSAHeaderStartFields
<1>13. QED
  BY <1>3, <1>4, <1>6, <1>7, <1>8, <1>9, <1>10, <1>11, <1>12

\* The fields of RouterLink, in their order.
LEMMA RouterLinkFields ==
  /\ Len(RouterLink) = 6
  /\ Name(RouterLink, 1) = "type" /\ Named(RouterLink, 1) /\ Bytes(RouterLink, 1) = 1
  /\ ~Named(RouterLink, 2) /\ Bytes(RouterLink, 2) = 1
  /\ Name(RouterLink, 3) = "metric" /\ Named(RouterLink, 3) /\ Bytes(RouterLink, 3) = 2
  /\ Name(RouterLink, 4) = "interfaceId" /\ Named(RouterLink, 4) /\ Bytes(RouterLink, 4) = 4
  /\ Name(RouterLink, 5) = "neighborInterfaceId" /\ Named(RouterLink, 5) /\ Bytes(RouterLink, 5) = 4
  /\ Name(RouterLink, 6) = "neighborRouterId" /\ Named(RouterLink, 6) /\ Bytes(RouterLink, 6) = 4
  BY DEF RouterLink, Name, Bytes, Named

\* RouterLink is a layout: its members, where each begins, its width.
LEMMA RouterLinkLayout ==
  /\ IsLayout(RouterLink)
  /\ Members(RouterLink) = {"type", "metric", "interfaceId", "neighborInterfaceId", "neighborRouterId"}
  /\ Offset(RouterLink, 1) = 0 /\ Offset(RouterLink, 2) = 1 /\ Offset(RouterLink, 3) = 2
  /\ Offset(RouterLink, 4) = 4 /\ Offset(RouterLink, 5) = 8 /\ Offset(RouterLink, 6) = 12
  /\ Width(RouterLink) = 16
<1>0. 1 .. 6 = {1, 2, 3, 4, 5, 6}
  OBVIOUS
<1>1. \A i \in 1 .. 6 : Bytes(RouterLink, i) \in 1 .. 4
  BY <1>0, RouterLinkFields
<1>2. RouterLink \in Seq({RouterLink[i] : i \in 1 .. Len(RouterLink)}) /\ Len(RouterLink) = 6
  <2> DEFINE E == {RouterLink[i] : i \in 1 .. Len(RouterLink)}
  <2>1. RouterLink = [i \in 1 .. 6 |-> RouterLink[i]]
    BY DEF RouterLink
  <2>2. \A i \in 1 .. 6 : RouterLink[i] \in E
    BY RouterLinkFields
  <2> HIDE DEF E
  <2>3. RouterLink \in [1 .. 6 -> E]
    BY <2>1, <2>2
  <2>4. PICK n \in Nat : n = 6 /\ RouterLink \in [1 .. n -> E]
    BY <2>3
  <2>5. RouterLink \in Seq(E)
    BY <2>4, SequenceOf
  <2>6. QED
    BY <2>5, RouterLinkFields DEF E
<1>3. IsLayout(RouterLink)
  BY <1>1, <1>2 DEF IsLayout
<1>4. Members(RouterLink) = {"type", "metric", "interfaceId", "neighborInterfaceId", "neighborRouterId"}
  <2>1. {i \in 1 .. 6 : Named(RouterLink, i)} = {1, 3, 4, 5, 6}
    BY <1>0, RouterLinkFields
  <2>2. Members(RouterLink) = {Name(RouterLink, i) : i \in {1, 3, 4, 5, 6}}
    BY <1>2, <2>1 DEF Members
  <2>3. QED
    BY <2>2, RouterLinkFields
<1>5. \A k \in 1 .. 6 : Offset(RouterLink, k + 1) = Offset(RouterLink, k) + Bytes(RouterLink, k)
  BY <1>2, <1>3, LayoutOffsets
<1>6. Offset(RouterLink, 1) = 0 /\ Width(RouterLink) = Offset(RouterLink, 6 + 1)
  BY <1>2, <1>3, LayoutOffsets
<1>7. Offset(RouterLink, 2) = 1
  <2>1. Offset(RouterLink, 1 + 1) = Offset(RouterLink, 1) + Bytes(RouterLink, 1)
    BY <1>5
  <2>2. QED
    BY <1>6, <2>1, RouterLinkFields
<1>8. Offset(RouterLink, 3) = 2
  <2>1. Offset(RouterLink, 2 + 1) = Offset(RouterLink, 2) + Bytes(RouterLink, 2)
    BY <1>5
  <2>2. QED
    BY <1>7, <2>1, RouterLinkFields
<1>9. Offset(RouterLink, 4) = 4
  <2>1. Offset(RouterLink, 3 + 1) = Offset(RouterLink, 3) + Bytes(RouterLink, 3)
    BY <1>5
  <2>2. QED
    BY <1>8, <2>1, RouterLinkFields
<1>10. Offset(RouterLink, 5) = 8
  <2>1. Offset(RouterLink, 4 + 1) = Offset(RouterLink, 4) + Bytes(RouterLink, 4)
    BY <1>5
  <2>2. QED
    BY <1>9, <2>1, RouterLinkFields
<1>11. Offset(RouterLink, 6) = 12
  <2>1. Offset(RouterLink, 5 + 1) = Offset(RouterLink, 5) + Bytes(RouterLink, 5)
    BY <1>5
  <2>2. QED
    BY <1>10, <2>1, RouterLinkFields
<1>12. Offset(RouterLink, 7) = 16
  <2>1. Offset(RouterLink, 6 + 1) = Offset(RouterLink, 6) + Bytes(RouterLink, 6)
    BY <1>5
  <2>2. QED
    BY <1>11, <2>1, RouterLinkFields
<1>13. QED
  BY <1>3, <1>4, <1>6, <1>7, <1>8, <1>9, <1>10, <1>11, <1>12

\* The fields of LinkPrefix, in their order.
LEMMA LinkPrefixFields ==
  /\ Len(LinkPrefix) = 3
  /\ Name(LinkPrefix, 1) = "length" /\ Named(LinkPrefix, 1) /\ Bytes(LinkPrefix, 1) = 1
  /\ Name(LinkPrefix, 2) = "options" /\ Named(LinkPrefix, 2) /\ Bytes(LinkPrefix, 2) = 1
  /\ ~Named(LinkPrefix, 3) /\ Bytes(LinkPrefix, 3) = 2
  BY DEF LinkPrefix, Name, Bytes, Named

\* LinkPrefix is a layout: its members, where each begins, its width.
LEMMA LinkPrefixLayout ==
  /\ IsLayout(LinkPrefix)
  /\ Members(LinkPrefix) = {"length", "options"}
  /\ Offset(LinkPrefix, 1) = 0 /\ Offset(LinkPrefix, 2) = 1 /\ Offset(LinkPrefix, 3) = 2
  /\ Width(LinkPrefix) = 4
<1>0. 1 .. 3 = {1, 2, 3}
  OBVIOUS
<1>1. \A i \in 1 .. 3 : Bytes(LinkPrefix, i) \in 1 .. 4
  BY <1>0, LinkPrefixFields
<1>2. LinkPrefix \in Seq({LinkPrefix[i] : i \in 1 .. Len(LinkPrefix)}) /\ Len(LinkPrefix) = 3
  <2> DEFINE E == {LinkPrefix[i] : i \in 1 .. Len(LinkPrefix)}
  <2>1. LinkPrefix = [i \in 1 .. 3 |-> LinkPrefix[i]]
    BY DEF LinkPrefix
  <2>2. \A i \in 1 .. 3 : LinkPrefix[i] \in E
    BY LinkPrefixFields
  <2> HIDE DEF E
  <2>3. LinkPrefix \in [1 .. 3 -> E]
    BY <2>1, <2>2
  <2>4. PICK n \in Nat : n = 3 /\ LinkPrefix \in [1 .. n -> E]
    BY <2>3
  <2>5. LinkPrefix \in Seq(E)
    BY <2>4, SequenceOf
  <2>6. QED
    BY <2>5, LinkPrefixFields DEF E
<1>3. IsLayout(LinkPrefix)
  BY <1>1, <1>2 DEF IsLayout
<1>4. Members(LinkPrefix) = {"length", "options"}
  <2>1. {i \in 1 .. 3 : Named(LinkPrefix, i)} = {1, 2}
    BY <1>0, LinkPrefixFields
  <2>2. Members(LinkPrefix) = {Name(LinkPrefix, i) : i \in {1, 2}}
    BY <1>2, <2>1 DEF Members
  <2>3. QED
    BY <2>2, LinkPrefixFields
<1>5. \A k \in 1 .. 3 : Offset(LinkPrefix, k + 1) = Offset(LinkPrefix, k) + Bytes(LinkPrefix, k)
  BY <1>2, <1>3, LayoutOffsets
<1>6. Offset(LinkPrefix, 1) = 0 /\ Width(LinkPrefix) = Offset(LinkPrefix, 3 + 1)
  BY <1>2, <1>3, LayoutOffsets
<1>7. Offset(LinkPrefix, 2) = 1
  <2>1. Offset(LinkPrefix, 1 + 1) = Offset(LinkPrefix, 1) + Bytes(LinkPrefix, 1)
    BY <1>5
  <2>2. QED
    BY <1>6, <2>1, LinkPrefixFields
<1>8. Offset(LinkPrefix, 3) = 2
  <2>1. Offset(LinkPrefix, 2 + 1) = Offset(LinkPrefix, 2) + Bytes(LinkPrefix, 2)
    BY <1>5
  <2>2. QED
    BY <1>7, <2>1, LinkPrefixFields
<1>9. Offset(LinkPrefix, 4) = 4
  <2>1. Offset(LinkPrefix, 3 + 1) = Offset(LinkPrefix, 3) + Bytes(LinkPrefix, 3)
    BY <1>5
  <2>2. QED
    BY <1>8, <2>1, LinkPrefixFields
<1>10. QED
  BY <1>3, <1>4, <1>6, <1>7, <1>8, <1>9

\* The fields of AreaPrefix, in their order.
LEMMA AreaPrefixFields ==
  /\ Len(AreaPrefix) = 3
  /\ Name(AreaPrefix, 1) = "length" /\ Named(AreaPrefix, 1) /\ Bytes(AreaPrefix, 1) = 1
  /\ Name(AreaPrefix, 2) = "options" /\ Named(AreaPrefix, 2) /\ Bytes(AreaPrefix, 2) = 1
  /\ Name(AreaPrefix, 3) = "metric" /\ Named(AreaPrefix, 3) /\ Bytes(AreaPrefix, 3) = 2
  BY DEF AreaPrefix, Name, Bytes, Named

\* AreaPrefix is a layout: its members, where each begins, its width.
LEMMA AreaPrefixLayout ==
  /\ IsLayout(AreaPrefix)
  /\ Members(AreaPrefix) = {"length", "options", "metric"}
  /\ Offset(AreaPrefix, 1) = 0 /\ Offset(AreaPrefix, 2) = 1 /\ Offset(AreaPrefix, 3) = 2
  /\ Width(AreaPrefix) = 4
<1>0. 1 .. 3 = {1, 2, 3}
  OBVIOUS
<1>1. \A i \in 1 .. 3 : Bytes(AreaPrefix, i) \in 1 .. 4
  BY <1>0, AreaPrefixFields
<1>2. AreaPrefix \in Seq({AreaPrefix[i] : i \in 1 .. Len(AreaPrefix)}) /\ Len(AreaPrefix) = 3
  <2> DEFINE E == {AreaPrefix[i] : i \in 1 .. Len(AreaPrefix)}
  <2>1. AreaPrefix = [i \in 1 .. 3 |-> AreaPrefix[i]]
    BY DEF AreaPrefix
  <2>2. \A i \in 1 .. 3 : AreaPrefix[i] \in E
    BY AreaPrefixFields
  <2> HIDE DEF E
  <2>3. AreaPrefix \in [1 .. 3 -> E]
    BY <2>1, <2>2
  <2>4. PICK n \in Nat : n = 3 /\ AreaPrefix \in [1 .. n -> E]
    BY <2>3
  <2>5. AreaPrefix \in Seq(E)
    BY <2>4, SequenceOf
  <2>6. QED
    BY <2>5, AreaPrefixFields DEF E
<1>3. IsLayout(AreaPrefix)
  BY <1>1, <1>2 DEF IsLayout
<1>4. Members(AreaPrefix) = {"length", "options", "metric"}
  <2>1. {i \in 1 .. 3 : Named(AreaPrefix, i)} = {1, 2, 3}
    BY <1>0, AreaPrefixFields
  <2>2. Members(AreaPrefix) = {Name(AreaPrefix, i) : i \in {1, 2, 3}}
    BY <1>2, <2>1 DEF Members
  <2>3. QED
    BY <2>2, AreaPrefixFields
<1>5. \A k \in 1 .. 3 : Offset(AreaPrefix, k + 1) = Offset(AreaPrefix, k) + Bytes(AreaPrefix, k)
  BY <1>2, <1>3, LayoutOffsets
<1>6. Offset(AreaPrefix, 1) = 0 /\ Width(AreaPrefix) = Offset(AreaPrefix, 3 + 1)
  BY <1>2, <1>3, LayoutOffsets
<1>7. Offset(AreaPrefix, 2) = 1
  <2>1. Offset(AreaPrefix, 1 + 1) = Offset(AreaPrefix, 1) + Bytes(AreaPrefix, 1)
    BY <1>5
  <2>2. QED
    BY <1>6, <2>1, AreaPrefixFields
<1>8. Offset(AreaPrefix, 3) = 2
  <2>1. Offset(AreaPrefix, 2 + 1) = Offset(AreaPrefix, 2) + Bytes(AreaPrefix, 2)
    BY <1>5
  <2>2. QED
    BY <1>7, <2>1, AreaPrefixFields
<1>9. Offset(AreaPrefix, 4) = 4
  <2>1. Offset(AreaPrefix, 3 + 1) = Offset(AreaPrefix, 3) + Bytes(AreaPrefix, 3)
    BY <1>5
  <2>2. QED
    BY <1>8, <2>1, AreaPrefixFields
<1>10. QED
  BY <1>3, <1>4, <1>6, <1>7, <1>8, <1>9

\* The fields of AreaPrefixFixed, in their order.
LEMMA AreaPrefixFixedFields ==
  /\ Len(AreaPrefixFixed) = 3
  /\ Name(AreaPrefixFixed, 1) = "refType" /\ Named(AreaPrefixFixed, 1) /\ Bytes(AreaPrefixFixed, 1) = 2
  /\ Name(AreaPrefixFixed, 2) = "refId" /\ Named(AreaPrefixFixed, 2) /\ Bytes(AreaPrefixFixed, 2) = 4
  /\ Name(AreaPrefixFixed, 3) = "refAdvRtr" /\ Named(AreaPrefixFixed, 3) /\ Bytes(AreaPrefixFixed, 3) = 4
  BY DEF AreaPrefixFixed, Name, Bytes, Named

\* AreaPrefixFixed is a layout: its members, where each begins, its width.
LEMMA AreaPrefixFixedLayout ==
  /\ IsLayout(AreaPrefixFixed)
  /\ Members(AreaPrefixFixed) = {"refType", "refId", "refAdvRtr"}
  /\ Offset(AreaPrefixFixed, 1) = 0 /\ Offset(AreaPrefixFixed, 2) = 2 /\ Offset(AreaPrefixFixed, 3) = 6
  /\ Width(AreaPrefixFixed) = 10
<1>0. 1 .. 3 = {1, 2, 3}
  OBVIOUS
<1>1. \A i \in 1 .. 3 : Bytes(AreaPrefixFixed, i) \in 1 .. 4
  BY <1>0, AreaPrefixFixedFields
<1>2. AreaPrefixFixed \in Seq({AreaPrefixFixed[i] : i \in 1 .. Len(AreaPrefixFixed)}) /\ Len(AreaPrefixFixed) = 3
  <2> DEFINE E == {AreaPrefixFixed[i] : i \in 1 .. Len(AreaPrefixFixed)}
  <2>1. AreaPrefixFixed = [i \in 1 .. 3 |-> AreaPrefixFixed[i]]
    BY DEF AreaPrefixFixed
  <2>2. \A i \in 1 .. 3 : AreaPrefixFixed[i] \in E
    BY AreaPrefixFixedFields
  <2> HIDE DEF E
  <2>3. AreaPrefixFixed \in [1 .. 3 -> E]
    BY <2>1, <2>2
  <2>4. PICK n \in Nat : n = 3 /\ AreaPrefixFixed \in [1 .. n -> E]
    BY <2>3
  <2>5. AreaPrefixFixed \in Seq(E)
    BY <2>4, SequenceOf
  <2>6. QED
    BY <2>5, AreaPrefixFixedFields DEF E
<1>3. IsLayout(AreaPrefixFixed)
  BY <1>1, <1>2 DEF IsLayout
<1>4. Members(AreaPrefixFixed) = {"refType", "refId", "refAdvRtr"}
  <2>1. {i \in 1 .. 3 : Named(AreaPrefixFixed, i)} = {1, 2, 3}
    BY <1>0, AreaPrefixFixedFields
  <2>2. Members(AreaPrefixFixed) = {Name(AreaPrefixFixed, i) : i \in {1, 2, 3}}
    BY <1>2, <2>1 DEF Members
  <2>3. QED
    BY <2>2, AreaPrefixFixedFields
<1>5. \A k \in 1 .. 3 : Offset(AreaPrefixFixed, k + 1) = Offset(AreaPrefixFixed, k) + Bytes(AreaPrefixFixed, k)
  BY <1>2, <1>3, LayoutOffsets
<1>6. Offset(AreaPrefixFixed, 1) = 0 /\ Width(AreaPrefixFixed) = Offset(AreaPrefixFixed, 3 + 1)
  BY <1>2, <1>3, LayoutOffsets
<1>7. Offset(AreaPrefixFixed, 2) = 2
  <2>1. Offset(AreaPrefixFixed, 1 + 1) = Offset(AreaPrefixFixed, 1) + Bytes(AreaPrefixFixed, 1)
    BY <1>5
  <2>2. QED
    BY <1>6, <2>1, AreaPrefixFixedFields
<1>8. Offset(AreaPrefixFixed, 3) = 6
  <2>1. Offset(AreaPrefixFixed, 2 + 1) = Offset(AreaPrefixFixed, 2) + Bytes(AreaPrefixFixed, 2)
    BY <1>5
  <2>2. QED
    BY <1>7, <2>1, AreaPrefixFixedFields
<1>9. Offset(AreaPrefixFixed, 4) = 10
  <2>1. Offset(AreaPrefixFixed, 3 + 1) = Offset(AreaPrefixFixed, 3) + Bytes(AreaPrefixFixed, 3)
    BY <1>5
  <2>2. QED
    BY <1>8, <2>1, AreaPrefixFixedFields
<1>10. QED
  BY <1>3, <1>4, <1>6, <1>7, <1>8, <1>9

\* The fields of OSPFHeader, in their order.
LEMMA OSPFHeaderFields ==
  /\ Len(OSPFHeader) = 8
  /\ Name(OSPFHeader, 1) = "version" /\ Named(OSPFHeader, 1) /\ Bytes(OSPFHeader, 1) = 1
  /\ Name(OSPFHeader, 2) = "type" /\ Named(OSPFHeader, 2) /\ Bytes(OSPFHeader, 2) = 1
  /\ Name(OSPFHeader, 3) = "length" /\ Named(OSPFHeader, 3) /\ Bytes(OSPFHeader, 3) = 2
  /\ Name(OSPFHeader, 4) = "routerId" /\ Named(OSPFHeader, 4) /\ Bytes(OSPFHeader, 4) = 4
  /\ Name(OSPFHeader, 5) = "areaId" /\ Named(OSPFHeader, 5) /\ Bytes(OSPFHeader, 5) = 4
  /\ ~Named(OSPFHeader, 6) /\ Bytes(OSPFHeader, 6) = 2
  /\ Name(OSPFHeader, 7) = "instanceId" /\ Named(OSPFHeader, 7) /\ Bytes(OSPFHeader, 7) = 1
  /\ ~Named(OSPFHeader, 8) /\ Bytes(OSPFHeader, 8) = 1
  BY DEF OSPFHeader, Name, Bytes, Named

\* OSPFHeader is a layout: its members, where each begins, its width.
LEMMA OSPFHeaderLayout ==
  /\ IsLayout(OSPFHeader)
  /\ Members(OSPFHeader) = {"version", "type", "length", "routerId", "areaId", "instanceId"}
  /\ Offset(OSPFHeader, 1) = 0 /\ Offset(OSPFHeader, 2) = 1 /\ Offset(OSPFHeader, 3) = 2
  /\ Offset(OSPFHeader, 4) = 4 /\ Offset(OSPFHeader, 5) = 8 /\ Offset(OSPFHeader, 6) = 12
  /\ Offset(OSPFHeader, 7) = 14 /\ Offset(OSPFHeader, 8) = 15
  /\ Width(OSPFHeader) = 16
<1>0. 1 .. 8 = {1, 2, 3, 4, 5, 6, 7, 8}
  OBVIOUS
<1>1. \A i \in 1 .. 8 : Bytes(OSPFHeader, i) \in 1 .. 4
  BY <1>0, OSPFHeaderFields
<1>2. OSPFHeader \in Seq({OSPFHeader[i] : i \in 1 .. Len(OSPFHeader)}) /\ Len(OSPFHeader) = 8
  <2> DEFINE E == {OSPFHeader[i] : i \in 1 .. Len(OSPFHeader)}
  <2>1. OSPFHeader = [i \in 1 .. 8 |-> OSPFHeader[i]]
    BY DEF OSPFHeader
  <2>2. \A i \in 1 .. 8 : OSPFHeader[i] \in E
    BY OSPFHeaderFields
  <2> HIDE DEF E
  <2>3. OSPFHeader \in [1 .. 8 -> E]
    BY <2>1, <2>2
  <2>4. PICK n \in Nat : n = 8 /\ OSPFHeader \in [1 .. n -> E]
    BY <2>3
  <2>5. OSPFHeader \in Seq(E)
    BY <2>4, SequenceOf
  <2>6. QED
    BY <2>5, OSPFHeaderFields DEF E
<1>3. IsLayout(OSPFHeader)
  BY <1>1, <1>2 DEF IsLayout
<1>4. Members(OSPFHeader) = {"version", "type", "length", "routerId", "areaId", "instanceId"}
  <2>1. {i \in 1 .. 8 : Named(OSPFHeader, i)} = {1, 2, 3, 4, 5, 7}
    BY <1>0, OSPFHeaderFields
  <2>2. Members(OSPFHeader) = {Name(OSPFHeader, i) : i \in {1, 2, 3, 4, 5, 7}}
    BY <1>2, <2>1 DEF Members
  <2>3. QED
    BY <2>2, OSPFHeaderFields
<1>5. \A k \in 1 .. 8 : Offset(OSPFHeader, k + 1) = Offset(OSPFHeader, k) + Bytes(OSPFHeader, k)
  BY <1>2, <1>3, LayoutOffsets
<1>6. Offset(OSPFHeader, 1) = 0 /\ Width(OSPFHeader) = Offset(OSPFHeader, 8 + 1)
  BY <1>2, <1>3, LayoutOffsets
<1>7. Offset(OSPFHeader, 2) = 1
  <2>1. Offset(OSPFHeader, 1 + 1) = Offset(OSPFHeader, 1) + Bytes(OSPFHeader, 1)
    BY <1>5
  <2>2. QED
    BY <1>6, <2>1, OSPFHeaderFields
<1>8. Offset(OSPFHeader, 3) = 2
  <2>1. Offset(OSPFHeader, 2 + 1) = Offset(OSPFHeader, 2) + Bytes(OSPFHeader, 2)
    BY <1>5
  <2>2. QED
    BY <1>7, <2>1, OSPFHeaderFields
<1>9. Offset(OSPFHeader, 4) = 4
  <2>1. Offset(OSPFHeader, 3 + 1) = Offset(OSPFHeader, 3) + Bytes(OSPFHeader, 3)
    BY <1>5
  <2>2. QED
    BY <1>8, <2>1, OSPFHeaderFields
<1>10. Offset(OSPFHeader, 5) = 8
  <2>1. Offset(OSPFHeader, 4 + 1) = Offset(OSPFHeader, 4) + Bytes(OSPFHeader, 4)
    BY <1>5
  <2>2. QED
    BY <1>9, <2>1, OSPFHeaderFields
<1>11. Offset(OSPFHeader, 6) = 12
  <2>1. Offset(OSPFHeader, 5 + 1) = Offset(OSPFHeader, 5) + Bytes(OSPFHeader, 5)
    BY <1>5
  <2>2. QED
    BY <1>10, <2>1, OSPFHeaderFields
<1>12. Offset(OSPFHeader, 7) = 14
  <2>1. Offset(OSPFHeader, 6 + 1) = Offset(OSPFHeader, 6) + Bytes(OSPFHeader, 6)
    BY <1>5
  <2>2. QED
    BY <1>11, <2>1, OSPFHeaderFields
<1>13. Offset(OSPFHeader, 8) = 15
  <2>1. Offset(OSPFHeader, 7 + 1) = Offset(OSPFHeader, 7) + Bytes(OSPFHeader, 7)
    BY <1>5
  <2>2. QED
    BY <1>12, <2>1, OSPFHeaderFields
<1>14. Offset(OSPFHeader, 9) = 16
  <2>1. Offset(OSPFHeader, 8 + 1) = Offset(OSPFHeader, 8) + Bytes(OSPFHeader, 8)
    BY <1>5
  <2>2. QED
    BY <1>13, <2>1, OSPFHeaderFields
<1>15. QED
  BY <1>3, <1>4, <1>6, <1>7, <1>8, <1>9, <1>10, <1>11, <1>12, <1>13, <1>14

\* The fields of OSPFHeaderStart, in their order.
LEMMA OSPFHeaderStartFields ==
  /\ Len(OSPFHeaderStart) = 2
  /\ Name(OSPFHeaderStart, 1) = "version" /\ Named(OSPFHeaderStart, 1) /\ Bytes(OSPFHeaderStart, 1) = 1
  /\ Name(OSPFHeaderStart, 2) = "type" /\ Named(OSPFHeaderStart, 2) /\ Bytes(OSPFHeaderStart, 2) = 1
  BY DEF OSPFHeaderStart, OSPFHeader, Name, Bytes, Named

\* OSPFHeaderStart is a layout: its members, where each begins, its width.
LEMMA OSPFHeaderStartLayout ==
  /\ IsLayout(OSPFHeaderStart)
  /\ Members(OSPFHeaderStart) = {"version", "type"}
  /\ Offset(OSPFHeaderStart, 1) = 0 /\ Offset(OSPFHeaderStart, 2) = 1
  /\ Width(OSPFHeaderStart) = 2
<1>0. 1 .. 2 = {1, 2}
  OBVIOUS
<1>1. \A i \in 1 .. 2 : Bytes(OSPFHeaderStart, i) \in 1 .. 4
  BY <1>0, OSPFHeaderStartFields
<1>2. OSPFHeaderStart \in Seq({OSPFHeaderStart[i] : i \in 1 .. Len(OSPFHeaderStart)}) /\ Len(OSPFHeaderStart) = 2
  <2> DEFINE E == {OSPFHeaderStart[i] : i \in 1 .. Len(OSPFHeaderStart)}
  <2>1. OSPFHeaderStart = [i \in 1 .. 2 |-> OSPFHeaderStart[i]]
    <3> DEFINE F == {OSPFHeader[i] : i \in 1 .. Len(OSPFHeader)}
    <3>1. OSPFHeader \in Seq(F) /\ Len(OSPFHeader) = 8
      BY OSPFHeaderLayout, OSPFHeaderFields DEF IsLayout
    <3> HIDE DEF F
    <3>2. QED
      BY <3>1 DEF OSPFHeaderStart
  <2>2. \A i \in 1 .. 2 : OSPFHeaderStart[i] \in E
    BY OSPFHeaderStartFields
  <2> HIDE DEF E
  <2>3. OSPFHeaderStart \in [1 .. 2 -> E]
    BY <2>1, <2>2
  <2>4. PICK n \in Nat : n = 2 /\ OSPFHeaderStart \in [1 .. n -> E]
    BY <2>3
  <2>5. OSPFHeaderStart \in Seq(E)
    BY <2>4, SequenceOf
  <2>6. QED
    BY <2>5, OSPFHeaderStartFields DEF E
<1>3. IsLayout(OSPFHeaderStart)
  BY <1>1, <1>2 DEF IsLayout
<1>4. Members(OSPFHeaderStart) = {"version", "type"}
  <2>1. {i \in 1 .. 2 : Named(OSPFHeaderStart, i)} = {1, 2}
    BY <1>0, OSPFHeaderStartFields
  <2>2. Members(OSPFHeaderStart) = {Name(OSPFHeaderStart, i) : i \in {1, 2}}
    BY <1>2, <2>1 DEF Members
  <2>3. QED
    BY <2>2, OSPFHeaderStartFields
<1>5. \A k \in 1 .. 2 : Offset(OSPFHeaderStart, k + 1) = Offset(OSPFHeaderStart, k) + Bytes(OSPFHeaderStart, k)
  BY <1>2, <1>3, LayoutOffsets
<1>6. Offset(OSPFHeaderStart, 1) = 0 /\ Width(OSPFHeaderStart) = Offset(OSPFHeaderStart, 2 + 1)
  BY <1>2, <1>3, LayoutOffsets
<1>7. Offset(OSPFHeaderStart, 2) = 1
  <2>1. Offset(OSPFHeaderStart, 1 + 1) = Offset(OSPFHeaderStart, 1) + Bytes(OSPFHeaderStart, 1)
    BY <1>5
  <2>2. QED
    BY <1>6, <2>1, OSPFHeaderStartFields
<1>8. Offset(OSPFHeaderStart, 3) = 2
  <2>1. Offset(OSPFHeaderStart, 2 + 1) = Offset(OSPFHeaderStart, 2) + Bytes(OSPFHeaderStart, 2)
    BY <1>5
  <2>2. QED
    BY <1>7, <2>1, OSPFHeaderStartFields
<1>9. QED
  BY <1>3, <1>4, <1>6, <1>7, <1>8

\* The fields of OSPFHeaderRest, in their order.
LEMMA OSPFHeaderRestFields ==
  /\ Len(OSPFHeaderRest) = 5
  /\ Name(OSPFHeaderRest, 1) = "routerId" /\ Named(OSPFHeaderRest, 1) /\ Bytes(OSPFHeaderRest, 1) = 4
  /\ Name(OSPFHeaderRest, 2) = "areaId" /\ Named(OSPFHeaderRest, 2) /\ Bytes(OSPFHeaderRest, 2) = 4
  /\ ~Named(OSPFHeaderRest, 3) /\ Bytes(OSPFHeaderRest, 3) = 2
  /\ Name(OSPFHeaderRest, 4) = "instanceId" /\ Named(OSPFHeaderRest, 4) /\ Bytes(OSPFHeaderRest, 4) = 1
  /\ ~Named(OSPFHeaderRest, 5) /\ Bytes(OSPFHeaderRest, 5) = 1
  BY DEF OSPFHeaderRest, OSPFHeader, Name, Bytes, Named

\* OSPFHeaderRest is a layout: its members, where each begins, its width.
LEMMA OSPFHeaderRestLayout ==
  /\ IsLayout(OSPFHeaderRest)
  /\ Members(OSPFHeaderRest) = {"routerId", "areaId", "instanceId"}
  /\ Offset(OSPFHeaderRest, 1) = 0 /\ Offset(OSPFHeaderRest, 2) = 4 /\ Offset(OSPFHeaderRest, 3) = 8
  /\ Offset(OSPFHeaderRest, 4) = 10 /\ Offset(OSPFHeaderRest, 5) = 11
  /\ Width(OSPFHeaderRest) = 12
<1>0. 1 .. 5 = {1, 2, 3, 4, 5}
  OBVIOUS
<1>1. \A i \in 1 .. 5 : Bytes(OSPFHeaderRest, i) \in 1 .. 4
  BY <1>0, OSPFHeaderRestFields
<1>2. OSPFHeaderRest \in Seq({OSPFHeaderRest[i] : i \in 1 .. Len(OSPFHeaderRest)}) /\ Len(OSPFHeaderRest) = 5
  <2> DEFINE E == {OSPFHeaderRest[i] : i \in 1 .. Len(OSPFHeaderRest)}
  <2>1. OSPFHeaderRest = [i \in 1 .. 5 |-> OSPFHeaderRest[i]]
    <3> DEFINE F == {OSPFHeader[i] : i \in 1 .. Len(OSPFHeader)}
    <3>1. OSPFHeader \in Seq(F) /\ Len(OSPFHeader) = 8
      BY OSPFHeaderLayout, OSPFHeaderFields DEF IsLayout
    <3> HIDE DEF F
    <3>2. QED
      BY <3>1 DEF OSPFHeaderRest
  <2>2. \A i \in 1 .. 5 : OSPFHeaderRest[i] \in E
    BY OSPFHeaderRestFields
  <2> HIDE DEF E
  <2>3. OSPFHeaderRest \in [1 .. 5 -> E]
    BY <2>1, <2>2
  <2>4. PICK n \in Nat : n = 5 /\ OSPFHeaderRest \in [1 .. n -> E]
    BY <2>3
  <2>5. OSPFHeaderRest \in Seq(E)
    BY <2>4, SequenceOf
  <2>6. QED
    BY <2>5, OSPFHeaderRestFields DEF E
<1>3. IsLayout(OSPFHeaderRest)
  BY <1>1, <1>2 DEF IsLayout
<1>4. Members(OSPFHeaderRest) = {"routerId", "areaId", "instanceId"}
  <2>1. {i \in 1 .. 5 : Named(OSPFHeaderRest, i)} = {1, 2, 4}
    BY <1>0, OSPFHeaderRestFields
  <2>2. Members(OSPFHeaderRest) = {Name(OSPFHeaderRest, i) : i \in {1, 2, 4}}
    BY <1>2, <2>1 DEF Members
  <2>3. QED
    BY <2>2, OSPFHeaderRestFields
<1>5. \A k \in 1 .. 5 : Offset(OSPFHeaderRest, k + 1) = Offset(OSPFHeaderRest, k) + Bytes(OSPFHeaderRest, k)
  BY <1>2, <1>3, LayoutOffsets
<1>6. Offset(OSPFHeaderRest, 1) = 0 /\ Width(OSPFHeaderRest) = Offset(OSPFHeaderRest, 5 + 1)
  BY <1>2, <1>3, LayoutOffsets
<1>7. Offset(OSPFHeaderRest, 2) = 4
  <2>1. Offset(OSPFHeaderRest, 1 + 1) = Offset(OSPFHeaderRest, 1) + Bytes(OSPFHeaderRest, 1)
    BY <1>5
  <2>2. QED
    BY <1>6, <2>1, OSPFHeaderRestFields
<1>8. Offset(OSPFHeaderRest, 3) = 8
  <2>1. Offset(OSPFHeaderRest, 2 + 1) = Offset(OSPFHeaderRest, 2) + Bytes(OSPFHeaderRest, 2)
    BY <1>5
  <2>2. QED
    BY <1>7, <2>1, OSPFHeaderRestFields
<1>9. Offset(OSPFHeaderRest, 4) = 10
  <2>1. Offset(OSPFHeaderRest, 3 + 1) = Offset(OSPFHeaderRest, 3) + Bytes(OSPFHeaderRest, 3)
    BY <1>5
  <2>2. QED
    BY <1>8, <2>1, OSPFHeaderRestFields
<1>10. Offset(OSPFHeaderRest, 5) = 11
  <2>1. Offset(OSPFHeaderRest, 4 + 1) = Offset(OSPFHeaderRest, 4) + Bytes(OSPFHeaderRest, 4)
    BY <1>5
  <2>2. QED
    BY <1>9, <2>1, OSPFHeaderRestFields
<1>11. Offset(OSPFHeaderRest, 6) = 12
  <2>1. Offset(OSPFHeaderRest, 5 + 1) = Offset(OSPFHeaderRest, 5) + Bytes(OSPFHeaderRest, 5)
    BY <1>5
  <2>2. QED
    BY <1>10, <2>1, OSPFHeaderRestFields
<1>12. QED
  BY <1>3, <1>4, <1>6, <1>7, <1>8, <1>9, <1>10, <1>11

\* The fields of Hello, in their order.
LEMMA HelloFields ==
  /\ Len(Hello) = 7
  /\ Name(Hello, 1) = "interfaceId" /\ Named(Hello, 1) /\ Bytes(Hello, 1) = 4
  /\ Name(Hello, 2) = "routerPriority" /\ Named(Hello, 2) /\ Bytes(Hello, 2) = 1
  /\ Name(Hello, 3) = "options" /\ Named(Hello, 3) /\ Bytes(Hello, 3) = 3
  /\ Name(Hello, 4) = "helloInterval" /\ Named(Hello, 4) /\ Bytes(Hello, 4) = 2
  /\ Name(Hello, 5) = "routerDeadInterval" /\ Named(Hello, 5) /\ Bytes(Hello, 5) = 2
  /\ Name(Hello, 6) = "designatedRouterId" /\ Named(Hello, 6) /\ Bytes(Hello, 6) = 4
  /\ Name(Hello, 7) = "backupDesignatedRouterId" /\ Named(Hello, 7) /\ Bytes(Hello, 7) = 4
  BY DEF Hello, Name, Bytes, Named

\* Hello is a layout: its members, where each begins, its width.
LEMMA HelloLayout ==
  /\ IsLayout(Hello)
  /\ Members(Hello) = {"interfaceId", "routerPriority", "options", "helloInterval", "routerDeadInterval", "designatedRouterId", "backupDesignatedRouterId"}
  /\ Offset(Hello, 1) = 0 /\ Offset(Hello, 2) = 4 /\ Offset(Hello, 3) = 5
  /\ Offset(Hello, 4) = 8 /\ Offset(Hello, 5) = 10 /\ Offset(Hello, 6) = 12
  /\ Offset(Hello, 7) = 16
  /\ Width(Hello) = 20
<1>0. 1 .. 7 = {1, 2, 3, 4, 5, 6, 7}
  OBVIOUS
<1>1. \A i \in 1 .. 7 : Bytes(Hello, i) \in 1 .. 4
  BY <1>0, HelloFields
<1>2. Hello \in Seq({Hello[i] : i \in 1 .. Len(Hello)}) /\ Len(Hello) = 7
  <2> DEFINE E == {Hello[i] : i \in 1 .. Len(Hello)}
  <2>1. Hello = [i \in 1 .. 7 |-> Hello[i]]
    BY DEF Hello
  <2>2. \A i \in 1 .. 7 : Hello[i] \in E
    BY HelloFields
  <2> HIDE DEF E
  <2>3. Hello \in [1 .. 7 -> E]
    BY <2>1, <2>2
  <2>4. PICK n \in Nat : n = 7 /\ Hello \in [1 .. n -> E]
    BY <2>3
  <2>5. Hello \in Seq(E)
    BY <2>4, SequenceOf
  <2>6. QED
    BY <2>5, HelloFields DEF E
<1>3. IsLayout(Hello)
  BY <1>1, <1>2 DEF IsLayout
<1>4. Members(Hello) = {"interfaceId", "routerPriority", "options", "helloInterval", "routerDeadInterval", "designatedRouterId", "backupDesignatedRouterId"}
  <2>1. {i \in 1 .. 7 : Named(Hello, i)} = {1, 2, 3, 4, 5, 6, 7}
    BY <1>0, HelloFields
  <2>2. Members(Hello) = {Name(Hello, i) : i \in {1, 2, 3, 4, 5, 6, 7}}
    BY <1>2, <2>1 DEF Members
  <2>3. QED
    BY <2>2, HelloFields
<1>5. \A k \in 1 .. 7 : Offset(Hello, k + 1) = Offset(Hello, k) + Bytes(Hello, k)
  BY <1>2, <1>3, LayoutOffsets
<1>6. Offset(Hello, 1) = 0 /\ Width(Hello) = Offset(Hello, 7 + 1)
  BY <1>2, <1>3, LayoutOffsets
<1>7. Offset(Hello, 2) = 4
  <2>1. Offset(Hello, 1 + 1) = Offset(Hello, 1) + Bytes(Hello, 1)
    BY <1>5
  <2>2. QED
    BY <1>6, <2>1, HelloFields
<1>8. Offset(Hello, 3) = 5
  <2>1. Offset(Hello, 2 + 1) = Offset(Hello, 2) + Bytes(Hello, 2)
    BY <1>5
  <2>2. QED
    BY <1>7, <2>1, HelloFields
<1>9. Offset(Hello, 4) = 8
  <2>1. Offset(Hello, 3 + 1) = Offset(Hello, 3) + Bytes(Hello, 3)
    BY <1>5
  <2>2. QED
    BY <1>8, <2>1, HelloFields
<1>10. Offset(Hello, 5) = 10
  <2>1. Offset(Hello, 4 + 1) = Offset(Hello, 4) + Bytes(Hello, 4)
    BY <1>5
  <2>2. QED
    BY <1>9, <2>1, HelloFields
<1>11. Offset(Hello, 6) = 12
  <2>1. Offset(Hello, 5 + 1) = Offset(Hello, 5) + Bytes(Hello, 5)
    BY <1>5
  <2>2. QED
    BY <1>10, <2>1, HelloFields
<1>12. Offset(Hello, 7) = 16
  <2>1. Offset(Hello, 6 + 1) = Offset(Hello, 6) + Bytes(Hello, 6)
    BY <1>5
  <2>2. QED
    BY <1>11, <2>1, HelloFields
<1>13. Offset(Hello, 8) = 20
  <2>1. Offset(Hello, 7 + 1) = Offset(Hello, 7) + Bytes(Hello, 7)
    BY <1>5
  <2>2. QED
    BY <1>12, <2>1, HelloFields
<1>14. QED
  BY <1>3, <1>4, <1>6, <1>7, <1>8, <1>9, <1>10, <1>11, <1>12, <1>13

\* The fields of DatabaseDescription, in their order.
LEMMA DatabaseDescriptionFields ==
  /\ Len(DatabaseDescription) = 4
  /\ Name(DatabaseDescription, 1) = "options" /\ Named(DatabaseDescription, 1) /\ Bytes(DatabaseDescription, 1) = 4
  /\ Name(DatabaseDescription, 2) = "mtu" /\ Named(DatabaseDescription, 2) /\ Bytes(DatabaseDescription, 2) = 2
  /\ Name(DatabaseDescription, 3) = "flags" /\ Named(DatabaseDescription, 3) /\ Bytes(DatabaseDescription, 3) = 2
  /\ Name(DatabaseDescription, 4) = "ddSeqNum" /\ Named(DatabaseDescription, 4) /\ Bytes(DatabaseDescription, 4) = 4
  BY DEF DatabaseDescription, Name, Bytes, Named

\* DatabaseDescription is a layout: its members, where each begins, its width.
LEMMA DatabaseDescriptionLayout ==
  /\ IsLayout(DatabaseDescription)
  /\ Members(DatabaseDescription) = {"options", "mtu", "flags", "ddSeqNum"}
  /\ Offset(DatabaseDescription, 1) = 0 /\ Offset(DatabaseDescription, 2) = 4 /\ Offset(DatabaseDescription, 3) = 6
  /\ Offset(DatabaseDescription, 4) = 8
  /\ Width(DatabaseDescription) = 12
<1>0. 1 .. 4 = {1, 2, 3, 4}
  OBVIOUS
<1>1. \A i \in 1 .. 4 : Bytes(DatabaseDescription, i) \in 1 .. 4
  BY <1>0, DatabaseDescriptionFields
<1>2. DatabaseDescription \in Seq({DatabaseDescription[i] : i \in 1 .. Len(DatabaseDescription)}) /\ Len(DatabaseDescription) = 4
  <2> DEFINE E == {DatabaseDescription[i] : i \in 1 .. Len(DatabaseDescription)}
  <2>1. DatabaseDescription = [i \in 1 .. 4 |-> DatabaseDescription[i]]
    BY DEF DatabaseDescription
  <2>2. \A i \in 1 .. 4 : DatabaseDescription[i] \in E
    BY DatabaseDescriptionFields
  <2> HIDE DEF E
  <2>3. DatabaseDescription \in [1 .. 4 -> E]
    BY <2>1, <2>2
  <2>4. PICK n \in Nat : n = 4 /\ DatabaseDescription \in [1 .. n -> E]
    BY <2>3
  <2>5. DatabaseDescription \in Seq(E)
    BY <2>4, SequenceOf
  <2>6. QED
    BY <2>5, DatabaseDescriptionFields DEF E
<1>3. IsLayout(DatabaseDescription)
  BY <1>1, <1>2 DEF IsLayout
<1>4. Members(DatabaseDescription) = {"options", "mtu", "flags", "ddSeqNum"}
  <2>1. {i \in 1 .. 4 : Named(DatabaseDescription, i)} = {1, 2, 3, 4}
    BY <1>0, DatabaseDescriptionFields
  <2>2. Members(DatabaseDescription) = {Name(DatabaseDescription, i) : i \in {1, 2, 3, 4}}
    BY <1>2, <2>1 DEF Members
  <2>3. QED
    BY <2>2, DatabaseDescriptionFields
<1>5. \A k \in 1 .. 4 : Offset(DatabaseDescription, k + 1) = Offset(DatabaseDescription, k) + Bytes(DatabaseDescription, k)
  BY <1>2, <1>3, LayoutOffsets
<1>6. Offset(DatabaseDescription, 1) = 0 /\ Width(DatabaseDescription) = Offset(DatabaseDescription, 4 + 1)
  BY <1>2, <1>3, LayoutOffsets
<1>7. Offset(DatabaseDescription, 2) = 4
  <2>1. Offset(DatabaseDescription, 1 + 1) = Offset(DatabaseDescription, 1) + Bytes(DatabaseDescription, 1)
    BY <1>5
  <2>2. QED
    BY <1>6, <2>1, DatabaseDescriptionFields
<1>8. Offset(DatabaseDescription, 3) = 6
  <2>1. Offset(DatabaseDescription, 2 + 1) = Offset(DatabaseDescription, 2) + Bytes(DatabaseDescription, 2)
    BY <1>5
  <2>2. QED
    BY <1>7, <2>1, DatabaseDescriptionFields
<1>9. Offset(DatabaseDescription, 4) = 8
  <2>1. Offset(DatabaseDescription, 3 + 1) = Offset(DatabaseDescription, 3) + Bytes(DatabaseDescription, 3)
    BY <1>5
  <2>2. QED
    BY <1>8, <2>1, DatabaseDescriptionFields
<1>10. Offset(DatabaseDescription, 5) = 12
  <2>1. Offset(DatabaseDescription, 4 + 1) = Offset(DatabaseDescription, 4) + Bytes(DatabaseDescription, 4)
    BY <1>5
  <2>2. QED
    BY <1>9, <2>1, DatabaseDescriptionFields
<1>11. QED
  BY <1>3, <1>4, <1>6, <1>7, <1>8, <1>9, <1>10

\* The fields of RequestItem, in their order.
LEMMA RequestItemFields ==
  /\ Len(RequestItem) = 4
  /\ ~Named(RequestItem, 1) /\ Bytes(RequestItem, 1) = 2
  /\ Name(RequestItem, 2) = "type" /\ Named(RequestItem, 2) /\ Bytes(RequestItem, 2) = 2
  /\ Name(RequestItem, 3) = "id" /\ Named(RequestItem, 3) /\ Bytes(RequestItem, 3) = 4
  /\ Name(RequestItem, 4) = "advRtr" /\ Named(RequestItem, 4) /\ Bytes(RequestItem, 4) = 4
  BY DEF RequestItem, Name, Bytes, Named

\* RequestItem is a layout: its members, where each begins, its width.
LEMMA RequestItemLayout ==
  /\ IsLayout(RequestItem)
  /\ Members(RequestItem) = {"type", "id", "advRtr"}
  /\ Offset(RequestItem, 1) = 0 /\ Offset(RequestItem, 2) = 2 /\ Offset(RequestItem, 3) = 4
  /\ Offset(RequestItem, 4) = 8
  /\ Width(RequestItem) = 12
<1>0. 1 .. 4 = {1, 2, 3, 4}
  OBVIOUS
<1>1. \A i \in 1 .. 4 : Bytes(RequestItem, i) \in 1 .. 4
  BY <1>0, RequestItemFields
<1>2. RequestItem \in Seq({RequestItem[i] : i \in 1 .. Len(RequestItem)}) /\ Len(RequestItem) = 4
  <2> DEFINE E == {RequestItem[i] : i \in 1 .. Len(RequestItem)}
  <2>1. RequestItem = [i \in 1 .. 4 |-> RequestItem[i]]
    BY DEF RequestItem
  <2>2. \A i \in 1 .. 4 : RequestItem[i] \in E
    BY RequestItemFields
  <2> HIDE DEF E
  <2>3. RequestItem \in [1 .. 4 -> E]
    BY <2>1, <2>2
  <2>4. PICK n \in Nat : n = 4 /\ RequestItem \in [1 .. n -> E]
    BY <2>3
  <2>5. RequestItem \in Seq(E)
    BY <2>4, SequenceOf
  <2>6. QED
    BY <2>5, RequestItemFields DEF E
<1>3. IsLayout(RequestItem)
  BY <1>1, <1>2 DEF IsLayout
<1>4. Members(RequestItem) = {"type", "id", "advRtr"}
  <2>1. {i \in 1 .. 4 : Named(RequestItem, i)} = {2, 3, 4}
    BY <1>0, RequestItemFields
  <2>2. Members(RequestItem) = {Name(RequestItem, i) : i \in {2, 3, 4}}
    BY <1>2, <2>1 DEF Members
  <2>3. QED
    BY <2>2, RequestItemFields
<1>5. \A k \in 1 .. 4 : Offset(RequestItem, k + 1) = Offset(RequestItem, k) + Bytes(RequestItem, k)
  BY <1>2, <1>3, LayoutOffsets
<1>6. Offset(RequestItem, 1) = 0 /\ Width(RequestItem) = Offset(RequestItem, 4 + 1)
  BY <1>2, <1>3, LayoutOffsets
<1>7. Offset(RequestItem, 2) = 2
  <2>1. Offset(RequestItem, 1 + 1) = Offset(RequestItem, 1) + Bytes(RequestItem, 1)
    BY <1>5
  <2>2. QED
    BY <1>6, <2>1, RequestItemFields
<1>8. Offset(RequestItem, 3) = 4
  <2>1. Offset(RequestItem, 2 + 1) = Offset(RequestItem, 2) + Bytes(RequestItem, 2)
    BY <1>5
  <2>2. QED
    BY <1>7, <2>1, RequestItemFields
<1>9. Offset(RequestItem, 4) = 8
  <2>1. Offset(RequestItem, 3 + 1) = Offset(RequestItem, 3) + Bytes(RequestItem, 3)
    BY <1>5
  <2>2. QED
    BY <1>8, <2>1, RequestItemFields
<1>10. Offset(RequestItem, 5) = 12
  <2>1. Offset(RequestItem, 4 + 1) = Offset(RequestItem, 4) + Bytes(RequestItem, 4)
    BY <1>5
  <2>2. QED
    BY <1>9, <2>1, RequestItemFields
<1>11. QED
  BY <1>3, <1>4, <1>6, <1>7, <1>8, <1>9, <1>10

\* The fields of LinkFixed, in their order.
LEMMA LinkFixedFields ==
  /\ Len(LinkFixed) = 2
  /\ Name(LinkFixed, 1) = "rtrPriority" /\ Named(LinkFixed, 1) /\ Bytes(LinkFixed, 1) = 1
  /\ Name(LinkFixed, 2) = "options" /\ Named(LinkFixed, 2) /\ Bytes(LinkFixed, 2) = 3
  BY DEF LinkFixed, Name, Bytes, Named

\* LinkFixed is a layout: its members, where each begins, its width.
LEMMA LinkFixedLayout ==
  /\ IsLayout(LinkFixed)
  /\ Members(LinkFixed) = {"rtrPriority", "options"}
  /\ Offset(LinkFixed, 1) = 0 /\ Offset(LinkFixed, 2) = 1
  /\ Width(LinkFixed) = 4
<1>0. 1 .. 2 = {1, 2}
  OBVIOUS
<1>1. \A i \in 1 .. 2 : Bytes(LinkFixed, i) \in 1 .. 4
  BY <1>0, LinkFixedFields
<1>2. LinkFixed \in Seq({LinkFixed[i] : i \in 1 .. Len(LinkFixed)}) /\ Len(LinkFixed) = 2
  <2> DEFINE E == {LinkFixed[i] : i \in 1 .. Len(LinkFixed)}
  <2>1. LinkFixed = [i \in 1 .. 2 |-> LinkFixed[i]]
    BY DEF LinkFixed
  <2>2. \A i \in 1 .. 2 : LinkFixed[i] \in E
    BY LinkFixedFields
  <2> HIDE DEF E
  <2>3. LinkFixed \in [1 .. 2 -> E]
    BY <2>1, <2>2
  <2>4. PICK n \in Nat : n = 2 /\ LinkFixed \in [1 .. n -> E]
    BY <2>3
  <2>5. LinkFixed \in Seq(E)
    BY <2>4, SequenceOf
  <2>6. QED
    BY <2>5, LinkFixedFields DEF E
<1>3. IsLayout(LinkFixed)
  BY <1>1, <1>2 DEF IsLayout
<1>4. Members(LinkFixed) = {"rtrPriority", "options"}
  <2>1. {i \in 1 .. 2 : Named(LinkFixed, i)} = {1, 2}
    BY <1>0, LinkFixedFields
  <2>2. Members(LinkFixed) = {Name(LinkFixed, i) : i \in {1, 2}}
    BY <1>2, <2>1 DEF Members
  <2>3. QED
    BY <2>2, LinkFixedFields
<1>5. \A k \in 1 .. 2 : Offset(LinkFixed, k + 1) = Offset(LinkFixed, k) + Bytes(LinkFixed, k)
  BY <1>2, <1>3, LayoutOffsets
<1>6. Offset(LinkFixed, 1) = 0 /\ Width(LinkFixed) = Offset(LinkFixed, 2 + 1)
  BY <1>2, <1>3, LayoutOffsets
<1>7. Offset(LinkFixed, 2) = 1
  <2>1. Offset(LinkFixed, 1 + 1) = Offset(LinkFixed, 1) + Bytes(LinkFixed, 1)
    BY <1>5
  <2>2. QED
    BY <1>6, <2>1, LinkFixedFields
<1>8. Offset(LinkFixed, 3) = 4
  <2>1. Offset(LinkFixed, 2 + 1) = Offset(LinkFixed, 2) + Bytes(LinkFixed, 2)
    BY <1>5
  <2>2. QED
    BY <1>7, <2>1, LinkFixedFields
<1>9. QED
  BY <1>3, <1>4, <1>6, <1>7, <1>8

-----------------------------------------------------------------------------
(* What fits in the fields of the layouts.                                  *)

\* Powers are positive.
LEMMA PowerType ==
  ASSUME NEW w \in 1 .. 4
  PROVE  Power(w) \in Nat /\ Power(w) > 0
<1>1. w \in {1, 2, 3, 4}
  OBVIOUS
<1>2. QED
  BY <1>1, Powers, SMT

\* It is enough that the members fit.
LEMMA FitsIf ==
  ASSUME NEW L, NEW r, IsLayout(L),
         \A i \in 1 .. Len(L) : Named(L, i) => r[Name(L, i)] \in UInt(Bytes(L, i))
  PROVE  Fits(L, r)
<1>1. ASSUME NEW i \in 1 .. Len(L)
      PROVE  Value(L, r, i) \in UInt(Bytes(L, i))
  <2>1. CASE Named(L, i)
    BY <2>1 DEF Value
  <2>2. CASE ~Named(L, i)
    <3>1. Bytes(L, i) \in 1 .. 4
      BY LayoutFields
    <3>2. 0 \in UInt(Bytes(L, i))
      BY <3>1, PowerType DEF UInt
    <3>3. QED
      BY <2>2, <3>2 DEF Value
  <2>3. QED
    BY <2>1, <2>2
<1>2. QED
  BY <1>1 DEF Fits

\* Read returns the members of what was written (ReadLayout, with Fits).
LEMMA MembersRead ==
  ASSUME NEW L, NEW r, IsLayout(L), Fits(L, r),
         NEW s \in Seq(Byte), NEW at \in Nat, Holds(s, at, Write(L, r))
  PROVE  Read(L, s, at) = [name \in Members(L) |-> r[name]]
  BY FieldsHeld, ReadLayout

\* A record with members of these widths fits LSAHeader.
LEMMA LSAHeaderFits ==
  ASSUME NEW r,
         r.age \in UInt(2), r.type \in UInt(2),
         r.id \in UInt(4), r.advRtr \in UInt(4),
         r.seqNum \in UInt(4), r.checksum \in UInt(2),
         r.length \in UInt(2)
  PROVE  Fits(LSAHeader, r)
<1>0. 1 .. 7 = {1, 2, 3, 4, 5, 6, 7}
  OBVIOUS
<1>1. \A i \in 1 .. 7 : Named(LSAHeader, i) => r[Name(LSAHeader, i)] \in UInt(Bytes(LSAHeader, i))
  BY <1>0, LSAHeaderFields
<1>2. QED
  BY <1>1, LSAHeaderFields, LSAHeaderLayout, FitsIf

\* A record with members of these widths fits LSAHeaderStart.
LEMMA LSAHeaderStartFits ==
  ASSUME NEW r,
         r.age \in UInt(2), r.type \in UInt(2),
         r.id \in UInt(4), r.advRtr \in UInt(4),
         r.seqNum \in UInt(4), r.checksum \in UInt(2)
  PROVE  Fits(LSAHeaderStart, r)
<1>0. 1 .. 6 = {1, 2, 3, 4, 5, 6}
  OBVIOUS
<1>1. \A i \in 1 .. 6 : Named(LSAHeaderStart, i) => r[Name(LSAHeaderStart, i)] \in UInt(Bytes(LSAHeaderStart, i))
  BY <1>0, LSAHeaderStartFields
<1>2. QED
  BY <1>1, LSAHeaderStartFields, LSAHeaderStartLayout, FitsIf

\* A record with members of these widths fits RouterLink.
LEMMA RouterLinkFits ==
  ASSUME NEW r,
         r.type \in UInt(1), r.metric \in UInt(2),
         r.interfaceId \in UInt(4), r.neighborInterfaceId \in UInt(4),
         r.neighborRouterId \in UInt(4)
  PROVE  Fits(RouterLink, r)
<1>0. 1 .. 6 = {1, 2, 3, 4, 5, 6}
  OBVIOUS
<1>1. \A i \in 1 .. 6 : Named(RouterLink, i) => r[Name(RouterLink, i)] \in UInt(Bytes(RouterLink, i))
  BY <1>0, RouterLinkFields
<1>2. QED
  BY <1>1, RouterLinkFields, RouterLinkLayout, FitsIf

\* A record with members of these widths fits LinkFixed.
LEMMA LinkFixedFits ==
  ASSUME NEW r,
         r.rtrPriority \in UInt(1), r.options \in UInt(3)
  PROVE  Fits(LinkFixed, r)
<1>0. 1 .. 2 = {1, 2}
  OBVIOUS
<1>1. \A i \in 1 .. 2 : Named(LinkFixed, i) => r[Name(LinkFixed, i)] \in UInt(Bytes(LinkFixed, i))
  BY <1>0, LinkFixedFields
<1>2. QED
  BY <1>1, LinkFixedFields, LinkFixedLayout, FitsIf

\* A record with members of these widths fits LinkPrefix.
LEMMA LinkPrefixFits ==
  ASSUME NEW r,
         r.length \in UInt(1), r.options \in UInt(1)
  PROVE  Fits(LinkPrefix, r)
<1>0. 1 .. 3 = {1, 2, 3}
  OBVIOUS
<1>1. \A i \in 1 .. 3 : Named(LinkPrefix, i) => r[Name(LinkPrefix, i)] \in UInt(Bytes(LinkPrefix, i))
  BY <1>0, LinkPrefixFields
<1>2. QED
  BY <1>1, LinkPrefixFields, LinkPrefixLayout, FitsIf

\* A record with members of these widths fits AreaPrefix.
LEMMA AreaPrefixFits ==
  ASSUME NEW r,
         r.length \in UInt(1), r.options \in UInt(1),
         r.metric \in UInt(2)
  PROVE  Fits(AreaPrefix, r)
<1>0. 1 .. 3 = {1, 2, 3}
  OBVIOUS
<1>1. \A i \in 1 .. 3 : Named(AreaPrefix, i) => r[Name(AreaPrefix, i)] \in UInt(Bytes(AreaPrefix, i))
  BY <1>0, AreaPrefixFields
<1>2. QED
  BY <1>1, AreaPrefixFields, AreaPrefixLayout, FitsIf

\* A record with members of these widths fits AreaPrefixFixed.
LEMMA AreaPrefixFixedFits ==
  ASSUME NEW r,
         r.refType \in UInt(2), r.refId \in UInt(4),
         r.refAdvRtr \in UInt(4)
  PROVE  Fits(AreaPrefixFixed, r)
<1>0. 1 .. 3 = {1, 2, 3}
  OBVIOUS
<1>1. \A i \in 1 .. 3 : Named(AreaPrefixFixed, i) => r[Name(AreaPrefixFixed, i)] \in UInt(Bytes(AreaPrefixFixed, i))
  BY <1>0, AreaPrefixFixedFields
<1>2. QED
  BY <1>1, AreaPrefixFixedFields, AreaPrefixFixedLayout, FitsIf

\* A record with members of these widths fits OSPFHeader.
LEMMA OSPFHeaderFits ==
  ASSUME NEW r,
         r.version \in UInt(1), r.type \in UInt(1),
         r.length \in UInt(2), r.routerId \in UInt(4),
         r.areaId \in UInt(4), r.instanceId \in UInt(1)
  PROVE  Fits(OSPFHeader, r)
<1>0. 1 .. 8 = {1, 2, 3, 4, 5, 6, 7, 8}
  OBVIOUS
<1>1. \A i \in 1 .. 8 : Named(OSPFHeader, i) => r[Name(OSPFHeader, i)] \in UInt(Bytes(OSPFHeader, i))
  BY <1>0, OSPFHeaderFields
<1>2. QED
  BY <1>1, OSPFHeaderFields, OSPFHeaderLayout, FitsIf

\* A record with members of these widths fits OSPFHeaderStart.
LEMMA OSPFHeaderStartFits ==
  ASSUME NEW r,
         r.version \in UInt(1), r.type \in UInt(1)
  PROVE  Fits(OSPFHeaderStart, r)
<1>0. 1 .. 2 = {1, 2}
  OBVIOUS
<1>1. \A i \in 1 .. 2 : Named(OSPFHeaderStart, i) => r[Name(OSPFHeaderStart, i)] \in UInt(Bytes(OSPFHeaderStart, i))
  BY <1>0, OSPFHeaderStartFields
<1>2. QED
  BY <1>1, OSPFHeaderStartFields, OSPFHeaderStartLayout, FitsIf

\* A record with members of these widths fits OSPFHeaderRest.
LEMMA OSPFHeaderRestFits ==
  ASSUME NEW r,
         r.routerId \in UInt(4), r.areaId \in UInt(4),
         r.instanceId \in UInt(1)
  PROVE  Fits(OSPFHeaderRest, r)
<1>0. 1 .. 5 = {1, 2, 3, 4, 5}
  OBVIOUS
<1>1. \A i \in 1 .. 5 : Named(OSPFHeaderRest, i) => r[Name(OSPFHeaderRest, i)] \in UInt(Bytes(OSPFHeaderRest, i))
  BY <1>0, OSPFHeaderRestFields
<1>2. QED
  BY <1>1, OSPFHeaderRestFields, OSPFHeaderRestLayout, FitsIf

\* A record with members of these widths fits Hello.
LEMMA HelloFits ==
  ASSUME NEW r,
         r.interfaceId \in UInt(4), r.routerPriority \in UInt(1),
         r.options \in UInt(3), r.helloInterval \in UInt(2),
         r.routerDeadInterval \in UInt(2), r.designatedRouterId \in UInt(4),
         r.backupDesignatedRouterId \in UInt(4)
  PROVE  Fits(Hello, r)
<1>0. 1 .. 7 = {1, 2, 3, 4, 5, 6, 7}
  OBVIOUS
<1>1. \A i \in 1 .. 7 : Named(Hello, i) => r[Name(Hello, i)] \in UInt(Bytes(Hello, i))
  BY <1>0, HelloFields
<1>2. QED
  BY <1>1, HelloFields, HelloLayout, FitsIf

\* A record with members of these widths fits DatabaseDescription.
LEMMA DatabaseDescriptionFits ==
  ASSUME NEW r,
         r.options \in UInt(4), r.mtu \in UInt(2),
         r.flags \in UInt(2), r.ddSeqNum \in UInt(4)
  PROVE  Fits(DatabaseDescription, r)
<1>0. 1 .. 4 = {1, 2, 3, 4}
  OBVIOUS
<1>1. \A i \in 1 .. 4 : Named(DatabaseDescription, i) => r[Name(DatabaseDescription, i)] \in UInt(Bytes(DatabaseDescription, i))
  BY <1>0, DatabaseDescriptionFields
<1>2. QED
  BY <1>1, DatabaseDescriptionFields, DatabaseDescriptionLayout, FitsIf

\* A record with members of these widths fits RequestItem.
LEMMA RequestItemFits ==
  ASSUME NEW r,
         r.type \in UInt(2), r.id \in UInt(4),
         r.advRtr \in UInt(4)
  PROVE  Fits(RequestItem, r)
<1>0. 1 .. 4 = {1, 2, 3, 4}
  OBVIOUS
<1>1. \A i \in 1 .. 4 : Named(RequestItem, i) => r[Name(RequestItem, i)] \in UInt(Bytes(RequestItem, i))
  BY <1>0, RequestItemFields
<1>2. QED
  BY <1>1, RequestItemFields, RequestItemLayout, FitsIf

-----------------------------------------------------------------------------
(* Vectors: what is written for one element behind what is written for the  *)
(* others.                                                                  *)

\* Parts of w bytes each.
LEMMA EqualParts ==
  ASSUME NEW ps \in Seq(Seq(Byte)), NEW w \in Nat,
         \A k \in 1 .. Len(ps) : Len(ps[k]) = w
  PROVE  /\ FlattenSeq(ps) \in Seq(Byte)
         /\ Len(FlattenSeq(ps)) = w * Len(ps)
         /\ \A k \in 1 .. Len(ps) : /\ w * (k - 1) \in Nat
                                    /\ Holds(FlattenSeq(ps), w * (k - 1), ps[k])
<1> DEFINE n == Len(ps)
           t == [k \in 0 .. n |-> w * k]
<1>1. n \in Nat /\ Len(Lengths(ps)) = n /\ \A k \in 1 .. n : Lengths(ps)[k] = w
  BY DEF Lengths
<1>2. ASSUME NEW k \in 0 .. n PROVE w * k \in Nat
  OBVIOUS
<1>3. ASSUME NEW k \in 1 .. n PROVE t[k] = t[k - 1] + w
  <2>1. k \in 0 .. n /\ k - 1 \in 0 .. n /\ k \in Nat
    BY <1>1
  <2>2. t[k] = w * k /\ t[k - 1] = w * (k - 1)
    BY <2>1
  <2>3. w * k = w * (k - 1) + w
    BY <2>1
  <2> HIDE DEF t
  <2>4. QED
    BY <2>2, <2>3
<1>4. t \in [0 .. n -> Nat] /\ t[0] = 0
  BY <1>1, <1>2
<1>5. IsSums(t, Lengths(ps))
  <2> HIDE DEF t, n
  <2>1. QED
    BY <1>1, <1>3, <1>4 DEF IsSums
<1>6. /\ FlattenSeq(ps) \in Seq(Byte)
      /\ Len(FlattenSeq(ps)) = t[n]
      /\ \A k \in 1 .. n : Holds(FlattenSeq(ps), t[k - 1], ps[k])
  <2> HIDE DEF t
  <2>1. QED
    BY <1>5, FlattenParts
<1>7. \A k \in 1 .. n : t[k - 1] = w * (k - 1) /\ w * (k - 1) \in Nat
  <2>1. \A k \in 1 .. n : k - 1 \in 0 .. n
    BY <1>1
  <2>2. QED
    BY <1>2, <2>1
<1>8. t[n] = w * n
  BY <1>1
<1> HIDE DEF t
<1>9. QED
  BY <1>6, <1>7, <1>8

\* Where equal parts stand in s.
LEMMA EqualPartsHeld ==
  ASSUME NEW ps \in Seq(Seq(Byte)), NEW w \in Nat,
         \A k \in 1 .. Len(ps) : Len(ps[k]) = w,
         NEW s \in Seq(Byte), NEW at \in Nat, Holds(s, at, FlattenSeq(ps))
  PROVE  \A k \in 1 .. Len(ps) : /\ at + w * (k - 1) \in Nat
                                 /\ Holds(s, at + w * (k - 1), ps[k])
<1>1. ASSUME NEW k \in 1 .. Len(ps)
      PROVE  at + w * (k - 1) \in Nat /\ Holds(s, at + w * (k - 1), ps[k])
  <2>1. /\ FlattenSeq(ps) \in Seq(Byte)
        /\ w * (k - 1) \in Nat
        /\ Holds(FlattenSeq(ps), w * (k - 1), ps[k])
    BY EqualParts
  <2>2. ps[k] \in Seq(Byte)
    OBVIOUS
  <2> DEFINE o == w * (k - 1)
  <2> HIDE DEF o
  <2>3. o \in Nat /\ Holds(FlattenSeq(ps), o, ps[k])
    BY <2>1 DEF o
  <2>4. Holds(s, at + o, ps[k]) /\ at + o \in Nat
    BY <2>1, <2>2, <2>3, HoldsWithin
  <2>5. QED
    BY <2>4 DEF o
<1>2. QED
  BY <1>1

\* Parts of the sizes ns.
LEMMA PartsOf ==
  ASSUME NEW ps \in Seq(Seq(Byte)), NEW ns \in Seq(Nat), Len(ns) = Len(ps),
         \A k \in 1 .. Len(ps) : Len(ps[k]) = ns[k], NEW t, IsSums(t, ns)
  PROVE  /\ FlattenSeq(ps) \in Seq(Byte)
         /\ Len(FlattenSeq(ps)) = Total(ns)
         /\ \A k \in 1 .. Len(ps) : Holds(FlattenSeq(ps), t[k - 1], ps[k])
<1>1. Len(ps) \in Nat /\ Lengths(ps) = ns
  <2>1. Len(ps) \in Nat
    OBVIOUS
  <2>2. Lengths(ps) = [k \in 1 .. Len(ps) |-> ns[k]]
    BY DEF Lengths
  <2>3. ns = [k \in 1 .. Len(ns) |-> ns[k]]
    OBVIOUS
  <2>4. QED
    BY <2>1, <2>2, <2>3
<1>2. IsSums(t, Lengths(ps))
  BY <1>1
<1>3. Total(ns) = t[Len(ps)]
  BY TotalIsSum
<1>4. QED
  BY <1>2, <1>3, FlattenParts

\* Where they stand in s.
LEMMA PartsHeld ==
  ASSUME NEW ps \in Seq(Seq(Byte)), NEW ns \in Seq(Nat), Len(ns) = Len(ps),
         \A k \in 1 .. Len(ps) : Len(ps[k]) = ns[k], NEW t, IsSums(t, ns),
         NEW s \in Seq(Byte), NEW at \in Nat, Holds(s, at, FlattenSeq(ps))
  PROVE  \A k \in 1 .. Len(ps) : /\ t[k - 1] \in Nat
                                 /\ Holds(s, at + t[k - 1], ps[k])
<1>1. ASSUME NEW k \in 1 .. Len(ps)
      PROVE  t[k - 1] \in Nat /\ Holds(s, at + t[k - 1], ps[k])
  <2>1. FlattenSeq(ps) \in Seq(Byte) /\ Holds(FlattenSeq(ps), t[k - 1], ps[k])
    BY PartsOf
  <2>2. k - 1 \in 0 .. Len(ns) /\ ps[k] \in Seq(Byte)
    OBVIOUS
  <2>3. t[k - 1] \in Nat
    BY <2>2 DEF IsSums
  <2>4. QED
    BY <2>1, <2>2, <2>3, HoldsWithin
<1>2. QED
  BY <1>1

\* Positions finds the objects, if each ends where the next begins.
Begin(u, n, end) ==
    /\ u \in [1 .. n -> Nat]
    /\ \A k \in 2 .. n : u[k] = end[u[k - 1]]

\* The numbers u are then the positions that the loop goes through.
LEMMA PositionsAre ==
  ASSUME NEW n \in Nat, NEW end, NEW u, Begin(u, n, end)
  PROVE  \A k \in 1 .. n : Positions(u[1], end, n)[k] = u[k]
<1> DEFINE Rec(d) == [k \in 1 .. n |-> IF k = 1 THEN u[1] ELSE end[d[k - 1]]]
           D == CHOOSE d : d = Rec(d)
           S == {k \in 0 .. n : k = 0 \/ D[k] = u[k]}
<1>1. u = Rec(u)
  <2>1. ASSUME NEW k \in 1 .. n
        PROVE  u[k] = IF k = 1 THEN u[1] ELSE end[u[k - 1]]
    <3>1. k # 1 => k \in 2 .. n
      OBVIOUS
    <3>2. QED
      BY <3>1 DEF Begin
  <2>2. u = [k \in 1 .. n |-> u[k]]
    BY DEF Begin
  <2>3. QED
    BY <2>1, <2>2
<1>2. D = Rec(D)
  <2> HIDE DEF Rec
  <2>1. QED
    BY <1>1
<1>3. \A k \in 1 .. n : D[k] = IF k = 1 THEN u[1] ELSE end[D[k - 1]]
  <2> HIDE DEF D
  <2>1. \A k \in 1 .. n : Rec(D)[k] = IF k = 1 THEN u[1] ELSE end[D[k - 1]]
    OBVIOUS
  <2> HIDE DEF Rec
  <2>2. QED
    BY <1>2, <2>1
<1>4. ASSUME NEW k \in 0 .. n, k \in S, k < n PROVE k + 1 \in S
  <2> HIDE DEF D
  <2> DEFINE m == k + 1
  <2>1. m \in 1 .. n /\ m \in 0 .. n /\ m - 1 = k
    BY <1>4
  <2>2. k # 0 => m # 1 /\ m \in 2 .. n /\ D[k] = u[k]
    BY <1>4
  <2>3. k = 0 => m = 1
    OBVIOUS
  <2> HIDE DEF m, S
  <2>4. D[m] = u[m]
    <3>1. CASE k = 0
      BY <1>3, <2>1, <2>3, <3>1
    <3>2. CASE k # 0
      <4>1. D[m] = end[D[m - 1]]
        BY <1>3, <2>1, <2>2, <3>2
      <4>2. u[m] = end[u[m - 1]]
        BY <2>2, <3>2 DEF Begin
      <4>3. QED
        BY <2>1, <2>2, <3>2, <4>1, <4>2
    <3>3. QED
      BY <3>1, <3>2
  <2>5. m \in S
    BY <2>1, <2>4 DEF S
  <2>6. QED
    BY <2>5 DEF m
<1>5. 0 .. n \subseteq S
  <2>1. 0 \in S
    OBVIOUS
  <2> HIDE DEF S
  <2>2. QED
    BY <1>4, <2>1, IntervalInduction
<1>6. \A k \in 1 .. n : D[k] = u[k]
  <2> HIDE DEF D
  <2>1. \A k \in 1 .. n : k \in 0 .. n /\ k # 0
    OBVIOUS
  <2>2. QED
    BY <1>5, <2>1
<1>7. Positions(u[1], end, n) = D
  BY DEF Positions
<1> HIDE DEF D
<1>8. QED
  BY <1>6, <1>7

-----------------------------------------------------------------------------
(* Router-LSAs                                                              *)

Links == [type : UInt(1), metric : UInt(2), interfaceId : UInt(4),
          neighborInterfaceId : UInt(4), neighborRouterId : UInt(4)]

RouterBodies == [options : UInt(4), links : Seq(Links)]

\* The bytes of a number of w bytes.
LEMMA NumberHeld ==
  ASSUME NEW w \in 1 .. 4, NEW v \in UInt(w)
  PROVE  /\ Word(w, v) \in Seq(Byte)
         /\ Len(Word(w, v)) = w
         /\ \A s \in Seq(Byte) : \A at \in Nat :
               Holds(s, at, Word(w, v)) => Number(s, at, w) = v
<1>1. v \in Nat /\ v < Power(w)
  BY PowerType DEF UInt
<1>2. QED
  BY <1>1, WordType, NumberOfWord

\* A link is written in 16 bytes, and its members are all there is of it.
LEMMA LinkWritten ==
  ASSUME NEW l \in Links
  PROVE  /\ Fits(RouterLink, l)
         /\ Write(RouterLink, l) \in Seq(Byte)
         /\ Len(Write(RouterLink, l)) = 16
         /\ [name \in Members(RouterLink) |-> l[name]] = l
<1>1. Fits(RouterLink, l)
  BY RouterLinkFits DEF Links
<1>2. [name \in Members(RouterLink) |-> l[name]] = l
  BY RouterLinkLayout DEF Links
<1>3. QED
  BY <1>1, <1>2, RouterLinkLayout, WriteLayout

\* The links, written one by one.
LEMMA RouterLSAParts ==
  ASSUME NEW body \in RouterBodies
  PROVE  LET ps == [i \in DOMAIN body.links |-> Write(RouterLink, body.links[i])]
         IN  /\ ps \in Seq(Seq(Byte))
             /\ Len(ps) = Len(body.links)
             /\ \A i \in 1 .. Len(ps) : Len(ps[i]) = 16
             /\ body.links \in Seq(Links)
             /\ \A i \in 1 .. Len(ps) : ps[i] = Write(RouterLink, body.links[i])
<1> DEFINE ls == body.links
           ps == [i \in DOMAIN ls |-> Write(RouterLink, ls[i])]
<1>1. ls \in Seq(Links)
  BY DEF RouterBodies
<1> HIDE DEF ls
<1>2. \A i \in 1 .. Len(ls) : ls[i] \in Links
  BY <1>1
<1>3. DOMAIN ls = 1 .. Len(ls) /\ Len(ls) \in Nat
  BY <1>1
<1>4. \A i \in 1 .. Len(ls) : Write(RouterLink, ls[i]) \in Seq(Byte) /\ Len(Write(RouterLink, ls[i])) = 16
  BY <1>2, LinkWritten
<1>5. ps \in [1 .. Len(ls) -> Seq(Byte)]
  BY <1>3, <1>4
<1>6. ps \in Seq(Seq(Byte)) /\ Len(ps) = Len(ls)
  <2> HIDE DEF ps
  <2>1. QED
    BY <1>3, <1>5, SequenceOf
<1>7. \A i \in 1 .. Len(ls) : ps[i] = Write(RouterLink, ls[i])
  BY <1>3
<1> HIDE DEF ps
<1>8. QED
  BY <1>1, <1>4, <1>6, <1>7 DEF ls, ps

\* OSPFRouterLSABody::Serialize writes GetSerializedSize bytes.
LEMMA RouterLSAWritten ==
  ASSUME NEW body \in RouterBodies
  PROVE  /\ WriteRouterLSA(body) \in Seq(Byte)
         /\ Len(WriteRouterLSA(body)) = RouterLSASize(body)
         /\ RouterLSASize(body) \in Nat
<1> DEFINE ps == [i \in DOMAIN body.links |-> Write(RouterLink, body.links[i])]
<1>1. /\ ps \in Seq(Seq(Byte))
      /\ Len(ps) = Len(body.links)
      /\ \A i \in 1 .. Len(ps) : Len(ps[i]) = 16
      /\ body.links \in Seq(Links)
  BY RouterLSAParts
<1>2. FlattenSeq(ps) \in Seq(Byte) /\ Len(FlattenSeq(ps)) = 16 * Len(ps)
  <2> HIDE DEF ps
  <2>1. QED
    BY <1>1, EqualParts
<1>3. Word(4, body.options) \in Seq(Byte) /\ Len(Word(4, body.options)) = 4
  BY NumberHeld DEF RouterBodies
<1>4. WriteRouterLSA(body) = Word(4, body.options) \o FlattenSeq(ps)
  BY DEF WriteRouterLSA
<1>5. Len(body.links) \in Nat
  BY <1>1
<1> HIDE DEF ps
<1>6. /\ WriteRouterLSA(body) \in Seq(Byte)
      /\ Len(WriteRouterLSA(body)) = 4 + 16 * Len(ps)
  BY <1>2, <1>3, <1>4, HoldsConcat
<1>7. RouterLSASize(body) = 4 + 16 * Len(ps) /\ 16 * Len(ps) \in Nat
  BY <1>1, <1>5 DEF RouterLSASize
<1>8. QED
  BY <1>6, <1>7

\* OSPFRouterLSABody::Deserialize reads what was written: the links are counted
\* by the length.
LEMMA RouterLSARead ==
  ASSUME NEW body \in RouterBodies, NEW s \in Seq(Byte), NEW at \in Nat,
         Holds(s, at, WriteRouterLSA(body))
  PROVE  ReadRouterLSA(s, at, RouterLSASize(body)) = body
<1> DEFINE ls == body.links
           ps == [i \in DOMAIN ls |-> Write(RouterLink, ls[i])]
           o == Word(4, body.options)
<1>1. /\ ps \in Seq(Seq(Byte))
      /\ Len(ps) = Len(ls)
      /\ \A i \in 1 .. Len(ps) : Len(ps[i]) = 16
      /\ ls \in Seq(Links)
      /\ \A i \in 1 .. Len(ps) : ps[i] = Write(RouterLink, ls[i])
  BY RouterLSAParts
<1>2. o \in Seq(Byte) /\ Len(o) = 4
  BY NumberHeld DEF RouterBodies
<1>3. WriteRouterLSA(body) = o \o FlattenSeq(ps)
  BY DEF WriteRouterLSA
<1>4. FlattenSeq(ps) \in Seq(Byte)
  <2> HIDE DEF ps
  <2>1. QED
    BY <1>1, EqualParts
<1>5. Holds(s, at, o) /\ Holds(s, at + 4, FlattenSeq(ps))
  <2> HIDE DEF ps, o
  <2>1. QED
    BY <1>2, <1>3, <1>4, HoldsBoth
<1>6. Number(s, at, 4) = body.options
  BY <1>5, NumberHeld DEF RouterBodies
<1>7. ASSUME NEW i \in 1 .. Len(ls)
      PROVE  Read(RouterLink, s, at + 4 + 16 * (i - 1)) = ls[i]
  <2>1. /\ at + 4 + 16 * (i - 1) \in Nat
        /\ Holds(s, at + 4 + 16 * (i - 1), ps[i])
    <3> HIDE DEF ps, o
    <3>1. at + 4 \in Nat
      OBVIOUS
    <3>2. QED
      BY <1>1, <1>5, <3>1, EqualPartsHeld
  <2>2. ls[i] \in Links /\ ps[i] = Write(RouterLink, ls[i])
    BY <1>1
  <2> DEFINE x == at + 4 + 16 * (i - 1)
             l == ls[i]
  <2>3. x \in Nat /\ l \in Links /\ Holds(s, x, Write(RouterLink, l))
    BY <2>1, <2>2
  <2> HIDE DEF ps, ls, o, x, l
  <2>4. Read(RouterLink, s, x) = [name \in Members(RouterLink) |-> l[name]]
    BY <2>3, LinkWritten, RouterLinkLayout, MembersRead
  <2>5. Read(RouterLink, s, x) = l
    BY <2>3, <2>4, LinkWritten
  <2>6. QED
    BY <2>5 DEF x, l
<1>8. (RouterLSASize(body) - 4) \div 16 = Len(ls)
  <2>1. Len(ls) \in Nat
    BY <1>1
  <2> HIDE DEF ls
  <2>2. RouterLSASize(body) = 4 + 16 * Len(ls)
    BY DEF RouterLSASize, ls
  <2>3. (4 + 16 * Len(ls) - 4) \div 16 = Len(ls)
    BY <2>1, SMT
  <2>4. QED
    BY <2>2, <2>3
<1>9. [k \in 1 .. Len(ls) |-> Read(RouterLink, s, at + 4 + 16 * (k - 1))] \o <<>> = ls
  <2> DEFINE f == [k \in 1 .. Len(ls) |-> Read(RouterLink, s, at + 4 + 16 * (k - 1))]
  <2>1. f = [k \in 1 .. Len(ls) |-> ls[k]]
    BY <1>7
  <2>2. ls = [k \in 1 .. Len(ls) |-> ls[k]]
    <3> HIDE DEF ls, ps
    <3>1. ls \in Seq(Links)
      BY <1>1
    <3>2. QED
      BY <3>1
  <2>3. f = ls
    BY <2>1, <2>2
  <2> HIDE DEF f, ls
  <2>4. f \o <<>> = f
    BY <1>1, <2>3
  <2>5. QED
    BY <2>3, <2>4 DEF f
<1>10. ReadRouterLSA(s, at, RouterLSASize(body)) = [options |-> body.options, links |-> ls]
  <2> HIDE DEF ls
  <2>1. QED
    BY <1>6, <1>8, <1>9 DEF ReadRouterLSA, Listed
<1>11. QED
  BY <1>10 DEF RouterBodies

-----------------------------------------------------------------------------
(* Prefixes                                                                 *)

\* Joined in one function.
LEMMA JoinedIs ==
  ASSUME NEW r, NEW q
  PROVE  Joined(r, q) = [f \in DOMAIN r \cup DOMAIN q |->
                           IF f \in DOMAIN r THEN r[f] ELSE q[f]]
<1> DEFINE Join(a, b) ==
             [f \in DOMAIN a \cup DOMAIN b |-> IF f \in DOMAIN a THEN a[f] ELSE b[f]]
<1>1. {Join(a, b) : a \in {r}, b \in {q}} = {Join(r, q)}
  <2> HIDE DEF Join
  <2>1. QED
    OBVIOUS
<1>2. Joined(r, q) = CHOOSE j \in {Join(r, q)} : TRUE
  BY <1>1 DEF Joined
<1>3. QED
  BY <1>2

\* Nothing is set in the words of the address that the length does not reach.
IsCut(p) == \A k \in 1 .. 4 : k > PrefixWords(p.length) => p.address[k] = 0

LinkPrefixes ==
    {p \in [length : 0 .. 128, options : UInt(1), address : [1 .. 4 -> UInt(4)]] :
       IsCut(p)}

AreaPrefixes ==
    {p \in [length : 0 .. 128, options : UInt(1), metric : UInt(2),
            address : [1 .. 4 -> UInt(4)]] : IsCut(p)}

\* What both kinds of prefixes have in common.
FitsPrefix(L, p) ==
    /\ Fits(L, p)
    /\ p.length \in 0 .. 128
    /\ p.address \in [1 .. 4 -> UInt(4)]
    /\ IsCut(p)
    /\ p = [f \in Members(L) \cup {"address"} |-> p[f]]

IsPrefixLayout(L) ==
    /\ IsLayout(L)
    /\ Width(L) = 4
    /\ 1 \in 1 .. Len(L)
    /\ Named(L, 1) /\ Name(L, 1) = "length" /\ Bytes(L, 1) = 1
    /\ "address" \notin Members(L)
    /\ "length" \in Members(L)

\* Both kinds of prefixes have such a layout.
LEMMA PrefixLayouts ==
  IsPrefixLayout(LinkPrefix) /\ IsPrefixLayout(AreaPrefix)
<1>1. 1 \in 1 .. 3
  OBVIOUS
<1>2. IsPrefixLayout(LinkPrefix)
  BY <1>1, LinkPrefixFields, LinkPrefixLayout DEF IsPrefixLayout
<1>3. IsPrefixLayout(AreaPrefix)
  BY <1>1, AreaPrefixFields, AreaPrefixLayout DEF IsPrefixLayout
<1>4. QED
  BY <1>2, <1>3

\* And the prefixes of both bodies are such prefixes.
LEMMA PrefixKinds ==
  /\ \A p \in LinkPrefixes : FitsPrefix(LinkPrefix, p)
  /\ \A p \in AreaPrefixes : FitsPrefix(AreaPrefix, p)
<1>1. \A v \in 0 .. 128 : v \in UInt(1)
  BY Powers DEF UInt
<1>2. ASSUME NEW p \in LinkPrefixes PROVE FitsPrefix(LinkPrefix, p)
  <2>1. /\ p \in [length : 0 .. 128, options : UInt(1), address : [1 .. 4 -> UInt(4)]]
        /\ IsCut(p)
    BY DEF LinkPrefixes
  <2>2. Fits(LinkPrefix, p)
    BY <1>1, <2>1, LinkPrefixFits
  <2>3. p = [f \in {"length", "options"} \cup {"address"} |-> p[f]]
    BY <2>1
  <2>4. QED
    BY <2>1, <2>2, <2>3, LinkPrefixLayout DEF FitsPrefix
<1>3. ASSUME NEW p \in AreaPrefixes PROVE FitsPrefix(AreaPrefix, p)
  <2>1. /\ p \in [length : 0 .. 128, options : UInt(1), metric : UInt(2),
                  address : [1 .. 4 -> UInt(4)]]
        /\ IsCut(p)
    BY DEF AreaPrefixes
  <2>2. Fits(AreaPrefix, p)
    BY <1>1, <2>1, AreaPrefixFits
  <2>3. p = [f \in {"length", "options", "metric"} \cup {"address"} |-> p[f]]
    BY <2>1
  <2>4. QED
    BY <2>1, <2>2, <2>3, AreaPrefixLayout DEF FitsPrefix
<1>4. QED
  BY <1>2, <1>3

\* An address has at most four words.
LEMMA PrefixWordsType ==
  ASSUME NEW length \in 0 .. 128
  PROVE  PrefixWords(length) \in 0 .. 4
  BY SMT DEF PrefixWords

\* The words of the address.
LEMMA PrefixBytesParts ==
  ASSUME NEW L, NEW p, FitsPrefix(L, p)
  PROVE  LET ps == [k \in 1 .. PrefixWords(p.length) |-> Word(4, p.address[k])]
         IN  /\ ps \in Seq(Seq(Byte))
             /\ Len(ps) = PrefixWords(p.length)
             /\ \A k \in 1 .. Len(ps) : Len(ps[k]) = 4
             /\ \A k \in 1 .. Len(ps) : ps[k] = Word(4, p.address[k])
<1> DEFINE n == PrefixWords(p.length)
           ps == [k \in 1 .. n |-> Word(4, p.address[k])]
<1>1. n \in 0 .. 4
  BY PrefixWordsType DEF FitsPrefix
<1> HIDE DEF n
<1>2. \A k \in 1 .. n : k \in 1 .. 4
  BY <1>1
<1>3. \A k \in 1 .. n : p.address[k] \in UInt(4)
  BY <1>2 DEF FitsPrefix
<1>4. \A k \in 1 .. n : /\ Word(4, p.address[k]) \in Seq(Byte)
                        /\ Len(Word(4, p.address[k])) = 4
  BY <1>3, NumberHeld
<1>5. ps \in [1 .. n -> Seq(Byte)] /\ n \in Nat
  BY <1>1, <1>4
<1>6. \A k \in 1 .. n : ps[k] = Word(4, p.address[k])
  OBVIOUS
<1>7. ps \in Seq(Seq(Byte)) /\ Len(ps) = n
  <2> HIDE DEF ps
  <2>1. QED
    BY <1>5, SequenceOf
<1> HIDE DEF ps
<1>8. QED
  BY <1>4, <1>6, <1>7 DEF ps, n

\* A prefix is written in PrefixSize bytes.
LEMMA PrefixWritten ==
  ASSUME NEW L, NEW p, IsPrefixLayout(L), FitsPrefix(L, p)
  PROVE  /\ Write(L, p) \in Seq(Byte)
         /\ Len(Write(L, p)) = 4
         /\ PrefixBytes(p) \in Seq(Byte)
         /\ Write(L, p) \o PrefixBytes(p) \in Seq(Byte)
         /\ Len(Write(L, p) \o PrefixBytes(p)) = PrefixSize(p)
         /\ PrefixSize(p) \in Nat
<1> DEFINE n == PrefixWords(p.length)
           ps == [k \in 1 .. n |-> Word(4, p.address[k])]
<1>1. Write(L, p) \in Seq(Byte) /\ Len(Write(L, p)) = 4
  BY WriteLayout DEF IsPrefixLayout, FitsPrefix
<1>2. /\ ps \in Seq(Seq(Byte))
      /\ Len(ps) = n
      /\ \A k \in 1 .. Len(ps) : Len(ps[k]) = 4
  BY PrefixBytesParts
<1>3. PrefixBytes(p) = FlattenSeq(ps)
  BY DEF PrefixBytes
<1>4. n \in Nat
  BY PrefixWordsType DEF FitsPrefix
<1> HIDE DEF ps
<1>5. PrefixBytes(p) \in Seq(Byte) /\ Len(PrefixBytes(p)) = 4 * n
  BY <1>2, <1>3, EqualParts
<1>6. PrefixSize(p) = 4 + 4 * n
  BY DEF PrefixSize
<1> HIDE DEF n
<1>7. /\ Write(L, p) \o PrefixBytes(p) \in Seq(Byte)
      /\ Len(Write(L, p) \o PrefixBytes(p)) = 4 + 4 * n
  BY <1>1, <1>5, HoldsConcat
<1>8. QED
  BY <1>1, <1>4, <1>5, <1>6, <1>7

\* A word of one byte is that byte.
LEMMA FirstByte ==
  ASSUME NEW v \in UInt(1), NEW s \in Seq(Byte), NEW at \in Nat,
         Holds(s, at, Word(1, v))
  PROVE  s[at + 1] = v
<1>1. v \in Nat /\ v < 256
  BY Powers DEF UInt
<1>2. Len(Word(1, v)) = 1
  BY <1>1, WordType
<1>3. 1 \in 1 .. 1
  OBVIOUS
<1>4. s[at + 1] = Word(1, v)[1]
  BY <1>2, <1>3 DEF Holds
<1>5. Word(1, v)[1] = (v \div Power(1 - 1)) % 256
  BY <1>3 DEF Word, Power
<1>6. v \div Power(1 - 1) = v
  <2>1. 1 - 1 = 0
    OBVIOUS
  <2>2. Power(1 - 1) = 1
    BY <2>1, Powers
  <2>3. QED
    BY <1>1, <2>2, Quotients
<1>7. v % 256 = v
  BY <1>1, SMT
<1>8. QED
  BY <1>4, <1>5, <1>6, <1>7

\* A prefix is read as it was written: the words that are not written are 0.
LEMMA PrefixRead ==
  ASSUME NEW L, NEW p, IsPrefixLayout(L), FitsPrefix(L, p),
         NEW s \in Seq(Byte), NEW at \in Nat,
         Holds(s, at, Write(L, p) \o PrefixBytes(p))
  PROVE  ReadPrefix(L, s, at) = p
<1> DEFINE n == PrefixWords(p.length)
           ps == [k \in 1 .. n |-> Word(4, p.address[k])]
<1>1. IsLayout(L) /\ Fits(L, p)
  BY DEF IsPrefixLayout, FitsPrefix
<1>2. Holds(s, at, Write(L, p)) /\ Holds(s, at + 4, PrefixBytes(p))
  BY PrefixWritten, HoldsBoth
<1>3. Read(L, s, at) = [name \in Members(L) |-> p[name]]
  BY <1>1, <1>2, MembersRead
<1>4. s[at + 1] = p.length
  <2>1. HoldsFields(s, at, L, p)
    BY <1>1, <1>2, FieldsHeld
  <2>2. Holds(s, at + Offset(L, 1), Word(Bytes(L, 1), p[Name(L, 1)]))
    BY <2>1 DEF HoldsFields, IsPrefixLayout
  <2>3. Offset(L, 1) = 0
    BY <1>1, LayoutOffsets
  <2>4. p[Name(L, 1)] = p.length
    BY DEF IsPrefixLayout
  <2>5. Holds(s, at, Word(1, p.length))
    <3>1. at + 0 = at
      OBVIOUS
    <3>2. Bytes(L, 1) = 1
      BY DEF IsPrefixLayout
    <3>3. QED
      BY <2>2, <2>3, <2>4, <3>1, <3>2
  <2>6. p.length \in UInt(1)
    <3>1. p.length \in 0 .. 128
      BY DEF FitsPrefix
    <3>2. \A v \in 0 .. 128 : v \in UInt(1)
      BY Powers DEF UInt
    <3>3. QED
      BY <3>1, <3>2
  <2>7. QED
    BY <2>5, <2>6, FirstByte
<1>5. ASSUME NEW k \in 1 .. 4
      PROVE  (IF k <= n THEN Number(s, at + 4 * k, 4) ELSE 0) = p.address[k]
  <2>0. n \in 0 .. 4
    BY PrefixWordsType DEF FitsPrefix
  <2>1. CASE k <= n
    <3>1. /\ ps \in Seq(Seq(Byte))
          /\ Len(ps) = n
          /\ \A i \in 1 .. Len(ps) : Len(ps[i]) = 4
          /\ \A i \in 1 .. Len(ps) : ps[i] = Word(4, p.address[i])
      BY PrefixBytesParts
    <3>2. PrefixBytes(p) = FlattenSeq(ps)
      BY DEF PrefixBytes
    <3> HIDE DEF ps, n
    <3>3. k \in 1 .. Len(ps)
      BY <2>0, <2>1, <3>1
    <3>4. at + 4 + 4 * (k - 1) \in Nat /\ Holds(s, at + 4 + 4 * (k - 1), ps[k])
      <4>1. at + 4 \in Nat
        OBVIOUS
      <4>2. QED
        BY <1>2, <3>1, <3>2, <3>3, <4>1, EqualPartsHeld
    <3>5. at + 4 + 4 * (k - 1) = at + 4 * k
      OBVIOUS
    <3>6. p.address[k] \in UInt(4)
      BY DEF FitsPrefix
    <3>7. Number(s, at + 4 * k, 4) = p.address[k]
      BY <3>1, <3>3, <3>4, <3>5, <3>6, NumberHeld
    <3>8. QED
      BY <2>1, <3>7
  <2>2. CASE ~(k <= n)
    <3>1. k > PrefixWords(p.length)
      BY <2>0, <2>2
    <3>2. p.address[k] = 0
      BY <3>1 DEF FitsPrefix, IsCut
    <3>3. QED
      BY <2>2, <3>2
  <2>3. QED
    BY <2>1, <2>2
<1> DEFINE q == [k \in 1 .. 4 |-> IF k <= PrefixWords(s[at + 1])
                                  THEN Number(s, at + 4 * k, 4) ELSE 0]
<1>6. q = p.address
  <2>1. q = [k \in 1 .. 4 |-> p.address[k]]
    BY <1>4, <1>5
  <2>2. p.address = [k \in 1 .. 4 |-> p.address[k]]
    BY DEF FitsPrefix
  <2>3. QED
    BY <2>1, <2>2
<1>7. q \o <<>> = q
  <2>1. p.address \in [1 .. 4 -> UInt(4)] /\ 4 \in Nat
    BY DEF FitsPrefix
  <2>2. p.address \in Seq(UInt(4))
    BY <2>1, SequenceOf
  <2> HIDE DEF q
  <2>3. QED
    BY <1>6, <2>2
<1>8. ReadPrefix(L, s, at) = Joined(Read(L, s, at), [address |-> q \o <<>>])
  BY DEF ReadPrefix, Listed
<1> HIDE DEF q
<1> DEFINE r == [name \in Members(L) |-> p[name]]
           a == [address |-> p.address]
<1>9. ReadPrefix(L, s, at) = Joined(r, a)
  BY <1>3, <1>6, <1>7, <1>8
<1>10. Joined(r, a) = [f \in DOMAIN r \cup DOMAIN a |->
                         IF f \in DOMAIN r THEN r[f] ELSE a[f]]
  <2> HIDE DEF r, a
  <2>1. QED
    BY JoinedIs
<1>11. DOMAIN r = Members(L) /\ DOMAIN a = {"address"}
  OBVIOUS
<1>12. ASSUME NEW f \in Members(L) \cup {"address"}
       PROVE  (IF f \in Members(L) THEN r[f] ELSE a[f]) = p[f]
  <2>1. CASE f \in Members(L)
    BY <2>1
  <2>2. CASE f \notin Members(L)
    <3>1. f = "address"
      BY <2>2
    <3>2. a[f] = p[f]
      BY <3>1
    <3>3. QED
      BY <2>2, <3>2
  <2>3. QED
    BY <2>1, <2>2
<1>13. Joined(r, a) = [f \in Members(L) \cup {"address"} |-> p[f]]
  <2> HIDE DEF r, a
  <2>1. QED
    BY <1>10, <1>11, <1>12
<1>14. QED
  BY <1>9, <1>13 DEF FitsPrefix

\* Prefixes, one behind the other.
ArePrefixes(L, S) == \A p \in S : FitsPrefix(L, p)

PrefixParts(L, q) == [i \in DOMAIN q |-> Write(L, q[i]) \o PrefixBytes(q[i])]
PrefixSizes(q) == [i \in DOMAIN q |-> PrefixSize(q[i])]

\* Each of them as it is written.
LEMMA PrefixesParts ==
  ASSUME NEW L, NEW S, NEW q \in Seq(S), IsPrefixLayout(L), ArePrefixes(L, S)
  PROVE  LET ps == PrefixParts(L, q)
             ns == PrefixSizes(q)
         IN  /\ ps \in Seq(Seq(Byte)) /\ Len(ps) = Len(q)
             /\ ns \in Seq(Nat) /\ Len(ns) = Len(ps)
             /\ \A k \in 1 .. Len(ps) : Len(ps[k]) = ns[k]
             /\ \A k \in 1 .. Len(ps) : /\ ps[k] = Write(L, q[k]) \o PrefixBytes(q[k])
                                        /\ ns[k] = PrefixSize(q[k])
<1> DEFINE ps == PrefixParts(L, q)
           ns == PrefixSizes(q)
<1>1. Len(q) \in Nat /\ DOMAIN q = 1 .. Len(q)
  OBVIOUS
<1>0. \A i \in 1 .. Len(q) : FitsPrefix(L, q[i])
  BY DEF ArePrefixes
<1>2. \A i \in 1 .. Len(q) :
         /\ Write(L, q[i]) \o PrefixBytes(q[i]) \in Seq(Byte)
         /\ Len(Write(L, q[i]) \o PrefixBytes(q[i])) = PrefixSize(q[i])
         /\ PrefixSize(q[i]) \in Nat
  BY <1>0, PrefixWritten
<1>3. ps \in [1 .. Len(q) -> Seq(Byte)] /\ ns \in [1 .. Len(q) -> Nat]
  BY <1>1, <1>2 DEF PrefixParts, PrefixSizes
<1>4. \A k \in 1 .. Len(q) : /\ ps[k] = Write(L, q[k]) \o PrefixBytes(q[k])
                             /\ ns[k] = PrefixSize(q[k])
  BY <1>1 DEF PrefixParts, PrefixSizes
<1> HIDE DEF ps, ns
<1>5. ps \in Seq(Seq(Byte)) /\ Len(ps) = Len(q)
  BY <1>1, <1>3, SequenceOf
<1>6. ns \in Seq(Nat) /\ Len(ns) = Len(q)
  BY <1>1, <1>3, SequenceOf
<1>7. QED
  BY <1>2, <1>4, <1>5, <1>6 DEF ps, ns

\* All of them take the sum of their sizes.
LEMMA PrefixesWritten ==
  ASSUME NEW L, NEW S, NEW q \in Seq(S), IsPrefixLayout(L), ArePrefixes(L, S)
  PROVE  /\ WritePrefixes(L, q) \in Seq(Byte)
         /\ Len(WritePrefixes(L, q)) = Total(PrefixSizes(q))
         /\ Total(PrefixSizes(q)) \in Nat
<1> DEFINE ps == PrefixParts(L, q)
           ns == PrefixSizes(q)
<1>1. /\ ps \in Seq(Seq(Byte)) /\ Len(ps) = Len(q)
      /\ ns \in Seq(Nat) /\ Len(ns) = Len(ps)
      /\ \A k \in 1 .. Len(ps) : Len(ps[k]) = ns[k]
      /\ \A k \in 1 .. Len(ps) : /\ ps[k] = Write(L, q[k]) \o PrefixBytes(q[k])
                                 /\ ns[k] = PrefixSize(q[k])
  BY PrefixesParts
<1>2. WritePrefixes(L, q) = FlattenSeq(ps)
  BY DEF WritePrefixes, PrefixParts
<1> HIDE DEF ps, ns
<1>3. PICK t : IsSums(t, ns)
  BY <1>1, SumsExist
<1>4. FlattenSeq(ps) \in Seq(Byte) /\ Len(FlattenSeq(ps)) = Total(ns)
  BY <1>1, <1>3, PartsOf
<1>5. Total(ns) \in Nat
  BY <1>1, TotalType
<1>6. QED
  BY <1>2, <1>4, <1>5 DEF ns

\* A part that stands in s begins in s.
LEMMA PartBegins ==
  ASSUME NEW s \in Seq(Byte), NEW b \in Seq(Byte), NEW at \in Nat, Holds(s, at, b)
  PROVE  at \in 0 .. Len(s)
<1>1. Len(s) \in Nat /\ Len(b) \in Nat
  OBVIOUS
<1>2. QED
  BY <1>1 DEF Holds

\* They are found again: each ends where its length says.
LEMMA PrefixesRead ==
  ASSUME NEW L, NEW S, NEW q \in Seq(S), IsPrefixLayout(L), ArePrefixes(L, S),
         NEW s \in Seq(Byte), NEW start \in Nat, Holds(s, start, WritePrefixes(L, q))
  PROVE  ReadPrefixes(L, s, start, Len(q)) = q
<1> DEFINE n == Len(q)
           ps == PrefixParts(L, q)
           ns == PrefixSizes(q)
           prefix == [at \in 0 .. Len(s) |-> ReadPrefix(L, s, at)]
           end == [at \in 0 .. Len(s) |-> at + PrefixSize(prefix[at])]
<1>1. /\ ps \in Seq(Seq(Byte)) /\ Len(ps) = n
      /\ ns \in Seq(Nat) /\ Len(ns) = Len(ps)
      /\ \A k \in 1 .. Len(ps) : Len(ps[k]) = ns[k]
      /\ \A k \in 1 .. Len(ps) : /\ ps[k] = Write(L, q[k]) \o PrefixBytes(q[k])
                                 /\ ns[k] = PrefixSize(q[k])
  BY PrefixesParts
<1>2. WritePrefixes(L, q) = FlattenSeq(ps)
  BY DEF WritePrefixes, PrefixParts
<1>0. n \in Nat /\ q = [k \in 1 .. n |-> q[k]]
  OBVIOUS
<1> HIDE DEF ps, ns, n
<1>3. PICK t : IsSums(t, ns)
  BY <1>1, SumsExist
<1>4. \A k \in 1 .. n : t[k - 1] \in Nat /\ Holds(s, start + t[k - 1], ps[k])
  BY <1>1, <1>2, <1>3, PartsHeld
<1>5. /\ t[0] = 0
      /\ \A k \in 1 .. n : t[k] = t[k - 1] + PrefixSize(q[k])
  BY <1>1, <1>3 DEF IsSums
<1> DEFINE u == [k \in 1 .. n |-> start + t[k - 1]]
<1>6. ASSUME NEW k \in 1 .. n
      PROVE  /\ u[k] = start + t[k - 1]
             /\ u[k] \in 0 .. Len(s)
             /\ prefix[u[k]] = q[k]
             /\ end[u[k]] = u[k] + PrefixSize(q[k])
  <2>1. u[k] = start + t[k - 1] /\ u[k] \in Nat
    BY <1>4
  <2>2. Holds(s, u[k], ps[k])
    BY <1>4, <2>1
  <2> HIDE DEF u
  <2>3. ps[k] \in Seq(Byte) /\ ps[k] = Write(L, q[k]) \o PrefixBytes(q[k])
    BY <1>1
  <2>4. u[k] \in 0 .. Len(s)
    BY <2>1, <2>2, <2>3, PartBegins
  <2>5. FitsPrefix(L, q[k])
    BY DEF n, ArePrefixes
  <2>6. ReadPrefix(L, s, u[k]) = q[k]
    BY <2>1, <2>2, <2>3, <2>5, PrefixRead
  <2>7. prefix[u[k]] = q[k]
    BY <2>4, <2>6
  <2> HIDE DEF prefix
  <2>8. end[u[k]] = u[k] + PrefixSize(q[k])
    BY <2>4, <2>7
  <2>9. QED
    BY <2>1, <2>4, <2>7, <2>8
<1>7. Begin(u, n, end)
  <2>1. u \in [1 .. n -> Nat]
    BY <1>4
  <2>2. ASSUME NEW k \in 2 .. n PROVE u[k] = end[u[k - 1]]
    <3>1. k \in 1 .. n /\ k - 1 \in 1 .. n
      BY <1>0
    <3>2. u[k] = start + t[k - 1]
      BY <1>6, <3>1
    <3> DEFINE j == k - 1
    <3>3. j \in 1 .. n
      BY <3>1
    <3> HIDE DEF j, u, end, prefix
    <3>4. t[j] = t[j - 1] + PrefixSize(q[j]) /\ t[j - 1] \in Nat
      BY <1>4, <1>5, <3>3
    <3>5. u[j] = start + t[j - 1] /\ end[u[j]] = u[j] + PrefixSize(q[j])
      BY <1>6, <3>3
    <3>6. PrefixSize(q[j]) \in Nat
      <4>1. FitsPrefix(L, q[j])
        BY <3>3 DEF n, ArePrefixes
      <4>2. QED
        BY <4>1, PrefixWritten
    <3>7. end[u[j]] = start + t[j]
      BY <3>4, <3>5, <3>6
    <3>8. QED
      BY <3>2, <3>7 DEF j
  <2> HIDE DEF u, end
  <2>3. QED
    BY <2>1, <2>2 DEF Begin
<1>8. \A k \in 1 .. n : prefix[Positions(start, end, n)[k]] = q[k]
  <2>1. ASSUME NEW k \in 1 .. n PROVE Positions(start, end, n)[k] = u[k]
    <3>1. 1 \in 1 .. n /\ 1 - 1 = 0
      BY <1>0
    <3>2. u[1] = start
      BY <1>5, <1>6, <3>1
    <3> HIDE DEF u, end
    <3>3. Positions(u[1], end, n)[k] = u[k]
      BY <1>0, <1>7, PositionsAre
    <3>4. QED
      BY <3>2, <3>3
  <2> HIDE DEF u, end, prefix
  <2>2. QED
    BY <1>6, <2>1
<1>9. ReadPrefixes(L, s, start, n)
        = [k \in 1 .. n |-> prefix[Positions(start, end, n)[k]]] \o <<>>
  BY DEF ReadPrefixes, Listed
<1>10. [k \in 1 .. n |-> prefix[Positions(start, end, n)[k]]] = q
  <2> HIDE DEF prefix, end, u
  <2>1. QED
    BY <1>0, <1>8
<1> HIDE DEF prefix, end, u
<1>11. q \o <<>> = q
  OBVIOUS
<1>12. QED
  BY <1>9, <1>10, <1>11 DEF n

-----------------------------------------------------------------------------
(* Link-LSAs and Intra-area-prefix-LSAs                                     *)

\* There are no more numbers than their sum, if none is 0.
LEMMA CountBound ==
  ASSUME NEW ns \in Seq(Nat), \A k \in 1 .. Len(ns) : ns[k] >= 1
  PROVE  Len(ns) <= Total(ns)
<1> DEFINE n == Len(ns)
<1>1. PICK t : IsSums(t, ns)
  BY SumsExist
<1>2. /\ n \in Nat
      /\ t \in [0 .. n -> Nat]
      /\ t[0] = 0
      /\ \A k \in 1 .. n : t[k] = t[k - 1] + ns[k]
      /\ \A k \in 1 .. n : ns[k] \in Nat /\ ns[k] >= 1
  BY <1>1 DEF IsSums
<1> DEFINE S == {k \in 0 .. n : k <= t[k]}
<1> HIDE DEF n
<1>3. 0 \in S
  BY <1>2
<1>4. ASSUME NEW k \in 0 .. n, k \in S, k < n PROVE k + 1 \in S
  <2> DEFINE m == k + 1
  <2>1. m \in 1 .. n /\ m \in 0 .. n /\ m - 1 = k /\ m = k + 1
    BY <1>2, <1>4
  <2> HIDE DEF m
  <2>2. t[m] = t[k] + ns[m] /\ ns[m] >= 1 /\ ns[m] \in Nat /\ t[k] \in Nat
    BY <1>2, <2>1
  <2>3. k <= t[k]
    BY <1>4
  <2>4. m <= t[m]
    BY <2>1, <2>2, <2>3
  <2>5. QED
    BY <2>1, <2>4 DEF m
<1>5. n \in S
  <2> HIDE DEF S
  <2>1. 0 .. n \subseteq S
    BY <1>2, <1>3, <1>4, IntervalInduction
  <2>2. QED
    BY <1>2, <2>1
<1>6. Total(ns) = t[n]
  BY <1>1, TotalIsSum DEF n
<1>7. QED
  BY <1>5, <1>6 DEF n

\* The words of an address.
LEMMA AddressParts ==
  ASSUME NEW address \in [1 .. 4 -> UInt(4)]
  PROVE  LET f == FlattenSeq([k \in 1 .. 4 |-> Word(4, address[k])])
         IN  /\ f \in Seq(Byte)
             /\ Len(f) = 16
             /\ \A s \in Seq(Byte) : \A at \in Nat : Holds(s, at, f) =>
                   \A k \in 1 .. 4 : Number(s, at + 4 * (k - 1), 4) = address[k]
<1> DEFINE ps == [k \in 1 .. 4 |-> Word(4, address[k])]
<1>1. \A k \in 1 .. 4 : /\ address[k] \in UInt(4)
                        /\ Word(4, address[k]) \in Seq(Byte)
                        /\ Len(Word(4, address[k])) = 4
  BY NumberHeld
<1>2. ps \in [1 .. 4 -> Seq(Byte)] /\ 4 \in Nat
  BY <1>1
<1>3. \A k \in 1 .. 4 : ps[k] = Word(4, address[k])
  OBVIOUS
<1> HIDE DEF ps
<1>4. ps \in Seq(Seq(Byte)) /\ Len(ps) = 4
  <2>1. PICK n \in Nat : n = 4 /\ ps \in [1 .. n -> Seq(Byte)]
    BY <1>2
  <2>2. ps \in [1 .. n -> Seq(Byte)]
    BY <2>1
  <2>3. ps \in Seq(Seq(Byte)) /\ Len(ps) = n
    BY <2>2, SequenceOf
  <2>4. QED
    BY <2>1, <2>3
<1>5. \A k \in 1 .. Len(ps) : Len(ps[k]) = 4
  BY <1>1, <1>3, <1>4
<1>6. FlattenSeq(ps) \in Seq(Byte) /\ Len(FlattenSeq(ps)) = 16
  <2>1. FlattenSeq(ps) \in Seq(Byte) /\ Len(FlattenSeq(ps)) = 4 * Len(ps)
    BY <1>4, <1>5, EqualParts
  <2>2. QED
    BY <1>4, <2>1
<1>7. ASSUME NEW s \in Seq(Byte), NEW at \in Nat, Holds(s, at, FlattenSeq(ps)),
             NEW k \in 1 .. 4
      PROVE  Number(s, at + 4 * (k - 1), 4) = address[k]
  <2>1. at + 4 * (k - 1) \in Nat /\ Holds(s, at + 4 * (k - 1), ps[k])
    BY <1>4, <1>5, <1>7, EqualPartsHeld
  <2>2. QED
    BY <1>1, <1>3, <2>1, NumberHeld
<1>8. QED
  BY <1>6, <1>7 DEF ps

LinkBodies == [rtrPriority : UInt(1), options : UInt(2),
               address : [1 .. 4 -> UInt(4)], prefixes : Seq(LinkPrefixes)]

\* The priority and the options: the low byte of two that begin with the
\* priority is 0.
LEMMA LinkFixedWritten ==
  ASSUME NEW body \in LinkBodies
  PROVE  /\ Write(LinkFixed, body) \in Seq(Byte)
         /\ Len(Write(LinkFixed, body)) = 4
         /\ \A s \in Seq(Byte) : \A at \in Nat : Holds(s, at, Write(LinkFixed, body)) =>
               Number(s, at, 2) % 256 = 0 /\ Number(s, at + 2, 2) = body.options
<1> DEFINE p == body.rtrPriority
           o == body.options
<1>1. p \in Nat /\ p < 256 /\ o \in Nat /\ o < 65536
  <2>1. p \in UInt(1) /\ o \in UInt(2)
    BY DEF LinkBodies
  <2>2. QED
    BY <2>1, Powers, SMT DEF UInt
<1>2. Fits(LinkFixed, body)
  <2>1. UInt(2) \subseteq UInt(3)
    BY Powers, SMT DEF UInt
  <2>2. body.rtrPriority \in UInt(1) /\ body.options \in UInt(3)
    BY <2>1 DEF LinkBodies
  <2>3. QED
    BY <2>2, LinkFixedFits
<1>3. Write(LinkFixed, body) \in Seq(Byte) /\ Len(Write(LinkFixed, body)) = 4
  BY <1>2, LinkFixedLayout, WriteLayout
<1>4. ASSUME NEW s \in Seq(Byte), NEW at \in Nat, Holds(s, at, Write(LinkFixed, body))
      PROVE  Number(s, at, 2) % 256 = 0 /\ Number(s, at + 2, 2) = body.options
  <2>1. Holds(s, at, Word(1, p)) /\ Holds(s, at + 1, Word(3, o))
    <3>1. HoldsFields(s, at, LinkFixed, body)
      BY <1>2, <1>4, LinkFixedLayout, FieldsHeld
    <3>2. /\ Holds(s, at + Offset(LinkFixed, 1), Word(1, body["rtrPriority"]))
          /\ Holds(s, at + Offset(LinkFixed, 2), Word(3, body["options"]))
      <4>1. 1 \in 1 .. 2 /\ 2 \in 1 .. 2
        OBVIOUS
      <4>2. QED
        BY <3>1, <4>1, LinkFixedFields DEF HoldsFields
    <3>3. at + 0 = at
      OBVIOUS
    <3>4. QED
      BY <3>2, <3>3, LinkFixedLayout
  <2> HIDE DEF p, o
  <2>2. s[at + 1] = p
    BY <1>1, <2>1, Powers, FirstByte DEF UInt
  <2>3. /\ Len(Word(3, o)) = 3
        /\ at + 1 + 3 <= Len(s)
        /\ \A k \in 1 .. 3 : s[at + 1 + k] = (o \div Power(3 - k)) % 256
    <3>1. Len(Word(3, o)) = 3
      BY <1>1, WordType
    <3>2. \A k \in 1 .. 3 : Word(3, o)[k] = (o \div Power(3 - k)) % 256
      BY DEF Word, Power
    <3>3. QED
      BY <2>1, <3>1, <3>2 DEF Holds
  <2>4. /\ s[at + 2] = 0
        /\ s[at + 3] = (o \div 256) % 256
        /\ s[at + 4] = o % 256
    <3>1. 1 \in 1 .. 3 /\ 2 \in 1 .. 3 /\ 3 \in 1 .. 3
      OBVIOUS
    <3>2. /\ 3 - 1 = 2 /\ 3 - 2 = 1 /\ 3 - 3 = 0
          /\ at + 1 + 1 = at + 2 /\ at + 1 + 2 = at + 3 /\ at + 1 + 3 = at + 4
      OBVIOUS
    <3>3. s[at + 2] = (o \div Power(2)) % 256
      BY <2>3, <3>1, <3>2
    <3>4. s[at + 3] = (o \div Power(1)) % 256
      BY <2>3, <3>1, <3>2
    <3>5. s[at + 4] = (o \div Power(0)) % 256
      BY <2>3, <3>1, <3>2
    <3>6. (o \div Power(2)) % 256 = 0
      BY <1>1, Powers, SMT
    <3>7. o \div Power(0) = o
      BY <1>1, Powers, Quotients
    <3>8. QED
      BY <3>3, <3>4, <3>5, <3>6, <3>7, Powers
  <2>5. Number(s, at, 2) = 256 * p
    <3> DEFINE v == 256 * p
    <3>1. v \in Nat /\ v < Power(2) /\ 2 \in 1 .. 4
      BY <1>1, Powers, SMT
    <3>2. v \div 256 = p /\ v % 256 = 0 /\ p % 256 = p
      BY <1>1, SMT
    <3> HIDE DEF v
    <3>3. Holds(s, at, Word(2, v))
      <4>1. Len(Word(2, v)) = 2
        BY <3>1, WordType
      <4>2. \A k \in 1 .. 2 : Word(2, v)[k] = (v \div Power(2 - k)) % 256
        BY DEF Word, Power
      <4>3. Word(2, v)[1] = p /\ Word(2, v)[2] = 0
        <5>1. 1 \in 1 .. 2 /\ 2 \in 1 .. 2 /\ 2 - 1 = 1 /\ 2 - 2 = 0
          OBVIOUS
        <5>2. v \div Power(0) = v /\ v \div Power(1) = p
          BY <3>1, <3>2, Powers, Quotients
        <5>3. Word(2, v)[1] = (v \div Power(1)) % 256 /\ Word(2, v)[2] = (v \div Power(0)) % 256
          BY <4>2, <5>1
        <5>4. QED
          BY <3>2, <5>2, <5>3
      <4>4. \A k \in 1 .. 2 : s[at + k] = Word(2, v)[k]
        <5>1. 1 .. 2 = {1, 2}
          OBVIOUS
        <5>2. QED
          BY <2>2, <2>4, <4>3, <5>1
      <4>5. at + 2 <= Len(s)
        BY <2>3
      <4>6. QED
        BY <4>1, <4>4, <4>5 DEF Holds
    <3>4. Number(s, at, 2) = v
      BY <3>1, <3>3, NumberOfWord
    <3>5. QED
      BY <3>4 DEF v
  <2>6. Number(s, at + 2, 2) = o
    <3>1. o < Power(2) /\ 2 \in 1 .. 4 /\ at + 2 \in Nat
      BY <1>1, Powers, SMT
    <3>2. Holds(s, at + 2, Word(2, o))
      <4>1. Len(Word(2, o)) = 2
        BY <1>1, <3>1, WordType
      <4>2. \A k \in 1 .. 2 : Word(2, o)[k] = (o \div Power(2 - k)) % 256
        BY DEF Word, Power
      <4>3. Word(2, o)[1] = (o \div 256) % 256 /\ Word(2, o)[2] = o % 256
        <5>1. 1 \in 1 .. 2 /\ 2 \in 1 .. 2 /\ 2 - 1 = 1 /\ 2 - 2 = 0
          OBVIOUS
        <5>2. Word(2, o)[1] = (o \div Power(1)) % 256 /\ Word(2, o)[2] = (o \div Power(0)) % 256
          BY <4>2, <5>1
        <5>3. o \div Power(0) = o /\ Power(1) = 256
          BY <1>1, Powers, Quotients
        <5>4. QED
          BY <5>2, <5>3
      <4>4. \A k \in 1 .. 2 : s[at + 2 + k] = Word(2, o)[k]
        <5>1. 1 .. 2 = {1, 2} /\ at + 2 + 1 = at + 3 /\ at + 2 + 2 = at + 4
          OBVIOUS
        <5>2. QED
          BY <2>4, <4>3, <5>1
      <4>5. at + 2 + 2 <= Len(s)
        BY <2>3
      <4>6. QED
        BY <4>1, <4>4, <4>5 DEF Holds
    <3>3. QED
      BY <1>1, <3>1, <3>2, NumberOfWord
  <2>7. (256 * p) % 256 = 0
    BY <1>1, SMT
  <2>8. QED
    BY <2>5, <2>6, <2>7 DEF o
<1>5. QED
  BY <1>3, <1>4

AddressBytes(address) == FlattenSeq([k \in 1 .. 4 |-> Word(4, address[k])])

\* The sum of the sizes of prefixes.
LEMMA PrefixTotal ==
  ASSUME NEW L, NEW S, NEW q \in Seq(S), IsPrefixLayout(L), ArePrefixes(L, S)
  PROVE  Total(PrefixSizes(q)) \in Nat /\ Len(q) \in Nat /\ Len(q) <= Total(PrefixSizes(q))
<1> DEFINE ns == PrefixSizes(q)
<1>1. /\ PrefixParts(L, q) \in Seq(Seq(Byte)) /\ Len(PrefixParts(L, q)) = Len(q)
      /\ ns \in Seq(Nat) /\ Len(ns) = Len(PrefixParts(L, q))
      /\ \A k \in 1 .. Len(PrefixParts(L, q)) : Len(PrefixParts(L, q)[k]) = ns[k]
      /\ \A k \in 1 .. Len(PrefixParts(L, q)) :
            /\ PrefixParts(L, q)[k] = Write(L, q[k]) \o PrefixBytes(q[k])
            /\ ns[k] = PrefixSize(q[k])
  BY PrefixesParts
<1>2. \A k \in 1 .. Len(q) : ns[k] >= 1
  <2>1. ASSUME NEW k \in 1 .. Len(q) PROVE ns[k] >= 1
    <3>1. ns[k] = PrefixSize(q[k])
      BY <1>1
    <3>0. FitsPrefix(L, q[k])
      <4>1. q[k] \in S
        OBVIOUS
      <4>2. QED
        BY <4>1 DEF ArePrefixes
    <3>2. q[k].length \in 0 .. 128
      <4> DEFINE p == q[k]
      <4>1. FitsPrefix(L, p)
        BY <3>0
      <4> HIDE DEF p
      <4>2. p.length \in 0 .. 128
        BY <4>1 DEF FitsPrefix
      <4>3. QED
        BY <4>2 DEF p
    <3>3. PrefixWords(q[k].length) \in 0 .. 4
      BY <3>2, PrefixWordsType
    <3>4. QED
      BY <3>1, <3>3 DEF PrefixSize
  <2>2. QED
    BY <2>1
<1> HIDE DEF ns
<1>3. Len(ns) <= Total(ns) /\ Total(ns) \in Nat
  BY <1>1, <1>2, CountBound, TotalType
<1>4. QED
  BY <1>1, <1>3 DEF ns

\* The bytes of a Link-LSA, one member after the other.
LEMMA LinkLSAParts ==
  ASSUME NEW body \in LinkBodies, LinkLSASize(body) < Power(2)
  PROVE  LET a == Write(LinkFixed, body)
             b == AddressBytes(body.address)
             c == Word(4, Len(body.prefixes))
             d == WritePrefixes(LinkPrefix, body.prefixes)
         IN  /\ WriteLinkLSA(body) = a \o b \o c \o d
             /\ a \in Seq(Byte) /\ Len(a) = 4
             /\ b \in Seq(Byte) /\ Len(b) = 16
             /\ c \in Seq(Byte) /\ Len(c) = 4
             /\ d \in Seq(Byte) /\ LinkLSASize(body) = 24 + Len(d)
             /\ Len(body.prefixes) \in UInt(4)
<1> DEFINE q == body.prefixes
<1>1. body.address \in [1 .. 4 -> UInt(4)] /\ q \in Seq(LinkPrefixes)
  BY DEF LinkBodies
<1>2. IsPrefixLayout(LinkPrefix) /\ ArePrefixes(LinkPrefix, LinkPrefixes)
  BY PrefixLayouts, PrefixKinds DEF ArePrefixes
<1>3. LinkLSASize(body) = 24 + Total(PrefixSizes(q))
  BY DEF LinkLSASize, PrefixSizes
<1>4. WriteLinkLSA(body)
        = Write(LinkFixed, body) \o AddressBytes(body.address)
            \o Word(4, Len(q)) \o WritePrefixes(LinkPrefix, q)
  BY DEF WriteLinkLSA, AddressBytes
<1>5. /\ Write(LinkFixed, body) \in Seq(Byte)
      /\ Len(Write(LinkFixed, body)) = 4
  BY LinkFixedWritten
<1>6. /\ AddressBytes(body.address) \in Seq(Byte)
      /\ Len(AddressBytes(body.address)) = 16
  BY <1>1, AddressParts DEF AddressBytes
<1> HIDE DEF q
<1>7. /\ WritePrefixes(LinkPrefix, q) \in Seq(Byte)
      /\ Len(WritePrefixes(LinkPrefix, q)) = Total(PrefixSizes(q))
  BY <1>1, <1>2, PrefixesWritten
<1>8. /\ Total(PrefixSizes(q)) \in Nat /\ Len(q) \in Nat
      /\ Len(q) <= Total(PrefixSizes(q))
  BY <1>1, <1>2, PrefixTotal
<1>9. Len(q) \in UInt(4)
  <2>1. Len(q) < Power(2)
    BY <1>3, <1>8, PowerType, SMT
  <2>2. QED
    BY <1>8, <2>1, Powers, SMT DEF UInt
<1>10. Word(4, Len(q)) \in Seq(Byte) /\ Len(Word(4, Len(q))) = 4
  BY <1>9, NumberHeld
<1> DEFINE a == Write(LinkFixed, body)
           b == AddressBytes(body.address)
           c == Word(4, Len(q))
           d == WritePrefixes(LinkPrefix, q)
<1> HIDE DEF a, b, c, d
<1>11. /\ WriteLinkLSA(body) = a \o b \o c \o d
       /\ a \in Seq(Byte) /\ Len(a) = 4
       /\ b \in Seq(Byte) /\ Len(b) = 16
       /\ c \in Seq(Byte) /\ Len(c) = 4
       /\ d \in Seq(Byte) /\ LinkLSASize(body) = 24 + Len(d)
       /\ Len(q) \in UInt(4)
  <2>1. WriteLinkLSA(body) = a \o b \o c \o d
    BY <1>4, Zenon DEF a, b, c, d
  <2>2. a \in Seq(Byte) /\ Len(a) = 4
    BY <1>5, Zenon DEF a
  <2>3. b \in Seq(Byte) /\ Len(b) = 16
    BY <1>6, Zenon DEF b
  <2>4. c \in Seq(Byte) /\ Len(c) = 4
    BY <1>10, Zenon DEF c
  <2>5. d \in Seq(Byte) /\ LinkLSASize(body) = 24 + Len(d)
    BY <1>3, <1>7, Zenon DEF d
  <2>6. QED
    BY <1>9, <2>1, <2>2, <2>3, <2>4, <2>5, Zenon
<1>12. QED
  BY <1>11, Zenon DEF a, b, c, d, q

\* OSPFLinkLSABody::Serialize writes GetSerializedSize bytes.
LEMMA LinkLSAWritten ==
  ASSUME NEW body \in LinkBodies, LinkLSASize(body) < Power(2)
  PROVE  /\ WriteLinkLSA(body) \in Seq(Byte)
         /\ Len(WriteLinkLSA(body)) = LinkLSASize(body)
         /\ LinkLSASize(body) \in Nat
<1> DEFINE a == Write(LinkFixed, body)
           b == AddressBytes(body.address)
           c == Word(4, Len(body.prefixes))
           d == WritePrefixes(LinkPrefix, body.prefixes)
<1>1. /\ WriteLinkLSA(body) = a \o b \o c \o d
      /\ a \in Seq(Byte) /\ Len(a) = 4
      /\ b \in Seq(Byte) /\ Len(b) = 16
      /\ c \in Seq(Byte) /\ Len(c) = 4
      /\ d \in Seq(Byte) /\ LinkLSASize(body) = 24 + Len(d)
      /\ Len(body.prefixes) \in UInt(4)
  BY LinkLSAParts
<1> HIDE DEF a, b, c, d
<1>0. a \in Seq(Byte) /\ b \in Seq(Byte) /\ c \in Seq(Byte) /\ d \in Seq(Byte)
  BY <1>1
<1>2. /\ a \o b \o c \o d \in Seq(Byte)
      /\ Len(a \o b \o c \o d) = Len(a) + Len(b) + Len(c) + Len(d)
  BY <1>0, FourParts
<1> DEFINE y == a \o b \o c \o d
<1> HIDE DEF y
<1>3. /\ WriteLinkLSA(body) = y /\ y \in Seq(Byte)
      /\ Len(y) = Len(a) + Len(b) + Len(c) + Len(d)
  BY <1>1, <1>2 DEF y
<1>4. Len(d) \in Nat
  BY <1>1
<1>5. Len(y) = 24 + Len(d)
  BY <1>1, <1>3, <1>4
<1>6. QED
  BY <1>1, <1>3, <1>4, <1>5

\* OSPFLinkLSABody::Deserialize reads what was written but for the priority,
\* which is lost.
LEMMA LinkLSARead ==
  ASSUME NEW body \in LinkBodies, LinkLSASize(body) < Power(2),
         NEW s \in Seq(Byte), NEW at \in Nat, Holds(s, at, WriteLinkLSA(body))
  PROVE  ReadLinkLSA(s, at) = [body EXCEPT !.rtrPriority = 0]
<1> DEFINE a == Write(LinkFixed, body)
           b == AddressBytes(body.address)
           c == Word(4, Len(body.prefixes))
           d == WritePrefixes(LinkPrefix, body.prefixes)
<1>1. /\ WriteLinkLSA(body) = a \o b \o c \o d
      /\ a \in Seq(Byte) /\ Len(a) = 4
      /\ b \in Seq(Byte) /\ Len(b) = 16
      /\ c \in Seq(Byte) /\ Len(c) = 4
      /\ d \in Seq(Byte) /\ LinkLSASize(body) = 24 + Len(d)
      /\ Len(body.prefixes) \in UInt(4)
  BY LinkLSAParts
<1>2. /\ Holds(s, at, a) /\ Holds(s, at + 4, b)
      /\ Holds(s, at + 20, c) /\ Holds(s, at + 24, d)
  <2> HIDE DEF a, b, c, d
  <2>1. /\ Holds(s, at, a)
        /\ Holds(s, at + Len(a), b)
        /\ Holds(s, at + (Len(a) + Len(b)), c)
        /\ Holds(s, at + (Len(a) + Len(b) + Len(c)), d)
    <3>1. a \in Seq(Byte) /\ b \in Seq(Byte) /\ c \in Seq(Byte) /\ d \in Seq(Byte)
      BY <1>1
    <3>2. Holds(s, at, a \o b \o c \o d)
      BY <1>1
    <3>3. QED
      BY <3>1, <3>2, FourParts
  <2>2. QED
    BY <1>1, <2>1
<1>3. Number(s, at, 2) % 256 = 0 /\ Number(s, at + 2, 2) = body.options
  BY <1>2, LinkFixedWritten
<1>4. /\ body.address \in [1 .. 4 -> UInt(4)]
      /\ body.prefixes \in Seq(LinkPrefixes)
      /\ at + 4 \in Nat /\ at + 20 \in Nat /\ at + 24 \in Nat
  BY DEF LinkBodies
<1>5. \A k \in 1 .. 4 : Number(s, at + 4 + 4 * (k - 1), 4) = body.address[k]
  BY <1>2, <1>4, AddressParts DEF AddressBytes
<1>6. /\ Number(s, at + 4, 4) = body.address[1]
      /\ Number(s, at + 8, 4) = body.address[2]
      /\ Number(s, at + 12, 4) = body.address[3]
      /\ Number(s, at + 16, 4) = body.address[4]
  <2>1. /\ at + 4 + 4 * (1 - 1) = at + 4 /\ at + 4 + 4 * (2 - 1) = at + 8
        /\ at + 4 + 4 * (3 - 1) = at + 12 /\ at + 4 + 4 * (4 - 1) = at + 16
    OBVIOUS
  <2>2. 1 \in 1 .. 4 /\ 2 \in 1 .. 4 /\ 3 \in 1 .. 4 /\ 4 \in 1 .. 4
    OBVIOUS
  <2>3. /\ Number(s, at + 4 + 4 * (1 - 1), 4) = body.address[1]
        /\ Number(s, at + 4 + 4 * (2 - 1), 4) = body.address[2]
        /\ Number(s, at + 4 + 4 * (3 - 1), 4) = body.address[3]
        /\ Number(s, at + 4 + 4 * (4 - 1), 4) = body.address[4]
    BY <1>5, <2>2, Zenon
  <2>4. QED
    BY <2>1, <2>3
<1>7. <<body.address[1], body.address[2], body.address[3], body.address[4]>> = body.address
  <2>1. 1 .. 4 = {1, 2, 3, 4}
    OBVIOUS
  <2>2. body.address = [k \in 1 .. 4 |-> body.address[k]]
    BY <1>4
  <2>3. QED
    BY <2>1, <2>2
<1>8. Number(s, at + 20, 4) = Len(body.prefixes)
  BY <1>1, <1>2, <1>4, NumberHeld
<1>9. ReadPrefixes(LinkPrefix, s, at + 24, Len(body.prefixes)) = body.prefixes
  <2>1. IsPrefixLayout(LinkPrefix) /\ ArePrefixes(LinkPrefix, LinkPrefixes)
    BY PrefixLayouts, PrefixKinds DEF ArePrefixes
  <2>2. Holds(s, at + 24, WritePrefixes(LinkPrefix, body.prefixes))
    BY <1>2
  <2>3. QED
    BY <1>4, <2>1, <2>2, PrefixesRead
<1>10. ReadLinkLSA(s, at)
         = [rtrPriority |-> 0, options |-> body.options, address |-> body.address,
            prefixes |-> body.prefixes]
  BY <1>3, <1>6, <1>7, <1>8, <1>9 DEF ReadLinkLSA
<1>11. [rtrPriority |-> 0, options |-> body.options, address |-> body.address,
        prefixes |-> body.prefixes] = [body EXCEPT !.rtrPriority = 0]
  BY DEF LinkBodies
<1>12. QED
  BY <1>10, <1>11

AreaPrefixBodies == [refType : UInt(2), refId : UInt(4), refAdvRtr : UInt(4),
                     prefixes : Seq(AreaPrefixes)]

\* The reference of an Intra-area-prefix-LSA is read as it was written.
LEMMA AreaPrefixFixedWritten ==
  ASSUME NEW body \in AreaPrefixBodies
  PROVE  /\ Write(AreaPrefixFixed, body) \in Seq(Byte)
         /\ Len(Write(AreaPrefixFixed, body)) = 10
         /\ \A s \in Seq(Byte) : \A at \in Nat :
               Holds(s, at, Write(AreaPrefixFixed, body)) =>
                  LET fixed == Read(AreaPrefixFixed, s, at)
                  IN  /\ fixed.refType = body.refType
                      /\ fixed.refId = body.refId
                      /\ fixed.refAdvRtr = body.refAdvRtr
<1>1. Fits(AreaPrefixFixed, body)
  BY AreaPrefixFixedFits DEF AreaPrefixBodies
<1>2. /\ Write(AreaPrefixFixed, body) \in Seq(Byte)
      /\ Len(Write(AreaPrefixFixed, body)) = 10
  BY <1>1, AreaPrefixFixedLayout, WriteLayout
<1>3. ASSUME NEW s \in Seq(Byte), NEW at \in Nat,
             Holds(s, at, Write(AreaPrefixFixed, body))
      PROVE  /\ Read(AreaPrefixFixed, s, at).refType = body.refType
             /\ Read(AreaPrefixFixed, s, at).refId = body.refId
             /\ Read(AreaPrefixFixed, s, at).refAdvRtr = body.refAdvRtr
  <2>1. Read(AreaPrefixFixed, s, at)
          = [name \in {"refType", "refId", "refAdvRtr"} |-> body[name]]
    <3>1. IsLayout(AreaPrefixFixed) /\ Holds(s, at, Write(AreaPrefixFixed, body))
      BY <1>3, AreaPrefixFixedLayout
    <3>2. Read(AreaPrefixFixed, s, at) = [name \in Members(AreaPrefixFixed) |-> body[name]]
      BY <1>1, <3>1, MembersRead
    <3>3. QED
      BY <3>2, AreaPrefixFixedLayout
  <2>2. QED
    BY <2>1
<1>4. QED
  BY <1>2, <1>3

\* The bytes of an Intra-area-prefix-LSA, one member after the other.
LEMMA AreaPrefixLSAParts ==
  ASSUME NEW body \in AreaPrefixBodies, AreaPrefixLSASize(body) < Power(2)
  PROVE  LET a == Word(2, Len(body.prefixes))
             b == Write(AreaPrefixFixed, body)
             c == WritePrefixes(AreaPrefix, body.prefixes)
         IN  /\ WriteAreaPrefixLSA(body) = a \o b \o c
             /\ a \in Seq(Byte) /\ Len(a) = 2
             /\ b \in Seq(Byte) /\ Len(b) = 10
             /\ c \in Seq(Byte) /\ AreaPrefixLSASize(body) = 12 + Len(c)
             /\ Len(body.prefixes) \in UInt(2)
<1> DEFINE q == body.prefixes
<1>1. q \in Seq(AreaPrefixes)
  BY DEF AreaPrefixBodies
<1>2. IsPrefixLayout(AreaPrefix) /\ ArePrefixes(AreaPrefix, AreaPrefixes)
  BY PrefixLayouts, PrefixKinds DEF ArePrefixes
<1>3. AreaPrefixLSASize(body) = 12 + Total(PrefixSizes(q))
  BY DEF AreaPrefixLSASize, PrefixSizes
<1>4. WriteAreaPrefixLSA(body)
        = Word(2, Len(q)) \o Write(AreaPrefixFixed, body) \o WritePrefixes(AreaPrefix, q)
  BY DEF WriteAreaPrefixLSA
<1>5. /\ Write(AreaPrefixFixed, body) \in Seq(Byte)
      /\ Len(Write(AreaPrefixFixed, body)) = 10
  BY AreaPrefixFixedWritten
<1> HIDE DEF q
<1>7. /\ WritePrefixes(AreaPrefix, q) \in Seq(Byte)
      /\ Len(WritePrefixes(AreaPrefix, q)) = Total(PrefixSizes(q))
  BY <1>1, <1>2, PrefixesWritten
<1>8. /\ Total(PrefixSizes(q)) \in Nat /\ Len(q) \in Nat
      /\ Len(q) <= Total(PrefixSizes(q))
  BY <1>1, <1>2, PrefixTotal
<1>9. Len(q) \in UInt(2)
  <2>1. Len(q) < Power(2)
    BY <1>3, <1>8, PowerType, SMT
  <2>2. QED
    BY <1>8, <2>1, Powers, SMT DEF UInt
<1>10. Word(2, Len(q)) \in Seq(Byte) /\ Len(Word(2, Len(q))) = 2
  BY <1>9, NumberHeld
<1>11. QED
  BY <1>3, <1>4, <1>5, <1>7, <1>9, <1>10, Zenon DEF q

\* OSPFIntraAreaPrefixLSABody::Serialize writes GetSerializedSize bytes.
LEMMA AreaPrefixLSAWritten ==
  ASSUME NEW body \in AreaPrefixBodies, AreaPrefixLSASize(body) < Power(2)
  PROVE  /\ WriteAreaPrefixLSA(body) \in Seq(Byte)
         /\ Len(WriteAreaPrefixLSA(body)) = AreaPrefixLSASize(body)
         /\ AreaPrefixLSASize(body) \in Nat
<1> DEFINE a == Word(2, Len(body.prefixes))
           b == Write(AreaPrefixFixed, body)
           c == WritePrefixes(AreaPrefix, body.prefixes)
<1>1. /\ WriteAreaPrefixLSA(body) = a \o b \o c
      /\ a \in Seq(Byte) /\ Len(a) = 2
      /\ b \in Seq(Byte) /\ Len(b) = 10
      /\ c \in Seq(Byte) /\ AreaPrefixLSASize(body) = 12 + Len(c)
  BY AreaPrefixLSAParts
<1> HIDE DEF a, b, c
<1>2. a \in Seq(Byte) /\ b \in Seq(Byte) /\ c \in Seq(Byte)
  BY <1>1
<1>3. a \o b \o c \in Seq(Byte) /\ Len(a \o b \o c) = Len(a) + Len(b) + Len(c)
  BY <1>2, ThreeParts
<1> DEFINE y == a \o b \o c
<1> HIDE DEF y
<1>4. WriteAreaPrefixLSA(body) = y /\ y \in Seq(Byte) /\ Len(y) = Len(a) + Len(b) + Len(c)
  BY <1>1, <1>3 DEF y
<1>5. Len(c) \in Nat
  BY <1>2
<1>6. QED
  BY <1>1, <1>4, <1>5

\* OSPFIntraAreaPrefixLSABody::Deserialize reads what was written.
LEMMA AreaPrefixLSARead ==
  ASSUME NEW body \in AreaPrefixBodies, AreaPrefixLSASize(body) < Power(2),
         NEW s \in Seq(Byte), NEW at \in Nat, Holds(s, at, WriteAreaPrefixLSA(body))
  PROVE  ReadAreaPrefixLSA(s, at) = body
<1> DEFINE a == Word(2, Len(body.prefixes))
           b == Write(AreaPrefixFixed, body)
           c == WritePrefixes(AreaPrefix, body.prefixes)
<1>1. /\ WriteAreaPrefixLSA(body) = a \o b \o c
      /\ a \in Seq(Byte) /\ Len(a) = 2
      /\ b \in Seq(Byte) /\ Len(b) = 10
      /\ c \in Seq(Byte)
      /\ Len(body.prefixes) \in UInt(2)
  BY AreaPrefixLSAParts
<1>2. Holds(s, at, a) /\ Holds(s, at + 2, b) /\ Holds(s, at + 12, c)
  <2> HIDE DEF a, b, c
  <2>1. /\ Holds(s, at, a)
        /\ Holds(s, at + Len(a), b)
        /\ Holds(s, at + (Len(a) + Len(b)), c)
    <3>1. a \in Seq(Byte) /\ b \in Seq(Byte) /\ c \in Seq(Byte)
      BY <1>1
    <3>2. Holds(s, at, a \o b \o c)
      BY <1>1
    <3>3. QED
      BY <3>1, <3>2, ThreeParts
  <2>2. QED
    BY <1>1, <2>1
<1>3. at + 2 \in Nat /\ at + 12 \in Nat /\ body.prefixes \in Seq(AreaPrefixes)
  BY DEF AreaPrefixBodies
<1>4. Number(s, at, 2) = Len(body.prefixes)
  BY <1>1, <1>2, NumberHeld
<1>5. /\ Read(AreaPrefixFixed, s, at + 2).refType = body.refType
      /\ Read(AreaPrefixFixed, s, at + 2).refId = body.refId
      /\ Read(AreaPrefixFixed, s, at + 2).refAdvRtr = body.refAdvRtr
  BY <1>2, <1>3, AreaPrefixFixedWritten
<1>6. ReadPrefixes(AreaPrefix, s, at + 12, Len(body.prefixes)) = body.prefixes
  <2>1. IsPrefixLayout(AreaPrefix) /\ ArePrefixes(AreaPrefix, AreaPrefixes)
    BY PrefixLayouts, PrefixKinds DEF ArePrefixes
  <2>2. Holds(s, at + 12, WritePrefixes(AreaPrefix, body.prefixes))
    BY <1>2
  <2>3. QED
    BY <1>3, <2>1, <2>2, PrefixesRead
<1>7. ReadAreaPrefixLSA(s, at)
        = [refType |-> body.refType, refId |-> body.refId,
           refAdvRtr |-> body.refAdvRtr, prefixes |-> body.prefixes]
  BY <1>4, <1>5, <1>6 DEF ReadAreaPrefixLSA
<1>8. QED
  BY <1>7 DEF AreaPrefixBodies

-----------------------------------------------------------------------------
(* LSAs                                                                     *)

Headers == [age : UInt(2), type : UInt(2), id : UInt(4), advRtr : UInt(4),
            seqNum : UInt(4), checksum : UInt(2), length : UInt(2)]

LSATypes == {OSPF_LSA_TYPE_ROUTER, OSPF_LSA_TYPE_LINK, OSPF_LSA_TYPE_INTRA_AREA_PREFIX}

\* The body goes with the type.
BodyFits(type, body) ==
    \/ type = OSPF_LSA_TYPE_ROUTER /\ body \in RouterBodies
    \/ type = OSPF_LSA_TYPE_LINK /\ body \in LinkBodies
    \/ type = OSPF_LSA_TYPE_INTRA_AREA_PREFIX /\ body \in AreaPrefixBodies

\* The LSAs whose size can be written in the header.
LSARecords ==
    {lsa \in [hdr : Headers,
              body : RouterBodies \cup LinkBodies \cup AreaPrefixBodies] :
       BodyFits(lsa.hdr.type, lsa.body) /\ LSASize(lsa) < Power(2)}

\* How an LSA is read: the length is set, and the priority of a link is lost.
BodyRead(lsa) ==
    IF lsa.hdr.type = OSPF_LSA_TYPE_LINK
    THEN [lsa.body EXCEPT !.rtrPriority = 0] ELSE lsa.body

Arrived(lsa) ==
    [hdr |-> [lsa.hdr EXCEPT !.length = LSASize(lsa)], body |-> BodyRead(lsa)]

\* The types of LSAs are different ones.
LEMMA TypesDiffer ==
  /\ OSPF_LSA_TYPE_ROUTER # OSPF_LSA_TYPE_LINK
  /\ OSPF_LSA_TYPE_ROUTER # OSPF_LSA_TYPE_INTRA_AREA_PREFIX
  /\ OSPF_LSA_TYPE_LINK # OSPF_LSA_TYPE_INTRA_AREA_PREFIX
  BY SMT DEF OSPF_LSA_TYPE_ROUTER, OSPF_LSA_TYPE_LINK, OSPF_LSA_TYPE_INTRA_AREA_PREFIX

\* CreateBody: which class goes with which type.
LEMMA BodyCases ==
  ASSUME NEW lsa, BodyFits(lsa.hdr.type, lsa.body)
  PROVE  LET type == lsa.hdr.type
             body == lsa.body
         IN  \/ /\ body \in RouterBodies /\ type = OSPF_LSA_TYPE_ROUTER
                /\ BodySize(lsa) = RouterLSASize(body)
                /\ WriteBody(lsa) = WriteRouterLSA(body)
                /\ BodyRead(lsa) = body
                /\ \A s, at, r : ReadBody(type, s, at, r) = ReadRouterLSA(s, at, r)
             \/ /\ body \in LinkBodies /\ type = OSPF_LSA_TYPE_LINK
                /\ BodySize(lsa) = LinkLSASize(body)
                /\ WriteBody(lsa) = WriteLinkLSA(body)
                /\ BodyRead(lsa) = [body EXCEPT !.rtrPriority = 0]
                /\ \A s, at, r : ReadBody(type, s, at, r) = ReadLinkLSA(s, at)
             \/ /\ body \in AreaPrefixBodies /\ type = OSPF_LSA_TYPE_INTRA_AREA_PREFIX
                /\ BodySize(lsa) = AreaPrefixLSASize(body)
                /\ WriteBody(lsa) = WriteAreaPrefixLSA(body)
                /\ BodyRead(lsa) = body
                /\ \A s, at, r : ReadBody(type, s, at, r) = ReadAreaPrefixLSA(s, at)
<1> DEFINE type == lsa.hdr.type
           body == lsa.body
<1>0. lsa.hdr.type = type /\ lsa.body = body
  OBVIOUS
<1>5. BodyFits(type, body)
  OBVIOUS
<1> HIDE DEF type, body
<1>1. CASE type = OSPF_LSA_TYPE_ROUTER /\ body \in RouterBodies
  <2>1. BodySize(lsa) = RouterLSASize(body)
    BY <1>0, <1>1, TypesDiffer DEF BodySize
  <2>2. WriteBody(lsa) = WriteRouterLSA(body)
    BY <1>0, <1>1, TypesDiffer DEF WriteBody
  <2>3. BodyRead(lsa) = body
    BY <1>0, <1>1, TypesDiffer DEF BodyRead
  <2>4. \A s, at, r : ReadBody(type, s, at, r) = ReadRouterLSA(s, at, r)
    BY <1>1, TypesDiffer DEF ReadBody
  <2>5. QED
    BY <1>1, <2>1, <2>2, <2>3, <2>4 DEF type, body
<1>2. CASE type = OSPF_LSA_TYPE_LINK /\ body \in LinkBodies
  <2>1. BodySize(lsa) = LinkLSASize(body)
    BY <1>0, <1>2, TypesDiffer DEF BodySize
  <2>2. WriteBody(lsa) = WriteLinkLSA(body)
    BY <1>0, <1>2, TypesDiffer DEF WriteBody
  <2>3. BodyRead(lsa) = [body EXCEPT !.rtrPriority = 0]
    BY <1>0, <1>2, TypesDiffer DEF BodyRead
  <2>4. \A s, at, r : ReadBody(type, s, at, r) = ReadLinkLSA(s, at)
    BY <1>2, TypesDiffer DEF ReadBody
  <2>5. QED
    BY <1>2, <2>1, <2>2, <2>3, <2>4 DEF type, body
<1>3. CASE type = OSPF_LSA_TYPE_INTRA_AREA_PREFIX /\ body \in AreaPrefixBodies
  <2>1. BodySize(lsa) = AreaPrefixLSASize(body)
    BY <1>0, <1>3, TypesDiffer DEF BodySize
  <2>2. WriteBody(lsa) = WriteAreaPrefixLSA(body)
    BY <1>0, <1>3, TypesDiffer DEF WriteBody
  <2>3. BodyRead(lsa) = body
    BY <1>0, <1>3, TypesDiffer DEF BodyRead
  <2>4. \A s, at, r : ReadBody(type, s, at, r) = ReadAreaPrefixLSA(s, at)
    BY <1>3, TypesDiffer DEF ReadBody
  <2>5. QED
    BY <1>3, <2>1, <2>2, <2>3, <2>4 DEF type, body
<1>4. QED
  BY <1>1, <1>2, <1>3, <1>5 DEF BodyFits

\* The sizes of bodies, however large.
LEMMA BodySizes ==
  /\ \A body \in RouterBodies : RouterLSASize(body) \in Nat /\ RouterLSASize(body) >= 4
  /\ \A body \in LinkBodies : LinkLSASize(body) \in Nat /\ LinkLSASize(body) >= 4
  /\ \A body \in AreaPrefixBodies :
        AreaPrefixLSASize(body) \in Nat /\ AreaPrefixLSASize(body) >= 4
<1>1. ASSUME NEW body \in RouterBodies
      PROVE  RouterLSASize(body) \in Nat /\ RouterLSASize(body) >= 4
  <2> DEFINE n == Len(body.links)
  <2>1. n \in Nat
    BY DEF RouterBodies
  <2>2. RouterLSASize(body) = 4 + 16 * n
    BY DEF RouterLSASize
  <2> HIDE DEF n
  <2>3. QED
    BY <2>1, <2>2
<1>2. ASSUME NEW body \in LinkBodies
      PROVE  LinkLSASize(body) \in Nat /\ LinkLSASize(body) >= 4
  <2>1. body.prefixes \in Seq(LinkPrefixes)
    BY DEF LinkBodies
  <2>2. IsPrefixLayout(LinkPrefix) /\ ArePrefixes(LinkPrefix, LinkPrefixes)
    BY PrefixLayouts, PrefixKinds DEF ArePrefixes
  <2>3. Total(PrefixSizes(body.prefixes)) \in Nat
    BY <2>1, <2>2, PrefixTotal
  <2>4. LinkLSASize(body) = 24 + Total(PrefixSizes(body.prefixes))
    BY DEF LinkLSASize, PrefixSizes
  <2>5. QED
    BY <2>3, <2>4
<1>3. ASSUME NEW body \in AreaPrefixBodies
      PROVE  AreaPrefixLSASize(body) \in Nat /\ AreaPrefixLSASize(body) >= 4
  <2>1. body.prefixes \in Seq(AreaPrefixes)
    BY DEF AreaPrefixBodies
  <2>2. IsPrefixLayout(AreaPrefix) /\ ArePrefixes(AreaPrefix, AreaPrefixes)
    BY PrefixLayouts, PrefixKinds DEF ArePrefixes
  <2>3. Total(PrefixSizes(body.prefixes)) \in Nat
    BY <2>1, <2>2, PrefixTotal
  <2>4. AreaPrefixLSASize(body) = 12 + Total(PrefixSizes(body.prefixes))
    BY DEF AreaPrefixLSASize, PrefixSizes
  <2>5. QED
    BY <2>3, <2>4
<1>4. QED
  BY <1>1, <1>2, <1>3

\* The body of an LSA that fits in a packet.
LEMMA BodyWritten ==
  ASSUME NEW lsa, BodyFits(lsa.hdr.type, lsa.body), BodySize(lsa) < Power(2)
  PROVE  /\ WriteBody(lsa) \in Seq(Byte)
         /\ Len(WriteBody(lsa)) = BodySize(lsa)
         /\ BodySize(lsa) \in Nat
         /\ BodySize(lsa) >= 4
         /\ \A s \in Seq(Byte) : \A at \in Nat : Holds(s, at, WriteBody(lsa)) =>
               ReadBody(lsa.hdr.type, s, at, BodySize(lsa)) = BodyRead(lsa)
<1> DEFINE type == lsa.hdr.type
           body == lsa.body
<1>1. \/ /\ body \in RouterBodies /\ type = OSPF_LSA_TYPE_ROUTER
         /\ BodySize(lsa) = RouterLSASize(body)
         /\ WriteBody(lsa) = WriteRouterLSA(body)
         /\ BodyRead(lsa) = body
         /\ \A s, at, r : ReadBody(type, s, at, r) = ReadRouterLSA(s, at, r)
      \/ /\ body \in LinkBodies /\ type = OSPF_LSA_TYPE_LINK
         /\ BodySize(lsa) = LinkLSASize(body)
         /\ WriteBody(lsa) = WriteLinkLSA(body)
         /\ BodyRead(lsa) = [body EXCEPT !.rtrPriority = 0]
         /\ \A s, at, r : ReadBody(type, s, at, r) = ReadLinkLSA(s, at)
      \/ /\ body \in AreaPrefixBodies /\ type = OSPF_LSA_TYPE_INTRA_AREA_PREFIX
         /\ BodySize(lsa) = AreaPrefixLSASize(body)
         /\ WriteBody(lsa) = WriteAreaPrefixLSA(body)
         /\ BodyRead(lsa) = body
         /\ \A s, at, r : ReadBody(type, s, at, r) = ReadAreaPrefixLSA(s, at)
  BY BodyCases
<1> HIDE DEF body
<1>2. CASE /\ body \in RouterBodies
           /\ BodySize(lsa) = RouterLSASize(body)
           /\ WriteBody(lsa) = WriteRouterLSA(body)
           /\ BodyRead(lsa) = body
           /\ \A s, at, r : ReadBody(type, s, at, r) = ReadRouterLSA(s, at, r)
  BY <1>2, BodySizes, RouterLSAWritten, RouterLSARead
<1>3. CASE /\ body \in LinkBodies
           /\ BodySize(lsa) = LinkLSASize(body)
           /\ WriteBody(lsa) = WriteLinkLSA(body)
           /\ BodyRead(lsa) = [body EXCEPT !.rtrPriority = 0]
           /\ \A s, at, r : ReadBody(type, s, at, r) = ReadLinkLSA(s, at)
  BY <1>3, BodySizes, LinkLSAWritten, LinkLSARead
<1>4. CASE /\ body \in AreaPrefixBodies
           /\ BodySize(lsa) = AreaPrefixLSASize(body)
           /\ WriteBody(lsa) = WriteAreaPrefixLSA(body)
           /\ BodyRead(lsa) = body
           /\ \A s, at, r : ReadBody(type, s, at, r) = ReadAreaPrefixLSA(s, at)
  BY <1>4, BodySizes, AreaPrefixLSAWritten, AreaPrefixLSARead
<1>5. QED
  BY <1>1, <1>2, <1>3, <1>4

\* What is known of an LSA that fits in a packet.
LEMMA RecordParts ==
  ASSUME NEW lsa \in LSARecords
  PROVE  /\ lsa.hdr \in Headers
         /\ lsa.hdr.type \in LSATypes
         /\ BodyFits(lsa.hdr.type, lsa.body)
         /\ lsa = [hdr |-> lsa.hdr, body |-> lsa.body]
         /\ BodySize(lsa) \in Nat /\ BodySize(lsa) >= 4
         /\ BodySize(lsa) < Power(2)
         /\ LSASize(lsa) = 20 + BodySize(lsa)
         /\ LSASize(lsa) \in UInt(2)
         /\ LSASize(lsa) \in Nat
         /\ LSASize(lsa) >= 24
<1>1. /\ lsa \in [hdr : Headers,
                  body : RouterBodies \cup LinkBodies \cup AreaPrefixBodies]
      /\ BodyFits(lsa.hdr.type, lsa.body)
      /\ LSASize(lsa) < Power(2)
  BY DEF LSARecords
<1>2. lsa.hdr \in Headers /\ lsa = [hdr |-> lsa.hdr, body |-> lsa.body]
  BY <1>1
<1>3. lsa.hdr.type \in LSATypes
  BY <1>1 DEF BodyFits, LSATypes
<1>4. LSASize(lsa) = 20 + BodySize(lsa)
  BY LSAHeaderLayout DEF LSASize
<1>5. BodySize(lsa) \in Nat /\ BodySize(lsa) >= 4
  BY <1>1, BodyCases, BodySizes
<1>6. Power(2) \in Nat
  BY PowerType
<1>7. LSASize(lsa) \in UInt(2) /\ BodySize(lsa) < Power(2) /\ LSASize(lsa) >= 24
  BY <1>1, <1>4, <1>5, <1>6 DEF UInt
<1>8. QED
  BY <1>1, <1>2, <1>3, <1>4, <1>5, <1>7

\* The bytes of an LSA: the header but for its last member, the length, the body.
LEMMA LSAParts ==
  ASSUME NEW lsa \in LSARecords
  PROVE  LET a == Write(LSAHeaderStart, lsa.hdr)
             b == Word(2, LSASize(lsa))
             c == WriteBody(lsa)
         IN  /\ WriteLSA(lsa) = a \o b \o c
             /\ Fits(LSAHeaderStart, lsa.hdr)
             /\ a \in Seq(Byte) /\ Len(a) = 18
             /\ b \in Seq(Byte) /\ Len(b) = 2
             /\ c \in Seq(Byte) /\ Len(c) = BodySize(lsa)
<1>1. Fits(LSAHeaderStart, lsa.hdr)
  BY RecordParts, LSAHeaderStartFits DEF Headers
<1>2. /\ Write(LSAHeaderStart, lsa.hdr) \in Seq(Byte)
      /\ Len(Write(LSAHeaderStart, lsa.hdr)) = 18
  BY <1>1, LSAHeaderStartLayout, WriteLayout
<1>3. Word(2, LSASize(lsa)) \in Seq(Byte) /\ Len(Word(2, LSASize(lsa))) = 2
  BY RecordParts, NumberHeld
<1>4. WriteBody(lsa) \in Seq(Byte) /\ Len(WriteBody(lsa)) = BodySize(lsa)
  BY RecordParts, BodyWritten
<1>5. WriteLSA(lsa)
        = Write(LSAHeaderStart, lsa.hdr) \o Word(2, LSASize(lsa)) \o WriteBody(lsa)
  BY DEF WriteLSA
<1>6. QED
  BY <1>1, <1>2, <1>3, <1>4, <1>5

\* OSPFLSA::Serialize writes GetSerializedSize bytes.
LEMMA LSAWritten ==
  ASSUME NEW lsa \in LSARecords
  PROVE  WriteLSA(lsa) \in Seq(Byte) /\ Len(WriteLSA(lsa)) = LSASize(lsa)
<1> DEFINE a == Write(LSAHeaderStart, lsa.hdr)
           b == Word(2, LSASize(lsa))
           c == WriteBody(lsa)
<1>1. /\ WriteLSA(lsa) = a \o b \o c
      /\ a \in Seq(Byte) /\ Len(a) = 18
      /\ b \in Seq(Byte) /\ Len(b) = 2
      /\ c \in Seq(Byte) /\ Len(c) = BodySize(lsa)
  BY LSAParts
<1> HIDE DEF a, b, c
<1>2. a \in Seq(Byte) /\ b \in Seq(Byte) /\ c \in Seq(Byte)
  BY <1>1
<1>3. a \o b \o c \in Seq(Byte) /\ Len(a \o b \o c) = Len(a) + Len(b) + Len(c)
  BY <1>2, ThreeParts
<1> DEFINE y == a \o b \o c
<1> HIDE DEF y
<1>4. WriteLSA(lsa) = y /\ y \in Seq(Byte) /\ Len(y) = Len(a) + Len(b) + Len(c)
  BY <1>1, <1>3 DEF y
<1>5. LSASize(lsa) = 20 + BodySize(lsa) /\ BodySize(lsa) \in Nat
  BY RecordParts
<1>6. QED
  BY <1>1, <1>4, <1>5

\* The header as it is read: with the length.
LEMMA HeaderHeld ==
  ASSUME NEW hdr \in Headers, NEW length \in UInt(2),
         NEW s \in Seq(Byte), NEW at \in Nat,
         Holds(s, at, Write(LSAHeaderStart, hdr)), Holds(s, at + 18, Word(2, length))
  PROVE  Read(LSAHeader, s, at) = [hdr EXCEPT !.length = length]
<1> DEFINE h == [hdr EXCEPT !.length = length]
<1>1. h \in Headers /\ h.length = length
  BY DEF Headers
<1>2. /\ h.age = hdr.age /\ h.type = hdr.type /\ h.id = hdr.id
      /\ h.advRtr = hdr.advRtr /\ h.seqNum = hdr.seqNum /\ h.checksum = hdr.checksum
  BY DEF Headers
<1> HIDE DEF h
<1>3. HoldsFields(s, at, LSAHeaderStart, hdr)
  <2>1. Fits(LSAHeaderStart, hdr)
    BY LSAHeaderStartFits DEF Headers
  <2>2. QED
    BY <2>1, LSAHeaderStartLayout, FieldsHeld
<1>4. /\ Holds(s, at + 0, Word(2, hdr.age)) /\ Holds(s, at + 2, Word(2, hdr.type))
      /\ Holds(s, at + 4, Word(4, hdr.id)) /\ Holds(s, at + 8, Word(4, hdr.advRtr))
      /\ Holds(s, at + 12, Word(4, hdr.seqNum))
      /\ Holds(s, at + 16, Word(2, hdr.checksum))
  <2>1. /\ 1 \in 1 .. 6 /\ 2 \in 1 .. 6 /\ 3 \in 1 .. 6
        /\ 4 \in 1 .. 6 /\ 5 \in 1 .. 6 /\ 6 \in 1 .. 6
    OBVIOUS
  <2>2. QED
    BY <1>3, <2>1, LSAHeaderStartFields, LSAHeaderStartLayout DEF HoldsFields
<1>5. HoldsFields(s, at, LSAHeader, h)
  <2>1. 1 .. 7 = {1, 2, 3, 4, 5, 6, 7}
    OBVIOUS
  <2>2. ASSUME NEW i \in {1, 2, 3, 4, 5, 6, 7}
        PROVE  Holds(s, at + Offset(LSAHeader, i), Word(Bytes(LSAHeader, i), h[Name(LSAHeader, i)]))
    BY <1>1, <1>2, <1>4, LSAHeaderFields, LSAHeaderLayout
  <2>3. QED
    BY <2>1, <2>2, LSAHeaderFields DEF HoldsFields
<1>6. Fits(LSAHeader, h)
  BY <1>1, LSAHeaderFits DEF Headers
<1>7. Read(LSAHeader, s, at) = [name \in Members(LSAHeader) |-> h[name]]
  <2>1. IsLayout(LSAHeader)
    BY LSAHeaderLayout
  <2>2. QED
    BY <1>5, <1>6, <2>1, ReadLayout
<1>8. [name \in Members(LSAHeader) |-> h[name]] = h
  BY <1>1, LSAHeaderLayout DEF Headers
<1>9. QED
  BY <1>7, <1>8 DEF h

(* OSPFLSA::Deserialize reads every LSA that fits in a packet as it was       *)
(* written, wherever it stands in a buffer: the length is set to its size,    *)
(* and the priority of a Link-LSA is lost.                                    *)
THEOREM LSARead ==
  ASSUME NEW lsa \in LSARecords, NEW s \in Seq(Byte), NEW at \in Nat,
         Holds(s, at, WriteLSA(lsa))
  PROVE  ReadLSA(s, at) = Arrived(lsa)
<1> DEFINE a == Write(LSAHeaderStart, lsa.hdr)
           b == Word(2, LSASize(lsa))
           c == WriteBody(lsa)
<1>1. /\ WriteLSA(lsa) = a \o b \o c
      /\ a \in Seq(Byte) /\ Len(a) = 18
      /\ b \in Seq(Byte) /\ Len(b) = 2
      /\ c \in Seq(Byte)
  BY LSAParts
<1>2. Holds(s, at, a) /\ Holds(s, at + 18, b) /\ Holds(s, at + 20, c)
  <2> HIDE DEF a, b, c
  <2>1. /\ Holds(s, at, a)
        /\ Holds(s, at + Len(a), b)
        /\ Holds(s, at + (Len(a) + Len(b)), c)
    <3>1. a \in Seq(Byte) /\ b \in Seq(Byte) /\ c \in Seq(Byte)
      BY <1>1
    <3>2. Holds(s, at, a \o b \o c)
      BY <1>1
    <3>3. QED
      BY <3>1, <3>2, ThreeParts
  <2>2. QED
    BY <1>1, <2>1
<1> DEFINE hdr == [lsa.hdr EXCEPT !.length = LSASize(lsa)]
<1>3. Read(LSAHeader, s, at) = hdr
  BY <1>2, RecordParts, HeaderHeld
<1>4. hdr.length = LSASize(lsa) /\ hdr.type = lsa.hdr.type
  BY RecordParts DEF Headers
<1>5. ReadBody(lsa.hdr.type, s, at + 20, BodySize(lsa)) = BodyRead(lsa)
  <2>1. at + 20 \in Nat
    OBVIOUS
  <2>2. QED
    BY <1>2, <2>1, RecordParts, BodyWritten
<1>6. ReadLSA(s, at)
        = [hdr |-> Read(LSAHeader, s, at),
           body |-> ReadBody(Read(LSAHeader, s, at).type, s, at + Width(LSAHeader),
                             Read(LSAHeader, s, at).length - Width(LSAHeader))]
  BY DEF ReadLSA
<1> HIDE DEF hdr
<1>7. hdr.length - 20 = BodySize(lsa)
  BY <1>4, RecordParts
<1>8. ReadLSA(s, at) = [hdr |-> hdr, body |-> BodyRead(lsa)]
  BY <1>3, <1>4, <1>5, <1>6, <1>7, LSAHeaderLayout
<1>9. QED
  BY <1>8 DEF Arrived, hdr

\* The size of a body is the same without the priority.
LEMMA PriorityLost ==
  ASSUME NEW body \in LinkBodies
  PROVE  LET q == [body EXCEPT !.rtrPriority = 0]
         IN  q \in LinkBodies /\ LinkLSASize(q) = LinkLSASize(body)
<1> DEFINE q == [body EXCEPT !.rtrPriority = 0]
<1>1. 0 \in UInt(1)
  BY Powers DEF UInt
<1>2. q \in LinkBodies /\ q.prefixes = body.prefixes
  BY <1>1 DEF LinkBodies
<1> HIDE DEF q
<1>3. LinkLSASize(q) = LinkLSASize(body)
  BY <1>2 DEF LinkLSASize
<1>4. QED
  BY <1>2, <1>3 DEF q

\* Another header of the same type, another body of the same size.
LEMMA SameSize ==
  ASSUME NEW lsa \in LSARecords, NEW r, r.hdr.type = lsa.hdr.type,
         r.body \in {lsa.body, BodyRead(lsa)}
  PROVE  /\ BodyFits(r.hdr.type, r.body)
         /\ LSASize(r) = LSASize(lsa)
         /\ r.body \in RouterBodies \cup LinkBodies \cup AreaPrefixBodies
<1>1. BodyFits(lsa.hdr.type, lsa.body)
  BY RecordParts
<1>2. CASE lsa.hdr.type = OSPF_LSA_TYPE_ROUTER /\ lsa.body \in RouterBodies
  <2>1. r.body = lsa.body
    BY <1>2, TypesDiffer DEF BodyRead
  <2>2. BodySize(r) = BodySize(lsa)
    BY <1>2, <2>1, TypesDiffer DEF BodySize
  <2>3. QED
    BY <1>1, <1>2, <2>1, <2>2 DEF LSASize
<1>3. CASE lsa.hdr.type = OSPF_LSA_TYPE_LINK /\ lsa.body \in LinkBodies
  <2>1. BodyRead(lsa) = [lsa.body EXCEPT !.rtrPriority = 0]
    BY <1>3 DEF BodyRead
  <2>2. r.body \in LinkBodies /\ LinkLSASize(r.body) = LinkLSASize(lsa.body)
    BY <1>3, <2>1, PriorityLost
  <2>3. BodySize(r) = BodySize(lsa)
    BY <1>3, <2>2, TypesDiffer DEF BodySize
  <2>4. BodyFits(r.hdr.type, r.body)
    BY <1>3, <2>2 DEF BodyFits
  <2>5. QED
    BY <2>2, <2>3, <2>4 DEF LSASize
<1>4. CASE lsa.hdr.type = OSPF_LSA_TYPE_INTRA_AREA_PREFIX /\ lsa.body \in AreaPrefixBodies
  <2>1. r.body = lsa.body
    BY <1>4, TypesDiffer DEF BodyRead
  <2>2. BodySize(r) = BodySize(lsa)
    BY <1>4, <2>1, TypesDiffer DEF BodySize
  <2>3. QED
    BY <1>1, <1>4, <2>1, <2>2 DEF LSASize
<1>5. QED
  BY <1>1, <1>2, <1>3, <1>4 DEF BodyFits

\* An LSA that was read can be written again, and tells what it told.
LEMMA ArrivedIs ==
  ASSUME NEW lsa \in LSARecords
  PROVE  /\ Arrived(lsa) \in LSARecords
         /\ LSASize(Arrived(lsa)) = LSASize(lsa)
         /\ Told(Arrived(lsa)) = Told(lsa)
         /\ Arrived(lsa).hdr.age = lsa.hdr.age
<1> DEFINE r == Arrived(lsa)
           h == [lsa.hdr EXCEPT !.length = LSASize(lsa)]
<1>1. r = [hdr |-> h, body |-> BodyRead(lsa)]
  BY DEF Arrived
<1>2. lsa.hdr \in Headers /\ LSASize(lsa) \in UInt(2)
  BY RecordParts
<1>3. h \in Headers /\ h.type = lsa.hdr.type /\ h.age = lsa.hdr.age
  BY <1>2 DEF Headers
<1>4. r.hdr = h /\ r.body = BodyRead(lsa)
  BY <1>1
<1> HIDE DEF r
<1>5. /\ BodyFits(r.hdr.type, r.body) /\ LSASize(r) = LSASize(lsa)
      /\ r.body \in RouterBodies \cup LinkBodies \cup AreaPrefixBodies
  <2> HIDE DEF h
  <2>1. QED
    BY <1>3, <1>4, SameSize
<1>6. r \in [hdr : Headers, body : RouterBodies \cup LinkBodies \cup AreaPrefixBodies]
  <2> HIDE DEF h
  <2>1. QED
    BY <1>1, <1>3, <1>4, <1>5
<1>7. r \in LSARecords
  BY <1>5, <1>6 DEF LSARecords
<1>8. [h EXCEPT !.length = 0, !.age = 0] = [lsa.hdr EXCEPT !.length = 0, !.age = 0]
  BY <1>2 DEF Headers
<1>9. (IF h.type = OSPF_LSA_TYPE_LINK THEN [r.body EXCEPT !.rtrPriority = 0] ELSE r.body)
        = (IF lsa.hdr.type = OSPF_LSA_TYPE_LINK
           THEN [lsa.body EXCEPT !.rtrPriority = 0] ELSE lsa.body)
  <2>1. CASE lsa.hdr.type = OSPF_LSA_TYPE_LINK
    <3>1. r.body = [lsa.body EXCEPT !.rtrPriority = 0]
      BY <1>4, <2>1 DEF BodyRead
    <3>2. lsa.body \in LinkBodies
      BY <2>1, RecordParts, TypesDiffer DEF BodyFits
    <3>3. [r.body EXCEPT !.rtrPriority = 0] = r.body
      BY <3>1, <3>2 DEF LinkBodies
    <3> HIDE DEF h
    <3>4. QED
      BY <1>3, <2>1, <3>1, <3>3
  <2>2. CASE lsa.hdr.type # OSPF_LSA_TYPE_LINK
    <3> HIDE DEF h
    <3>1. QED
      BY <1>3, <1>4, <2>2 DEF BodyRead
  <2>3. QED
    BY <2>1, <2>2
<1>10. Told(r) = Told(lsa)
  <2> HIDE DEF h
  <2>1. QED
    BY <1>4, <1>8, <1>9 DEF Told
<1>11. QED
  BY <1>3, <1>4, <1>5, <1>7, <1>10 DEF r

\* AgingBeforeFlooding changes nothing that is told, and no size.
LEMMA AgedIs ==
  ASSUME NEW lsa \in LSARecords
  PROVE  /\ Aged(lsa) \in LSARecords
         /\ LSASize(Aged(lsa)) = LSASize(lsa)
         /\ Told(Aged(lsa)) = Told(lsa)
<1> DEFINE r == Aged(lsa)
           age == (lsa.hdr.age + 1) % 65536
           h == [lsa.hdr EXCEPT !.age = age]
<1>1. lsa.hdr \in Headers /\ lsa = [hdr |-> lsa.hdr, body |-> lsa.body]
  BY RecordParts
<1>2. age \in UInt(2)
  <2>1. lsa.hdr.age \in Nat
    BY <1>1 DEF Headers, UInt
  <2>2. \A y \in Nat : y % 65536 \in Nat /\ y % 65536 < 65536
    BY SMT
  <2>3. PICK y \in Nat : y = lsa.hdr.age + 1
    BY <2>1
  <2>4. PICK z \in Nat : z = y % 65536 /\ z < Power(2)
    BY <2>2, Powers, SMT
  <2>5. z \in UInt(2)
    BY <2>4, PowerType, SMT DEF UInt
  <2>6. age = z
    BY <2>3, <2>4
  <2> HIDE DEF age
  <2>7. QED
    BY <2>5, <2>6
<1>3. r = [hdr |-> h, body |-> lsa.body]
  BY <1>1 DEF Aged
<1> HIDE DEF age
<1>4. h \in Headers /\ h.type = lsa.hdr.type
  BY <1>1, <1>2 DEF Headers
<1>5. r.hdr = h /\ r.body = lsa.body
  BY <1>3
<1> HIDE DEF r
<1>6. /\ BodyFits(r.hdr.type, r.body) /\ LSASize(r) = LSASize(lsa)
      /\ r.body \in RouterBodies \cup LinkBodies \cup AreaPrefixBodies
  <2> HIDE DEF h
  <2>1. QED
    BY <1>4, <1>5, SameSize
<1>7. r \in [hdr : Headers, body : RouterBodies \cup LinkBodies \cup AreaPrefixBodies]
  <2> HIDE DEF h
  <2>1. QED
    BY <1>3, <1>4, <1>5, <1>6
<1>8. r \in LSARecords
  BY <1>6, <1>7 DEF LSARecords
<1>9. [h EXCEPT !.length = 0, !.age = 0] = [lsa.hdr EXCEPT !.length = 0, !.age = 0]
  BY <1>1 DEF Headers
<1>10. Told(r) = Told(lsa)
  <2> HIDE DEF h
  <2>1. QED
    BY <1>4, <1>5, <1>9 DEF Told
<1>11. QED
  BY <1>6, <1>8, <1>10 DEF r

\* What two LSAs that tell the same have in common.
LEMMA ToldSame ==
  ASSUME NEW l \in LSARecords, NEW m \in LSARecords, Told(l) = Told(m)
  PROVE  /\ Identifier(l.hdr) = Identifier(m.hdr)
         /\ l.hdr.seqNum = m.hdr.seqNum
         /\ LSASize(l) = LSASize(m)
<1>1. l.hdr \in Headers /\ m.hdr \in Headers
  BY RecordParts
<1>2. [l.hdr EXCEPT !.length = 0, !.age = 0] = [m.hdr EXCEPT !.length = 0, !.age = 0]
  BY DEF Told
<1>3. /\ l.hdr.type = m.hdr.type /\ l.hdr.id = m.hdr.id
      /\ l.hdr.advRtr = m.hdr.advRtr /\ l.hdr.seqNum = m.hdr.seqNum
  <2> DEFINE x == [l.hdr EXCEPT !.length = 0, !.age = 0]
             y == [m.hdr EXCEPT !.length = 0, !.age = 0]
  <2>1. /\ x.type = l.hdr.type /\ x.id = l.hdr.id
        /\ x.advRtr = l.hdr.advRtr /\ x.seqNum = l.hdr.seqNum
    BY <1>1 DEF Headers
  <2>2. /\ y.type = m.hdr.type /\ y.id = m.hdr.id
        /\ y.advRtr = m.hdr.advRtr /\ y.seqNum = m.hdr.seqNum
    BY <1>1 DEF Headers
  <2>3. x = y
    BY <1>2
  <2> HIDE DEF x, y
  <2>4. QED
    BY <2>1, <2>2, <2>3
<1>4. Identifier(l.hdr) = Identifier(m.hdr)
  BY <1>3 DEF Identifier
<1>5. LSASize(l) = LSASize(m)
  <2>1. CASE l.hdr.type = OSPF_LSA_TYPE_LINK
    <3>1. l.body \in LinkBodies /\ m.body \in LinkBodies
      BY <1>3, <2>1, RecordParts, TypesDiffer DEF BodyFits
    <3>2. [l.body EXCEPT !.rtrPriority = 0] = [m.body EXCEPT !.rtrPriority = 0]
      BY <1>3, <2>1 DEF Told
    <3> DEFINE x == [l.body EXCEPT !.rtrPriority = 0]
               y == [m.body EXCEPT !.rtrPriority = 0]
    <3>3. LinkLSASize(x) = LinkLSASize(l.body) /\ LinkLSASize(y) = LinkLSASize(m.body)
      BY <3>1, PriorityLost
    <3>4. x = y
      BY <3>2
    <3> HIDE DEF x, y
    <3>5. LinkLSASize(l.body) = LinkLSASize(m.body)
      BY <3>3, <3>4
    <3>6. QED
      BY <1>3, <2>1, <3>5, TypesDiffer DEF LSASize, BodySize
  <2>2. CASE l.hdr.type # OSPF_LSA_TYPE_LINK
    <3>1. l.body = m.body
      BY <1>3, <2>2 DEF Told
    <3>2. QED
      BY <1>3, <2>2, <3>1 DEF LSASize, BodySize
  <2>3. QED
    BY <2>1, <2>2
<1>6. QED
  BY <1>3, <1>4, <1>5

-----------------------------------------------------------------------------
(* The LSAs of an update, one behind the other.                             *)

LSABytes(q) == [i \in DOMAIN q |-> WriteLSA(q[i])]
LSASizes(q) == [i \in DOMAIN q |-> LSASize(q[i])]

\* Each LSA as it is written.
LEMMA UpdateParts ==
  ASSUME NEW q \in Seq(LSARecords)
  PROVE  /\ LSABytes(q) \in Seq(Seq(Byte)) /\ Len(LSABytes(q)) = Len(q)
         /\ LSASizes(q) \in Seq(Nat) /\ Len(LSASizes(q)) = Len(LSABytes(q))
         /\ \A k \in 1 .. Len(LSABytes(q)) :
               /\ Len(LSABytes(q)[k]) = LSASizes(q)[k]
               /\ LSABytes(q)[k] = WriteLSA(q[k])
               /\ LSASizes(q)[k] = LSASize(q[k])
<1> DEFINE ps == LSABytes(q)
           ns == LSASizes(q)
<1>1. Len(q) \in Nat /\ DOMAIN q = 1 .. Len(q)
  OBVIOUS
<1>2. \A i \in 1 .. Len(q) : /\ WriteLSA(q[i]) \in Seq(Byte)
                             /\ Len(WriteLSA(q[i])) = LSASize(q[i])
                             /\ LSASize(q[i]) \in Nat
  BY LSAWritten, RecordParts
<1>3. ps \in [1 .. Len(q) -> Seq(Byte)] /\ ns \in [1 .. Len(q) -> Nat]
  BY <1>1, <1>2 DEF LSABytes, LSASizes
<1>4. \A k \in 1 .. Len(q) : ps[k] = WriteLSA(q[k]) /\ ns[k] = LSASize(q[k])
  BY <1>1 DEF LSABytes, LSASizes
<1> HIDE DEF ps, ns
<1>5. ps \in Seq(Seq(Byte)) /\ Len(ps) = Len(q)
  BY <1>1, <1>3, SequenceOf
<1>6. ns \in Seq(Nat) /\ Len(ns) = Len(q)
  BY <1>1, <1>3, SequenceOf
<1>7. QED
  BY <1>2, <1>4, <1>5, <1>6 DEF ps, ns

\* All of them take the sum of their sizes.
LEMMA UpdateWritten ==
  ASSUME NEW q \in Seq(LSARecords)
  PROVE  /\ FlattenSeq(LSABytes(q)) \in Seq(Byte)
         /\ Len(FlattenSeq(LSABytes(q))) = Total(LSASizes(q))
         /\ Total(LSASizes(q)) \in Nat
<1>1. PICK t : IsSums(t, LSASizes(q))
  BY UpdateParts, SumsExist
<1>2. /\ FlattenSeq(LSABytes(q)) \in Seq(Byte)
      /\ Len(FlattenSeq(LSABytes(q))) = Total(LSASizes(q))
  BY <1>1, UpdateParts, PartsOf
<1>3. QED
  BY <1>2, UpdateParts, TotalType

\* They are found again: each ends where the length in its header says.
LEMMA UpdateRead ==
  ASSUME NEW q \in Seq(LSARecords), NEW s \in Seq(Byte), NEW start \in Nat,
         Holds(s, start, FlattenSeq(LSABytes(q)))
  PROVE  ReadLSAs(s, start, Len(q)) = [k \in 1 .. Len(q) |-> Arrived(q[k])]
<1> DEFINE n == Len(q)
           ps == LSABytes(q)
           ns == LSASizes(q)
           lsa == [at \in 0 .. Len(s) |-> ReadLSA(s, at)]
           end == [at \in 0 .. Len(s) |-> at + LSASize(lsa[at])]
<1>1. /\ ps \in Seq(Seq(Byte)) /\ Len(ps) = n
      /\ ns \in Seq(Nat) /\ Len(ns) = Len(ps)
      /\ \A k \in 1 .. Len(ps) : Len(ps[k]) = ns[k]
      /\ \A k \in 1 .. Len(ps) : ps[k] = WriteLSA(q[k]) /\ ns[k] = LSASize(q[k])
  BY UpdateParts
<1>0. n \in Nat /\ q = [k \in 1 .. n |-> q[k]] /\ \A k \in 1 .. n : q[k] \in LSARecords
  OBVIOUS
<1> HIDE DEF ps, ns, n
<1>3. PICK t : IsSums(t, ns)
  BY <1>1, SumsExist
<1>4. \A k \in 1 .. n : t[k - 1] \in Nat /\ Holds(s, start + t[k - 1], ps[k])
  <2>1. Holds(s, start, FlattenSeq(ps))
    BY DEF ps
  <2>2. QED
    BY <1>1, <1>3, <2>1, PartsHeld
<1>5. /\ t[0] = 0
      /\ \A k \in 1 .. n : t[k] = t[k - 1] + LSASize(q[k])
  BY <1>1, <1>3 DEF IsSums
<1> DEFINE u == [k \in 1 .. n |-> start + t[k - 1]]
<1>6. ASSUME NEW k \in 1 .. n
      PROVE  /\ u[k] = start + t[k - 1]
             /\ u[k] \in 0 .. Len(s)
             /\ lsa[u[k]] = Arrived(q[k])
             /\ end[u[k]] = u[k] + LSASize(q[k])
  <2>1. u[k] = start + t[k - 1] /\ u[k] \in Nat
    BY <1>4
  <2>2. Holds(s, u[k], ps[k])
    BY <1>4, <2>1
  <2> HIDE DEF u
  <2>3. ps[k] \in Seq(Byte) /\ ps[k] = WriteLSA(q[k])
    BY <1>1
  <2>4. u[k] \in 0 .. Len(s)
    BY <2>1, <2>2, <2>3, PartBegins
  <2>5. q[k] \in LSARecords
    BY <1>0
  <2>6. ReadLSA(s, u[k]) = Arrived(q[k])
    BY <2>1, <2>2, <2>3, <2>5, LSARead
  <2>7. lsa[u[k]] = Arrived(q[k])
    BY <2>4, <2>6
  <2> HIDE DEF lsa
  <2>8. end[u[k]] = u[k] + LSASize(q[k])
    BY <2>4, <2>5, <2>7, ArrivedIs
  <2>9. QED
    BY <2>1, <2>4, <2>7, <2>8
<1>7. Begin(u, n, end)
  <2>1. u \in [1 .. n -> Nat]
    BY <1>4
  <2>2. ASSUME NEW k \in 2 .. n PROVE u[k] = end[u[k - 1]]
    <3>1. k \in 1 .. n /\ k - 1 \in 1 .. n
      BY <1>0
    <3>2. u[k] = start + t[k - 1]
      BY <1>6, <3>1
    <3> DEFINE j == k - 1
    <3>3. j \in 1 .. n
      BY <3>1
    <3> HIDE DEF j, u, end, lsa
    <3>4. t[j] = t[j - 1] + LSASize(q[j]) /\ t[j - 1] \in Nat
      BY <1>4, <1>5, <3>3
    <3>5. u[j] = start + t[j - 1] /\ end[u[j]] = u[j] + LSASize(q[j])
      BY <1>6, <3>3
    <3>6. LSASize(q[j]) \in Nat
      BY <1>0, <3>3, RecordParts
    <3>7. u[k] = end[u[j]]
      BY <3>2, <3>4, <3>5, <3>6 DEF j
    <3>8. QED
      BY <3>7 DEF j
  <2> HIDE DEF u, end, lsa
  <2>3. QED
    BY <2>1, <2>2 DEF Begin
<1>8. \A k \in 1 .. n : lsa[Positions(start, end, n)[k]] = Arrived(q[k])
  <2>1. ASSUME NEW k \in 1 .. n PROVE Positions(start, end, n)[k] = u[k]
    <3>1. 1 \in 1 .. n
      BY <1>0
    <3>2. u[1] = start
      <4>1. u[1] = start + t[1 - 1] /\ 1 - 1 = 0
        BY <1>6, <3>1
      <4> HIDE DEF u
      <4>2. QED
        BY <1>5, <4>1
    <3> HIDE DEF u, end
    <3>3. Positions(u[1], end, n)[k] = u[k]
      BY <1>0, <1>7, PositionsAre
    <3>4. QED
      BY <3>2, <3>3
  <2> HIDE DEF u, end, lsa
  <2>2. QED
    BY <1>6, <2>1
<1>9. ReadLSAs(s, start, n)
        = [k \in 1 .. n |-> lsa[Positions(start, end, n)[k]]] \o <<>>
  BY DEF ReadLSAs, Listed
<1> DEFINE f == [k \in 1 .. n |-> Arrived(q[k])]
<1>10. [k \in 1 .. n |-> lsa[Positions(start, end, n)[k]]] = f
  <2> HIDE DEF lsa, end, u
  <2>1. QED
    BY <1>8
<1>11. f \o <<>> = f
  <2>1. f \in [1 .. n -> LSARecords]
    BY <1>0, ArrivedIs
  <2> HIDE DEF f
  <2>2. f \in Seq(LSARecords)
    BY <1>0, <2>1, SequenceOf
  <2>3. QED
    BY <2>2
<1> HIDE DEF lsa, end, u
<1>12. QED
  BY <1>9, <1>10, <1>11 DEF n

-----------------------------------------------------------------------------
(* The OSPF header                                                          *)

\* The members that every packet has.
IsHeader(p) ==
    /\ p.version \in UInt(1) /\ p.type \in 1 .. 5
    /\ p.routerId \in UInt(4) /\ p.areaId \in UInt(4) /\ p.instanceId \in UInt(1)

\* The header as it is read.
HeaderOf(p) ==
    [version |-> p.version, type |-> p.type, length |-> PacketSize(p),
     routerId |-> p.routerId, areaId |-> p.areaId, instanceId |-> p.instanceId]

\* The body is written in as many bytes as PacketSize counts.
IsWritten(p) ==
    /\ WritePacketBody(p) \in Seq(Byte)
    /\ PacketSize(p) = 16 + Len(WritePacketBody(p))
    /\ PacketSize(p) < Power(2)

\* The type is a byte.
LEMMA PacketTypeFits ==
  ASSUME NEW p, IsHeader(p)
  PROVE  p.type \in UInt(1)
<1>1. p.type \in Nat /\ p.type < 256
  BY DEF IsHeader
<1>2. QED
  BY <1>1, Powers, SMT DEF UInt

\* The bytes of a packet: the header around the length, then the body.
LEMMA PacketParts ==
  ASSUME NEW p, IsHeader(p), IsWritten(p)
  PROVE  LET a == Write(OSPFHeaderStart, p)
             b == Word(2, PacketSize(p))
             c == Write(OSPFHeaderRest, p)
             d == WritePacketBody(p)
         IN  /\ WritePacket(p) = a \o b \o c \o d
             /\ Fits(OSPFHeaderStart, p) /\ Fits(OSPFHeaderRest, p)
             /\ a \in Seq(Byte) /\ Len(a) = 2
             /\ b \in Seq(Byte) /\ Len(b) = 2
             /\ c \in Seq(Byte) /\ Len(c) = 12
             /\ d \in Seq(Byte) /\ PacketSize(p) = 16 + Len(d)
             /\ PacketSize(p) \in UInt(2)
<1>1. Fits(OSPFHeaderStart, p)
  BY PacketTypeFits, OSPFHeaderStartFits DEF IsHeader
<1>2. Fits(OSPFHeaderRest, p)
  BY OSPFHeaderRestFits DEF IsHeader
<1>3. Write(OSPFHeaderStart, p) \in Seq(Byte) /\ Len(Write(OSPFHeaderStart, p)) = 2
  BY <1>1, OSPFHeaderStartLayout, WriteLayout
<1>4. Write(OSPFHeaderRest, p) \in Seq(Byte) /\ Len(Write(OSPFHeaderRest, p)) = 12
  BY <1>2, OSPFHeaderRestLayout, WriteLayout
<1>5. WritePacketBody(p) \in Seq(Byte) /\ PacketSize(p) = 16 + Len(WritePacketBody(p))
  BY DEF IsWritten
<1>6. PacketSize(p) \in UInt(2)
  <2>1. PacketSize(p) \in Nat
    BY <1>5
  <2>2. QED
    BY <2>1, PowerType DEF IsWritten, UInt
<1>7. Word(2, PacketSize(p)) \in Seq(Byte) /\ Len(Word(2, PacketSize(p))) = 2
  BY <1>6, NumberHeld
<1>8. WritePacket(p) = Write(OSPFHeaderStart, p) \o Word(2, PacketSize(p))
                         \o Write(OSPFHeaderRest, p) \o WritePacketBody(p)
  BY DEF WritePacket
<1>9. QED
  BY <1>1, <1>2, <1>3, <1>4, <1>5, <1>6, <1>7, <1>8, Zenon

\* A packet is written in PacketSize bytes, and the length in the header says
\* so.
LEMMA PacketWritten ==
  ASSUME NEW p, IsHeader(p), IsWritten(p)
  PROVE  /\ WritePacket(p) \in Seq(Byte)
         /\ Len(WritePacket(p)) = PacketSize(p)
         /\ PacketSize(p) \in Nat
         /\ Holds(WritePacket(p), 0, Write(OSPFHeaderStart, p))
         /\ Holds(WritePacket(p), 2, Word(2, PacketSize(p)))
         /\ Holds(WritePacket(p), 4, Write(OSPFHeaderRest, p))
         /\ Holds(WritePacket(p), 16, WritePacketBody(p))
         /\ Number(WritePacket(p), 2, 2) = PacketSize(p)
<1> DEFINE a == Write(OSPFHeaderStart, p)
           b == Word(2, PacketSize(p))
           c == Write(OSPFHeaderRest, p)
           d == WritePacketBody(p)
<1>1. /\ WritePacket(p) = a \o b \o c \o d
      /\ a \in Seq(Byte) /\ Len(a) = 2
      /\ b \in Seq(Byte) /\ Len(b) = 2
      /\ c \in Seq(Byte) /\ Len(c) = 12
      /\ d \in Seq(Byte) /\ PacketSize(p) = 16 + Len(d)
      /\ PacketSize(p) \in UInt(2)
  BY PacketParts
<1> DEFINE y == a \o b \o c \o d
<1>2. /\ y \in Seq(Byte)
      /\ Len(y) = Len(a) + Len(b) + Len(c) + Len(d)
      /\ Holds(y, 0, a)
      /\ Holds(y, 0 + Len(a), b)
      /\ Holds(y, 0 + (Len(a) + Len(b)), c)
      /\ Holds(y, 0 + (Len(a) + Len(b) + Len(c)), d)
  <2> HIDE DEF a, b, c, d
  <2>1. a \in Seq(Byte) /\ b \in Seq(Byte) /\ c \in Seq(Byte) /\ d \in Seq(Byte)
    BY <1>1
  <2>2. y \in Seq(Byte) /\ Len(y) = Len(a) + Len(b) + Len(c) + Len(d)
    BY <2>1, FourParts
  <2>3. Holds(y, 0, y)
    <3> HIDE DEF y
    <3>1. QED
      BY <2>2, HoldsAll
  <2>4. \A s \in Seq(Byte) : \A at \in Nat : Holds(s, at, y) =>
          /\ Holds(s, at, a)
          /\ Holds(s, at + Len(a), b)
          /\ Holds(s, at + (Len(a) + Len(b)), c)
          /\ Holds(s, at + (Len(a) + Len(b) + Len(c)), d)
    BY <2>1, FourParts
  <2> HIDE DEF y
  <2>5. QED
    BY <2>2, <2>3, <2>4
<1>3. WritePacket(p) = y
  BY <1>1
<1> HIDE DEF a, b, c, d, y
<1>4. Len(d) \in Nat /\ y \in Seq(Byte) /\ Len(y) = PacketSize(p)
  BY <1>1, <1>2
<1>5. Holds(y, 0, a) /\ Holds(y, 2, b) /\ Holds(y, 4, c) /\ Holds(y, 16, d)
  BY <1>1, <1>2
<1>6. Number(y, 2, 2) = PacketSize(p)
  BY <1>1, <1>4, <1>5, NumberHeld DEF b
<1>7. /\ WritePacket(p) \in Seq(Byte)
      /\ Len(WritePacket(p)) = PacketSize(p)
      /\ PacketSize(p) \in Nat
      /\ Holds(WritePacket(p), 0, a)
      /\ Holds(WritePacket(p), 2, b)
      /\ Holds(WritePacket(p), 4, c)
      /\ Holds(WritePacket(p), 16, d)
      /\ Number(WritePacket(p), 2, 2) = PacketSize(p)
  BY <1>1, <1>3, <1>4, <1>5, <1>6
<1>8. QED
  BY <1>7 DEF a, b, c, d

\* The header is read as it was meant, with the length.
LEMMA HeaderRead ==
  ASSUME NEW p, IsHeader(p), IsWritten(p)
  PROVE  Read(OSPFHeader, WritePacket(p), 0) = HeaderOf(p)
<1> DEFINE s == WritePacket(p)
           h == HeaderOf(p)
<1>1. /\ s \in Seq(Byte)
      /\ Holds(s, 0, Write(OSPFHeaderStart, p))
      /\ Holds(s, 2, Word(2, PacketSize(p)))
      /\ Holds(s, 4, Write(OSPFHeaderRest, p))
  BY PacketWritten
<1>2. /\ h.version = p.version /\ h.type = p.type /\ h.length = PacketSize(p)
      /\ h.routerId = p.routerId /\ h.areaId = p.areaId /\ h.instanceId = p.instanceId
  BY DEF HeaderOf
<1>3. [name \in {"version", "type", "length", "routerId", "areaId", "instanceId"} |-> h[name]]
        = h
  BY DEF HeaderOf
<1> HIDE DEF s, h
<1>4. Fits(OSPFHeaderStart, p) /\ Fits(OSPFHeaderRest, p) /\ PacketSize(p) \in UInt(2)
  BY PacketParts
<1>5. HoldsFields(s, 0, OSPFHeaderStart, p) /\ HoldsFields(s, 4, OSPFHeaderRest, p)
  <2>1. IsLayout(OSPFHeaderStart) /\ IsLayout(OSPFHeaderRest) /\ 0 \in Nat /\ 4 \in Nat
    BY OSPFHeaderStartLayout, OSPFHeaderRestLayout
  <2>2. QED
    BY <1>1, <1>4, <2>1, FieldsHeld
<1>6. Holds(s, 0 + 0, Word(1, p.version)) /\ Holds(s, 0 + 1, Word(1, p.type))
  <2>1. 1 \in 1 .. 2 /\ 2 \in 1 .. 2
    OBVIOUS
  <2>2. QED
    BY <1>5, <2>1, OSPFHeaderStartFields, OSPFHeaderStartLayout DEF HoldsFields
<1>7. /\ Holds(s, 4 + 0, Word(4, p.routerId)) /\ Holds(s, 4 + 4, Word(4, p.areaId))
      /\ Holds(s, 4 + 10, Word(1, p.instanceId))
  <2>1. 1 \in 1 .. 5 /\ 2 \in 1 .. 5 /\ 4 \in 1 .. 5
    OBVIOUS
  <2>2. QED
    BY <1>5, <2>1, OSPFHeaderRestFields, OSPFHeaderRestLayout DEF HoldsFields
<1>8. HoldsFields(s, 0, OSPFHeader, h)
  <2>1. 1 .. 8 = {1, 2, 3, 4, 5, 6, 7, 8}
    OBVIOUS
  <2>2. ASSUME NEW i \in {1, 2, 3, 4, 5, 6, 7, 8}, Named(OSPFHeader, i)
        PROVE  Holds(s, 0 + Offset(OSPFHeader, i), Word(Bytes(OSPFHeader, i), h[Name(OSPFHeader, i)]))
    <3>1. /\ 0 + 2 = 2 /\ 0 + 4 = 4 + 0 /\ 0 + 8 = 4 + 4 /\ 0 + 14 = 4 + 10
      OBVIOUS
    <3>2. QED
      BY <1>1, <1>2, <1>6, <1>7, <2>2, <3>1, OSPFHeaderFields, OSPFHeaderLayout
  <2>3. QED
    BY <2>1, <2>2, OSPFHeaderFields DEF HoldsFields
<1>9. Fits(OSPFHeader, h)
  BY <1>2, <1>4, PacketTypeFits, OSPFHeaderFits DEF IsHeader
<1>10. Read(OSPFHeader, s, 0) = [name \in Members(OSPFHeader) |-> h[name]]
  <2>1. IsLayout(OSPFHeader) /\ 0 \in Nat
    BY OSPFHeaderLayout
  <2>2. QED
    BY <1>1, <1>8, <1>9, <2>1, ReadLayout
<1>11. QED
  BY <1>3, <1>10, OSPFHeaderLayout DEF s, h

-----------------------------------------------------------------------------
(* Items of one width                                                       *)

\* The number of items is computed from the length.
LEMMA ItemCount ==
  ASSUME NEW n \in Nat, NEW from \in Nat, NEW w \in {4, 12, 20}
  PROVE  (from + w * n - from) \div w = n
<1>1. (4 * n) \div 4 = n /\ (12 * n) \div 12 = n /\ (20 * n) \div 20 = n
  BY SMT
<1>2. from + w * n - from = w * n
  OBVIOUS
<1>3. QED
  BY <1>1, <1>2

\* A list is what was listed.
LEMMA ListedIs ==
  ASSUME NEW S, NEW q \in Seq(S)
  PROVE  [k \in 1 .. Len(q) |-> q[k]] \o <<>> = q
<1>1. [k \in 1 .. Len(q) |-> q[k]] = q
  OBVIOUS
<1>2. q \o <<>> = q
  OBVIOUS
<1>3. QED
  BY <1>1, <1>2

IdBytes(q) == [i \in DOMAIN q |-> Word(4, q[i])]
HeaderBytes(q) == [i \in DOMAIN q |-> Write(LSAHeader, q[i])]
RequestBytes(q) == [i \in DOMAIN q |-> Write(RequestItem, q[i])]

Requests == [type : UInt(2), id : UInt(4), advRtr : UInt(4)]

\* Each of ps has w bytes, and there are as many as in q.
AreItems(ps, w, q) ==
    /\ ps \in Seq(Seq(Byte))
    /\ Len(ps) = Len(q)
    /\ \A k \in 1 .. Len(ps) : Len(ps[k]) = w

\* Item k begins behind k - 1 others.
LEMMA ItemsWritten ==
  ASSUME NEW ps, NEW w \in Nat, NEW q, Len(q) \in Nat, AreItems(ps, w, q)
  PROVE  /\ FlattenSeq(ps) \in Seq(Byte)
         /\ Len(FlattenSeq(ps)) = w * Len(q)
         /\ \A s \in Seq(Byte) : \A at \in Nat : Holds(s, at, FlattenSeq(ps)) =>
               \A k \in 1 .. Len(q) : /\ at + w * (k - 1) \in Nat
                                      /\ Holds(s, at + w * (k - 1), ps[k])
<1>1. /\ ps \in Seq(Seq(Byte)) /\ Len(ps) = Len(q)
      /\ \A k \in 1 .. Len(ps) : Len(ps[k]) = w
  BY DEF AreItems
<1>2. FlattenSeq(ps) \in Seq(Byte) /\ Len(FlattenSeq(ps)) = w * Len(ps)
  BY <1>1, EqualParts
<1>3. ASSUME NEW s \in Seq(Byte), NEW at \in Nat, Holds(s, at, FlattenSeq(ps))
      PROVE  \A k \in 1 .. Len(ps) : /\ at + w * (k - 1) \in Nat
                                     /\ Holds(s, at + w * (k - 1), ps[k])
  BY <1>1, <1>3, EqualPartsHeld
<1>4. QED
  BY <1>1, <1>2, <1>3

\* Neighbours of a Hello.
LEMMA IdsWritten ==
  ASSUME NEW q \in Seq(UInt(4))
  PROVE  /\ FlattenSeq(IdBytes(q)) \in Seq(Byte)
         /\ Len(FlattenSeq(IdBytes(q))) = 4 * Len(q)
         /\ \A s \in Seq(Byte) : \A at \in Nat : Holds(s, at, FlattenSeq(IdBytes(q))) =>
               \A k \in 1 .. Len(q) : Number(s, at + 4 * (k - 1), 4) = q[k]
<1> DEFINE ps == IdBytes(q)
<1>1. Len(q) \in Nat /\ DOMAIN q = 1 .. Len(q) /\ \A k \in 1 .. Len(q) : q[k] \in UInt(4)
  OBVIOUS
<1>2. \A k \in 1 .. Len(q) : Word(4, q[k]) \in Seq(Byte) /\ Len(Word(4, q[k])) = 4
  BY <1>1, NumberHeld
<1>3. ps \in [1 .. Len(q) -> Seq(Byte)] /\ \A k \in 1 .. Len(q) : ps[k] = Word(4, q[k])
  BY <1>1, <1>2 DEF IdBytes
<1> HIDE DEF ps
<1>4. ps \in Seq(Seq(Byte)) /\ Len(ps) = Len(q)
  BY <1>1, <1>3, SequenceOf
<1>5. AreItems(ps, 4, q)
  BY <1>2, <1>3, <1>4 DEF AreItems
<1>6. /\ FlattenSeq(ps) \in Seq(Byte)
      /\ Len(FlattenSeq(ps)) = 4 * Len(q)
      /\ \A s \in Seq(Byte) : \A at \in Nat : Holds(s, at, FlattenSeq(ps)) =>
            \A k \in 1 .. Len(q) : /\ at + 4 * (k - 1) \in Nat
                                   /\ Holds(s, at + 4 * (k - 1), ps[k])
  BY <1>1, <1>5, ItemsWritten
<1>7. ASSUME NEW s \in Seq(Byte), NEW at \in Nat, Holds(s, at, FlattenSeq(ps)),
             NEW k \in 1 .. Len(q)
      PROVE  Number(s, at + 4 * (k - 1), 4) = q[k]
  <2>1. at + 4 * (k - 1) \in Nat /\ Holds(s, at + 4 * (k - 1), Word(4, q[k]))
    BY <1>3, <1>6, <1>7
  <2>2. QED
    BY <1>1, <2>1, NumberHeld
<1>8. QED
  BY <1>6, <1>7 DEF ps

\* An LSA header is read as it was written.
LEMMA HeaderItem ==
  ASSUME NEW hdr \in Headers
  PROVE  /\ Write(LSAHeader, hdr) \in Seq(Byte)
         /\ Len(Write(LSAHeader, hdr)) = 20
         /\ \A s \in Seq(Byte) : \A at \in Nat : Holds(s, at, Write(LSAHeader, hdr)) =>
               Read(LSAHeader, s, at) = hdr
<1>1. Fits(LSAHeader, hdr) /\ IsLayout(LSAHeader)
  BY LSAHeaderFits, LSAHeaderLayout DEF Headers
<1>2. Write(LSAHeader, hdr) \in Seq(Byte) /\ Len(Write(LSAHeader, hdr)) = 20
  BY <1>1, LSAHeaderLayout, WriteLayout
<1>3. [name \in Members(LSAHeader) |-> hdr[name]] = hdr
  BY LSAHeaderLayout DEF Headers
<1>4. ASSUME NEW s \in Seq(Byte), NEW at \in Nat, Holds(s, at, Write(LSAHeader, hdr))
      PROVE  Read(LSAHeader, s, at) = hdr
  <2>1. Read(LSAHeader, s, at) = [name \in Members(LSAHeader) |-> hdr[name]]
    BY <1>1, <1>4, MembersRead
  <2>2. QED
    BY <1>3, <2>1
<1>5. QED
  BY <1>2, <1>4

\* Headers of a Database Description or an acknowledgment.
LEMMA HeadersWritten ==
  ASSUME NEW q \in Seq(Headers)
  PROVE  /\ FlattenSeq(HeaderBytes(q)) \in Seq(Byte)
         /\ Len(FlattenSeq(HeaderBytes(q))) = 20 * Len(q)
         /\ \A s \in Seq(Byte) : \A at \in Nat : Holds(s, at, FlattenSeq(HeaderBytes(q))) =>
               \A k \in 1 .. Len(q) : Read(LSAHeader, s, at + 20 * (k - 1)) = q[k]
<1> DEFINE ps == HeaderBytes(q)
<1>1. Len(q) \in Nat /\ DOMAIN q = 1 .. Len(q) /\ \A k \in 1 .. Len(q) : q[k] \in Headers
  OBVIOUS
<1>2. \A k \in 1 .. Len(q) : /\ Write(LSAHeader, q[k]) \in Seq(Byte)
                             /\ Len(Write(LSAHeader, q[k])) = 20
  BY <1>1, HeaderItem
<1>3. /\ ps \in [1 .. Len(q) -> Seq(Byte)]
      /\ \A k \in 1 .. Len(q) : ps[k] = Write(LSAHeader, q[k])
  BY <1>1, <1>2 DEF HeaderBytes
<1> HIDE DEF ps
<1>4. ps \in Seq(Seq(Byte)) /\ Len(ps) = Len(q)
  BY <1>1, <1>3, SequenceOf
<1>5. AreItems(ps, 20, q)
  BY <1>2, <1>3, <1>4 DEF AreItems
<1>6. /\ FlattenSeq(ps) \in Seq(Byte)
      /\ Len(FlattenSeq(ps)) = 20 * Len(q)
      /\ \A s \in Seq(Byte) : \A at \in Nat : Holds(s, at, FlattenSeq(ps)) =>
            \A k \in 1 .. Len(q) : /\ at + 20 * (k - 1) \in Nat
                                   /\ Holds(s, at + 20 * (k - 1), ps[k])
  BY <1>1, <1>5, ItemsWritten
<1>7. ASSUME NEW s \in Seq(Byte), NEW at \in Nat, Holds(s, at, FlattenSeq(ps)),
             NEW k \in 1 .. Len(q)
      PROVE  Read(LSAHeader, s, at + 20 * (k - 1)) = q[k]
  <2>1. at + 20 * (k - 1) \in Nat /\ Holds(s, at + 20 * (k - 1), Write(LSAHeader, q[k]))
    BY <1>3, <1>6, <1>7
  <2>2. QED
    BY <1>1, <2>1, HeaderItem
<1>8. QED
  BY <1>6, <1>7 DEF ps

\* The arguments of the call are evaluated from the left.
LEMMA RequestWritten ==
  ASSUME NEW r \in Requests
  PROVE  /\ Write(RequestItem, r) \in Seq(Byte)
         /\ Len(Write(RequestItem, r)) = 12
         /\ \A s \in Seq(Byte) : \A at \in Nat : Holds(s, at, Write(RequestItem, r)) =>
               ReadIdentifier(s, at, "left") = r
<1>1. Fits(RequestItem, r) /\ IsLayout(RequestItem)
  BY RequestItemFits, RequestItemLayout DEF Requests
<1>2. Write(RequestItem, r) \in Seq(Byte) /\ Len(Write(RequestItem, r)) = 12
  BY <1>1, RequestItemLayout, WriteLayout
<1>3. ASSUME NEW s \in Seq(Byte), NEW at \in Nat, Holds(s, at, Write(RequestItem, r))
      PROVE  ReadIdentifier(s, at, "left") = r
  <2>1. HoldsFields(s, at, RequestItem, r)
    BY <1>1, <1>3, FieldsHeld
  <2>2. /\ Holds(s, at + 2, Word(2, r.type)) /\ Holds(s, at + 4, Word(4, r.id))
        /\ Holds(s, at + 8, Word(4, r.advRtr))
    <3>1. 2 \in 1 .. 4 /\ 3 \in 1 .. 4 /\ 4 \in 1 .. 4
      OBVIOUS
    <3>2. QED
      BY <2>1, <3>1, RequestItemFields, RequestItemLayout DEF HoldsFields
  <2>3. at + 2 \in Nat /\ at + 4 \in Nat /\ at + 8 \in Nat
    OBVIOUS
  <2>4. r.type \in UInt(2) /\ r.id \in UInt(4) /\ r.advRtr \in UInt(4)
    BY DEF Requests
  <2>5. /\ Number(s, at + 2, 2) = r.type /\ Number(s, at + 4, 4) = r.id
        /\ Number(s, at + 8, 4) = r.advRtr
    BY <2>2, <2>3, <2>4, NumberHeld
  <2>6. ReadIdentifier(s, at, "left") = [type |-> r.type, id |-> r.id, advRtr |-> r.advRtr]
    BY <2>5 DEF ReadIdentifier
  <2>7. QED
    BY <2>6 DEF Requests
<1>4. QED
  BY <1>2, <1>3

\* Identifiers of a request.
LEMMA RequestsWritten ==
  ASSUME NEW q \in Seq(Requests)
  PROVE  /\ FlattenSeq(RequestBytes(q)) \in Seq(Byte)
         /\ Len(FlattenSeq(RequestBytes(q))) = 12 * Len(q)
         /\ \A s \in Seq(Byte) : \A at \in Nat : Holds(s, at, FlattenSeq(RequestBytes(q))) =>
               \A k \in 1 .. Len(q) : ReadIdentifier(s, at + 12 * (k - 1), "left") = q[k]
<1> DEFINE ps == RequestBytes(q)
<1>1. Len(q) \in Nat /\ DOMAIN q = 1 .. Len(q) /\ \A k \in 1 .. Len(q) : q[k] \in Requests
  OBVIOUS
<1>2. \A k \in 1 .. Len(q) : /\ Write(RequestItem, q[k]) \in Seq(Byte)
                             /\ Len(Write(RequestItem, q[k])) = 12
  BY <1>1, RequestWritten
<1>3. /\ ps \in [1 .. Len(q) -> Seq(Byte)]
      /\ \A k \in 1 .. Len(q) : ps[k] = Write(RequestItem, q[k])
  BY <1>1, <1>2 DEF RequestBytes
<1> HIDE DEF ps
<1>4. ps \in Seq(Seq(Byte)) /\ Len(ps) = Len(q)
  BY <1>1, <1>3, SequenceOf
<1>5. AreItems(ps, 12, q)
  BY <1>2, <1>3, <1>4 DEF AreItems
<1>6. /\ FlattenSeq(ps) \in Seq(Byte)
      /\ Len(FlattenSeq(ps)) = 12 * Len(q)
      /\ \A s \in Seq(Byte) : \A at \in Nat : Holds(s, at, FlattenSeq(ps)) =>
            \A k \in 1 .. Len(q) : /\ at + 12 * (k - 1) \in Nat
                                   /\ Holds(s, at + 12 * (k - 1), ps[k])
  BY <1>1, <1>5, ItemsWritten
<1>7. ASSUME NEW s \in Seq(Byte), NEW at \in Nat, Holds(s, at, FlattenSeq(ps)),
             NEW k \in 1 .. Len(q)
      PROVE  ReadIdentifier(s, at + 12 * (k - 1), "left") = q[k]
  <2>1. at + 12 * (k - 1) \in Nat /\ Holds(s, at + 12 * (k - 1), Write(RequestItem, q[k]))
    BY <1>3, <1>6, <1>7
  <2>2. QED
    BY <1>1, <2>1, RequestWritten
<1>8. QED
  BY <1>6, <1>7 DEF ps

-----------------------------------------------------------------------------
(* Packets                                                                  *)

HelloPackets ==
    {p \in [version : UInt(1), type : {OSPF_TYPE_HELLO}, length : UInt(2),
            routerId : UInt(4), areaId : UInt(4), instanceId : UInt(1),
            interfaceId : UInt(4), routerPriority : UInt(1), options : UInt(3),
            helloInterval : UInt(2), routerDeadInterval : UInt(2),
            designatedRouterId : UInt(4), backupDesignatedRouterId : UInt(4),
            items : Seq(UInt(4))] : PacketSize(p) < Power(2)}

DDPackets ==
    {p \in [version : UInt(1), type : {OSPF_TYPE_DATABASE_DESCRIPTION},
            length : UInt(2), routerId : UInt(4), areaId : UInt(4),
            instanceId : UInt(1), options : UInt(4), mtu : UInt(2),
            initFlag : {0, 1}, moreFlag : {0, 1}, masterFlag : {0, 1},
            ddSeqNum : UInt(4), items : Seq(Headers)] : PacketSize(p) < Power(2)}

ItemPackets(type, S) ==
    {p \in [version : UInt(1), type : {type}, length : UInt(2), routerId : UInt(4),
            areaId : UInt(4), instanceId : UInt(1), items : Seq(S)] :
       PacketSize(p) < Power(2)}

RequestPackets == ItemPackets(OSPF_TYPE_LINK_STATE_REQUEST, Requests)
UpdatePackets == ItemPackets(OSPF_TYPE_LINK_STATE_UPDATE, LSARecords)
AckPackets == ItemPackets(OSPF_TYPE_LINK_STATE_ACK, Headers)

\* The types of packets.
LEMMA PacketTypes ==
  /\ OSPF_TYPE_HELLO = 1 /\ OSPF_TYPE_DATABASE_DESCRIPTION = 2
  /\ OSPF_TYPE_LINK_STATE_REQUEST = 3 /\ OSPF_TYPE_LINK_STATE_UPDATE = 4
  /\ OSPF_TYPE_LINK_STATE_ACK = 5
  BY DEF OSPF_TYPE_HELLO, OSPF_TYPE_DATABASE_DESCRIPTION,
         OSPF_TYPE_LINK_STATE_REQUEST, OSPF_TYPE_LINK_STATE_UPDATE,
         OSPF_TYPE_LINK_STATE_ACK

\* OSPFHello::Serialize writes GetSerializedSize bytes: the members, then the
\* neighbours.
LEMMA HelloWritten ==
  ASSUME NEW p \in HelloPackets
  PROVE  /\ IsHeader(p) /\ IsWritten(p) /\ p.type = 1
         /\ p.items \in Seq(UInt(4))
         /\ PacketSize(p) = 36 + 4 * Len(p.items)
         /\ Write(Hello, p) \in Seq(Byte) /\ Len(Write(Hello, p)) = 20
         /\ Fits(Hello, p)
         /\ WritePacketBody(p) = Write(Hello, p) \o FlattenSeq(IdBytes(p.items))
<1>1. p.type = 1 /\ p.items \in Seq(UInt(4)) /\ PacketSize(p) < Power(2)
  BY PacketTypes DEF HelloPackets
<1>2. IsHeader(p)
  BY <1>1 DEF HelloPackets, IsHeader
<1>3. Fits(Hello, p)
  BY HelloFits DEF HelloPackets
<1>4. Write(Hello, p) \in Seq(Byte) /\ Len(Write(Hello, p)) = 20
  BY <1>3, HelloLayout, WriteLayout
<1>5. WritePacketBody(p) = Write(Hello, p) \o FlattenSeq(IdBytes(p.items))
  BY <1>1, PacketTypes DEF WritePacketBody, IdBytes
<1>6. PacketSize(p) = 36 + 4 * Len(p.items)
  <2>1. PacketSize(p) = 16 + (20 + 4 * Len(p.items))
    BY <1>1, PacketTypes, OSPFHeaderLayout, HelloLayout DEF PacketSize
  <2> DEFINE n == Len(p.items)
  <2>2. n \in Nat
    BY <1>1
  <2> HIDE DEF n
  <2>3. QED
    BY <2>1, <2>2 DEF n
<1>7. IsWritten(p)
  <2> DEFINE a == Write(Hello, p)
             b == FlattenSeq(IdBytes(p.items))
             n == Len(p.items)
  <2>1. /\ a \in Seq(Byte) /\ Len(a) = 20
        /\ b \in Seq(Byte) /\ Len(b) = 4 * n /\ n \in Nat
        /\ WritePacketBody(p) = a \o b
        /\ PacketSize(p) = 36 + 4 * n
    BY <1>1, <1>4, <1>5, <1>6, IdsWritten
  <2> HIDE DEF a, b, n
  <2>2. a \o b \in Seq(Byte) /\ Len(a \o b) = 20 + 4 * n
    BY <2>1, HoldsConcat
  <2>3. QED
    BY <1>1, <2>1, <2>2 DEF IsWritten
<1>8. QED
  BY <1>1, <1>2, <1>3, <1>4, <1>5, <1>6, <1>7

\* A packet is read as it was meant.
AsMeant(g, p) ==
    /\ DOMAIN g = DOMAIN p
    /\ \A f \in DOMAIN p \ {"length", "items"} : g[f] = p[f]
    /\ IF p.type # OSPF_TYPE_LINK_STATE_UPDATE
       THEN g.items = p.items
       ELSE /\ Len(g.items) = Len(p.items)
            /\ \A i \in DOMAIN p.items :
                  /\ Told(g.items[i]) = Told(p.items[i])
                  /\ g.items[i].hdr.age = p.items[i].hdr.age

HeaderMembers == {"version", "type", "length", "routerId", "areaId", "instanceId"}

\* The members of the class are added to those of the header.
LEMMA ReadJoined ==
  ASSUME NEW p, IsHeader(p), IsWritten(p), NEW b, NEW order,
         ReadPacketBody(HeaderOf(p), WritePacket(p), order) = b,
         DOMAIN p = HeaderMembers \cup DOMAIN b,
         DOMAIN b \cap HeaderMembers = {}
  PROVE  LET g == ReadPacket(WritePacket(p), order)
         IN  /\ DOMAIN g = DOMAIN p
             /\ \A f \in HeaderMembers \ {"length"} : g[f] = p[f]
             /\ \A f \in DOMAIN b : g[f] = b[f]
<1> DEFINE g == ReadPacket(WritePacket(p), order)
           h == HeaderOf(p)
<1>1. g = Joined(h, b)
  BY HeaderRead DEF ReadPacket
<1>2. /\ DOMAIN h = HeaderMembers
      /\ \A f \in HeaderMembers \ {"length"} : h[f] = p[f]
  BY DEF HeaderOf, HeaderMembers
<1> HIDE DEF g, h
<1>3. g = [f \in DOMAIN h \cup DOMAIN b |-> IF f \in DOMAIN h THEN h[f] ELSE b[f]]
  BY <1>1, JoinedIs
<1>4. DOMAIN g = DOMAIN p
  BY <1>2, <1>3
<1>5. \A f \in HeaderMembers \ {"length"} : g[f] = p[f]
  BY <1>2, <1>3
<1>6. \A f \in DOMAIN b : g[f] = b[f]
  BY <1>2, <1>3
<1>7. QED
  BY <1>4, <1>5, <1>6 DEF g

HelloMembers == {"interfaceId", "routerPriority", "options", "helloInterval",
                 "routerDeadInterval", "designatedRouterId",
                 "backupDesignatedRouterId"}

\* OSPFHello::Deserialize reads the members and counts the neighbours by the
\* length.
LEMMA HelloBody ==
  ASSUME NEW p \in HelloPackets, NEW order
  PROVE  ReadPacketBody(HeaderOf(p), WritePacket(p), order)
           = [f \in HelloMembers \cup {"items"} |-> p[f]]
<1> DEFINE s == WritePacket(p)
           h == HeaderOf(p)
           n == Len(p.items)
           listed == [k \in 1 .. (h.length - 36) \div 4 |-> Number(s, 36 + 4 * (k - 1), 4)]
           r == Read(Hello, s, 16)
           a == [items |-> p.items]
<1>1. /\ s \in Seq(Byte) /\ Holds(s, 16, WritePacketBody(p))
      /\ h.type = 1 /\ h.length = 36 + 4 * n
      /\ p.items \in Seq(UInt(4)) /\ n \in Nat
  BY PacketWritten, HelloWritten DEF HeaderOf
<1>2. Holds(s, 16, Write(Hello, p)) /\ Holds(s, 36, FlattenSeq(IdBytes(p.items)))
  <2> HIDE DEF s, h
  <2> DEFINE x == Write(Hello, p)
             y == FlattenSeq(IdBytes(p.items))
  <2>1. x \in Seq(Byte) /\ Len(x) = 20 /\ y \in Seq(Byte) /\ WritePacketBody(p) = x \o y
    BY <1>1, HelloWritten, IdsWritten
  <2> HIDE DEF x, y
  <2>2. Holds(s, 16, x) /\ Holds(s, 16 + Len(x), y)
    BY <1>1, <2>1, HoldsBoth
  <2>3. QED
    BY <2>1, <2>2 DEF x, y
<1>3. r = [name \in HelloMembers |-> p[name]]
  <2> HIDE DEF s, h
  <2>1. IsLayout(Hello) /\ Fits(Hello, p) /\ 16 \in Nat
    BY HelloLayout, HelloWritten
  <2>2. r = [name \in Members(Hello) |-> p[name]]
    BY <1>1, <1>2, <2>1, MembersRead
  <2>3. QED
    BY <2>2, HelloLayout DEF HelloMembers
<1>4. listed \o <<>> = p.items
  <2> HIDE DEF s
  <2>1. (h.length - 36) \div 4 = n
    <3> HIDE DEF h, n
    <3>1. (36 + 4 * n - 36) \div 4 = n
      BY <1>1, ItemCount
    <3>2. QED
      BY <1>1, <3>1
  <2>2. \A k \in 1 .. n : Number(s, 36 + 4 * (k - 1), 4) = p.items[k]
    BY <1>1, <1>2, IdsWritten
  <2> HIDE DEF h
  <2>3. listed = [k \in 1 .. n |-> p.items[k]]
    BY <2>1, <2>2
  <2> HIDE DEF listed
  <2>4. QED
    BY <1>1, <2>3, ListedIs
<1>5. ReadPacketBody(h, s, order) = Joined(r, [items |-> listed \o <<>>])
  <2> HIDE DEF s, h
  <2>1. QED
    BY <1>1, PacketTypes, OSPFHeaderLayout, HelloLayout DEF ReadPacketBody, Listed
<1> HIDE DEF s, h, n, listed, r
<1>6. ReadPacketBody(h, s, order) = Joined(r, a)
  BY <1>4, <1>5
<1>7. DOMAIN r = HelloMembers /\ DOMAIN a = {"items"} /\ "items" \notin HelloMembers
  BY <1>3 DEF HelloMembers
<1>8. Joined(r, a) = [f \in DOMAIN r \cup DOMAIN a |-> IF f \in DOMAIN r THEN r[f] ELSE a[f]]
  <2> HIDE DEF a
  <2>1. QED
    BY JoinedIs
<1>9. \A f \in HelloMembers \cup {"items"} :
         (IF f \in DOMAIN r THEN r[f] ELSE a[f]) = p[f]
  <2>1. \A f \in HelloMembers : r[f] = p[f]
    BY <1>3
  <2>2. QED
    BY <1>7, <2>1
<1>10. Joined(r, a) = [f \in HelloMembers \cup {"items"} |-> p[f]]
  <2> HIDE DEF a
  <2>1. QED
    BY <1>7, <1>8, <1>9
<1>11. QED
  BY <1>6, <1>10 DEF s, h

\* A Hello is read as it was meant.
LEMMA HelloRead ==
  ASSUME NEW p \in HelloPackets, NEW order
  PROVE  AsMeant(ReadPacket(WritePacket(p), order), p)
<1> DEFINE g == ReadPacket(WritePacket(p), order)
           b == [f \in HelloMembers \cup {"items"} |-> p[f]]
<1>1. ReadPacketBody(HeaderOf(p), WritePacket(p), order) = b
  BY HelloBody
<1>2. IsHeader(p) /\ IsWritten(p) /\ p.type = 1
  BY HelloWritten
<1>3. /\ DOMAIN b = HelloMembers \cup {"items"}
      /\ \A f \in HelloMembers \cup {"items"} : b[f] = p[f]
  OBVIOUS
<1>4. DOMAIN p = HeaderMembers \cup (HelloMembers \cup {"items"})
  BY DEF HelloPackets, HeaderMembers, HelloMembers
<1>5. (HelloMembers \cup {"items"}) \cap HeaderMembers = {}
  BY DEF HeaderMembers, HelloMembers
<1> HIDE DEF b
<1>6. /\ DOMAIN g = DOMAIN p
      /\ \A f \in HeaderMembers \ {"length"} : g[f] = p[f]
      /\ \A f \in DOMAIN b : g[f] = b[f]
  BY <1>1, <1>2, <1>3, <1>4, <1>5, ReadJoined
<1> HIDE DEF g
<1>7. \A f \in DOMAIN p \ {"length", "items"} : g[f] = p[f]
  BY <1>3, <1>4, <1>6
<1>8. g.items = p.items
  BY <1>3, <1>6
<1>9. p.type # OSPF_TYPE_LINK_STATE_UPDATE
  BY <1>2, PacketTypes
<1>10. QED
  BY <1>6, <1>7, <1>8, <1>9 DEF AsMeant, g

\* The record that is written: with the flags in one member.
WithFlags(p) ==
    [f \in DOMAIN p \cup {"flags"} |-> IF f = "flags" THEN Flags(p) ELSE p[f]]

\* The three flags in one number.
LEMMA FlagBits ==
  ASSUME NEW i \in {0, 1}, NEW m \in {0, 1}, NEW k \in {0, 1}
  PROVE  LET v == 4 * i + 2 * m + k
         IN  /\ v \in Nat /\ v < 8
             /\ (v \div 4) % 2 = i /\ (v \div 2) % 2 = m /\ v % 2 = k
  BY SMT

\* OSPFDatabaseDescription::Serialize writes GetSerializedSize bytes: the
\* members, then the headers.
LEMMA DDWritten ==
  ASSUME NEW p \in DDPackets
  PROVE  /\ IsHeader(p) /\ IsWritten(p) /\ p.type = 2
         /\ p.items \in Seq(Headers)
         /\ PacketSize(p) = 28 + 20 * Len(p.items)
         /\ Fits(DatabaseDescription, WithFlags(p))
         /\ Write(DatabaseDescription, WithFlags(p)) \in Seq(Byte)
         /\ Len(Write(DatabaseDescription, WithFlags(p))) = 12
         /\ WritePacketBody(p) = Write(DatabaseDescription, WithFlags(p))
                                   \o FlattenSeq(HeaderBytes(p.items))
<1> DEFINE r == WithFlags(p)
<1>1. p.type = 2 /\ p.items \in Seq(Headers) /\ PacketSize(p) < Power(2)
  BY PacketTypes DEF DDPackets
<1>2. IsHeader(p)
  BY <1>1 DEF DDPackets, IsHeader
<1>3. /\ r.options = p.options /\ r.mtu = p.mtu /\ r.ddSeqNum = p.ddSeqNum
      /\ r.flags = Flags(p)
  BY DEF WithFlags, DDPackets
<1>4. Flags(p) \in UInt(2)
  <2>1. p.initFlag \in {0, 1} /\ p.moreFlag \in {0, 1} /\ p.masterFlag \in {0, 1}
    BY DEF DDPackets
  <2>2. Flags(p) \in Nat /\ Flags(p) < 8
    BY <2>1, FlagBits DEF Flags
  <2>3. QED
    BY <2>2, Powers, SMT DEF UInt
<1> HIDE DEF r
<1>5. Fits(DatabaseDescription, r)
  <2>1. p.options \in UInt(4) /\ p.mtu \in UInt(2) /\ p.ddSeqNum \in UInt(4)
    BY DEF DDPackets
  <2>2. QED
    BY <1>3, <1>4, <2>1, DatabaseDescriptionFits
<1>6. /\ Write(DatabaseDescription, r) \in Seq(Byte)
      /\ Len(Write(DatabaseDescription, r)) = 12
  BY <1>5, DatabaseDescriptionLayout, WriteLayout
<1>7. WritePacketBody(p) = Write(DatabaseDescription, r) \o FlattenSeq(HeaderBytes(p.items))
  BY <1>1, PacketTypes DEF WritePacketBody, HeaderBytes, r, WithFlags
<1>8. PacketSize(p) = 28 + 20 * Len(p.items)
  <2>1. PacketSize(p) = 16 + (12 + 20 * Len(p.items))
    BY <1>1, PacketTypes, OSPFHeaderLayout, DatabaseDescriptionLayout, LSAHeaderLayout
       DEF PacketSize
  <2> DEFINE n == Len(p.items)
  <2>2. n \in Nat
    BY <1>1
  <2> HIDE DEF n
  <2>3. QED
    BY <2>1, <2>2 DEF n
<1>9. IsWritten(p)
  <2> DEFINE a == Write(DatabaseDescription, r)
             b == FlattenSeq(HeaderBytes(p.items))
             n == Len(p.items)
  <2>1. /\ a \in Seq(Byte) /\ Len(a) = 12
        /\ b \in Seq(Byte) /\ Len(b) = 20 * n /\ n \in Nat
        /\ WritePacketBody(p) = a \o b
        /\ PacketSize(p) = 28 + 20 * n
    BY <1>1, <1>6, <1>7, <1>8, HeadersWritten
  <2> HIDE DEF a, b, n
  <2>2. a \o b \in Seq(Byte) /\ Len(a \o b) = 12 + 20 * n
    BY <2>1, HoldsConcat
  <2>3. QED
    BY <1>1, <2>1, <2>2 DEF IsWritten
<1>10. QED
  BY <1>1, <1>2, <1>5, <1>6, <1>7, <1>8, <1>9 DEF r

DDMembers == {"options", "mtu", "ddSeqNum", "initFlag", "moreFlag", "masterFlag",
              "items"}

\* OSPFDatabaseDescription::Deserialize takes the flags apart and counts the
\* headers by the length.
LEMMA DDBody ==
  ASSUME NEW p \in DDPackets, NEW order
  PROVE  ReadPacketBody(HeaderOf(p), WritePacket(p), order)
           = [f \in DDMembers |-> p[f]]
<1> DEFINE s == WritePacket(p)
           h == HeaderOf(p)
           n == Len(p.items)
           listed == [k \in 1 .. (h.length - 28) \div 20 |-> Read(LSAHeader, s, 28 + 20 * (k - 1))]
           dd == Read(DatabaseDescription, s, 16)
           w == WithFlags(p)
<1>1. /\ s \in Seq(Byte) /\ Holds(s, 16, WritePacketBody(p))
      /\ h.type = 2 /\ h.length = 28 + 20 * n
      /\ p.items \in Seq(Headers) /\ n \in Nat
  BY PacketWritten, DDWritten DEF HeaderOf
<1>2. /\ Holds(s, 16, Write(DatabaseDescription, w))
      /\ Holds(s, 28, FlattenSeq(HeaderBytes(p.items)))
  <2> HIDE DEF s, h
  <2> DEFINE x == Write(DatabaseDescription, w)
             y == FlattenSeq(HeaderBytes(p.items))
  <2>1. x \in Seq(Byte) /\ Len(x) = 12 /\ y \in Seq(Byte) /\ WritePacketBody(p) = x \o y
    BY <1>1, DDWritten, HeadersWritten
  <2> HIDE DEF x, y
  <2>2. Holds(s, 16, x) /\ Holds(s, 16 + Len(x), y)
    BY <1>1, <2>1, HoldsBoth
  <2>3. QED
    BY <2>1, <2>2 DEF x, y
<1>3. dd = [name \in {"options", "mtu", "flags", "ddSeqNum"} |-> w[name]]
  <2> HIDE DEF s, h, w
  <2>1. IsLayout(DatabaseDescription) /\ Fits(DatabaseDescription, w) /\ 16 \in Nat
    BY DatabaseDescriptionLayout, DDWritten DEF w
  <2>2. dd = [name \in Members(DatabaseDescription) |-> w[name]]
    BY <1>1, <1>2, <2>1, MembersRead
  <2>3. QED
    BY <2>2, DatabaseDescriptionLayout
<1>4. /\ dd.options = p.options /\ dd.mtu = p.mtu /\ dd.ddSeqNum = p.ddSeqNum
      /\ dd.flags = Flags(p)
  <2>1. /\ w.options = p.options /\ w.mtu = p.mtu /\ w.ddSeqNum = p.ddSeqNum
        /\ w.flags = Flags(p)
    BY DEF WithFlags, DDPackets
  <2> HIDE DEF dd, w
  <2>2. QED
    BY <1>3, <2>1
<1>5. /\ (dd.flags \div 4) % 2 = p.initFlag
      /\ (dd.flags \div 2) % 2 = p.moreFlag
      /\ dd.flags % 2 = p.masterFlag
  <2>1. p.initFlag \in {0, 1} /\ p.moreFlag \in {0, 1} /\ p.masterFlag \in {0, 1}
    BY DEF DDPackets
  <2>2. /\ (Flags(p) \div 4) % 2 = p.initFlag
        /\ (Flags(p) \div 2) % 2 = p.moreFlag
        /\ Flags(p) % 2 = p.masterFlag
    BY <2>1, FlagBits DEF Flags
  <2> HIDE DEF dd
  <2>3. QED
    BY <1>4, <2>2
<1>6. listed \o <<>> = p.items
  <2> HIDE DEF s
  <2>1. (h.length - 28) \div 20 = n
    <3> HIDE DEF h, n
    <3>1. (28 + 20 * n - 28) \div 20 = n
      BY <1>1, ItemCount
    <3>2. QED
      BY <1>1, <3>1
  <2>2. \A k \in 1 .. n : Read(LSAHeader, s, 28 + 20 * (k - 1)) = p.items[k]
    BY <1>1, <1>2, HeadersWritten
  <2> HIDE DEF h
  <2>3. listed = [k \in 1 .. n |-> p.items[k]]
    BY <2>1, <2>2
  <2> HIDE DEF listed
  <2>4. QED
    BY <1>1, <2>3, ListedIs
<1>7. ReadPacketBody(h, s, order)
        = [options |-> dd.options, mtu |-> dd.mtu, ddSeqNum |-> dd.ddSeqNum,
           initFlag |-> (dd.flags \div 4) % 2, moreFlag |-> (dd.flags \div 2) % 2,
           masterFlag |-> dd.flags % 2, items |-> listed \o <<>>]
  <2> HIDE DEF s, h
  <2>1. QED
    BY <1>1, PacketTypes, OSPFHeaderLayout, DatabaseDescriptionLayout, LSAHeaderLayout
       DEF ReadPacketBody, Listed
<1> HIDE DEF s, h, n, listed, dd
<1>8. ReadPacketBody(h, s, order)
        = [options |-> p.options, mtu |-> p.mtu, ddSeqNum |-> p.ddSeqNum,
           initFlag |-> p.initFlag, moreFlag |-> p.moreFlag,
           masterFlag |-> p.masterFlag, items |-> p.items]
  BY <1>4, <1>5, <1>6, <1>7
<1>9. [options |-> p.options, mtu |-> p.mtu, ddSeqNum |-> p.ddSeqNum,
       initFlag |-> p.initFlag, moreFlag |-> p.moreFlag,
       masterFlag |-> p.masterFlag, items |-> p.items] = [f \in DDMembers |-> p[f]]
  BY DEF DDMembers
<1>10. QED
  BY <1>8, <1>9 DEF s, h

\* A Database Description is read as it was meant.
LEMMA DDRead ==
  ASSUME NEW p \in DDPackets, NEW order
  PROVE  AsMeant(ReadPacket(WritePacket(p), order), p)
<1> DEFINE g == ReadPacket(WritePacket(p), order)
           b == [f \in DDMembers |-> p[f]]
<1>1. ReadPacketBody(HeaderOf(p), WritePacket(p), order) = b
  BY DDBody
<1>2. IsHeader(p) /\ IsWritten(p) /\ p.type = 2
  BY DDWritten
<1>3. DOMAIN b = DDMembers /\ \A f \in DDMembers : b[f] = p[f]
  OBVIOUS
<1>4. DOMAIN p = HeaderMembers \cup DDMembers
  BY DEF DDPackets, HeaderMembers, DDMembers
<1>5. DDMembers \cap HeaderMembers = {} /\ "items" \in DDMembers
  BY DEF HeaderMembers, DDMembers
<1> HIDE DEF b
<1>6. /\ DOMAIN g = DOMAIN p
      /\ \A f \in HeaderMembers \ {"length"} : g[f] = p[f]
      /\ \A f \in DOMAIN b : g[f] = b[f]
  BY <1>1, <1>2, <1>3, <1>4, <1>5, ReadJoined
<1> HIDE DEF g
<1>7. \A f \in DOMAIN p \ {"length", "items"} : g[f] = p[f]
  BY <1>3, <1>4, <1>6
<1>8. g.items = p.items
  BY <1>3, <1>5, <1>6
<1>9. p.type # OSPF_TYPE_LINK_STATE_UPDATE
  BY <1>2, PacketTypes
<1>10. QED
  BY <1>6, <1>7, <1>8, <1>9 DEF AsMeant, g

\* Requests and acknowledgments: only items follow the header.
LEMMA ItemPacketParts ==
  ASSUME NEW type \in 1 .. 5, NEW S, NEW p \in ItemPackets(type, S)
  PROVE  /\ IsHeader(p) /\ p.type = type
         /\ p.items \in Seq(S) /\ Len(p.items) \in Nat
         /\ PacketSize(p) < Power(2)
         /\ DOMAIN p = HeaderMembers \cup {"items"}
<1>1. /\ p \in [version : UInt(1), type : {type}, length : UInt(2), routerId : UInt(4),
                areaId : UInt(4), instanceId : UInt(1), items : Seq(S)]
      /\ PacketSize(p) < Power(2)
  BY DEF ItemPackets
<1>2. IsHeader(p)
  BY <1>1 DEF IsHeader
<1>3. DOMAIN p = HeaderMembers \cup {"items"}
  BY <1>1 DEF HeaderMembers
<1>4. QED
  BY <1>1, <1>2, <1>3

\* OSPFLinkStateRequest::Serialize writes GetSerializedSize bytes.
LEMMA RequestPacketWritten ==
  ASSUME NEW p \in RequestPackets
  PROVE  /\ IsHeader(p) /\ IsWritten(p) /\ p.type = 3
         /\ p.items \in Seq(Requests) /\ Len(p.items) \in Nat
         /\ DOMAIN p = HeaderMembers \cup {"items"}
         /\ PacketSize(p) = 16 + 12 * Len(p.items)
         /\ WritePacketBody(p) = FlattenSeq(RequestBytes(p.items))
<1>1. /\ IsHeader(p) /\ p.type = 3 /\ p.items \in Seq(Requests) /\ Len(p.items) \in Nat
      /\ PacketSize(p) < Power(2) /\ DOMAIN p = HeaderMembers \cup {"items"}
  <2>1. OSPF_TYPE_LINK_STATE_REQUEST \in 1 .. 5
    BY PacketTypes
  <2>2. p \in ItemPackets(OSPF_TYPE_LINK_STATE_REQUEST, Requests)
    BY DEF RequestPackets
  <2>3. QED
    BY <2>1, <2>2, PacketTypes, ItemPacketParts
<1>2. WritePacketBody(p) = FlattenSeq(RequestBytes(p.items))
  BY <1>1, PacketTypes DEF WritePacketBody, RequestBytes
<1>3. PacketSize(p) = 16 + 12 * Len(p.items)
  BY <1>1, PacketTypes, OSPFHeaderLayout, RequestItemLayout DEF PacketSize
<1>4. /\ FlattenSeq(RequestBytes(p.items)) \in Seq(Byte)
      /\ Len(FlattenSeq(RequestBytes(p.items))) = 12 * Len(p.items)
  BY <1>1, RequestsWritten
<1>5. IsWritten(p)
  BY <1>1, <1>2, <1>3, <1>4 DEF IsWritten
<1>6. QED
  BY <1>1, <1>2, <1>3, <1>5

\* A request is read as it was meant, by a compiler that evaluates arguments
\* from the left.
LEMMA RequestPacketRead ==
  ASSUME NEW p \in RequestPackets
  PROVE  AsMeant(ReadPacket(WritePacket(p), "left"), p)
<1> DEFINE s == WritePacket(p)
           h == HeaderOf(p)
           n == Len(p.items)
           listed == [k \in 1 .. (h.length - 16) \div 12 |->
                      ReadIdentifier(s, 16 + 12 * (k - 1), "left")]
           b == [items |-> p.items]
           g == ReadPacket(s, "left")
<1>1. /\ s \in Seq(Byte) /\ Holds(s, 16, FlattenSeq(RequestBytes(p.items)))
      /\ h.type = 3 /\ h.length = 16 + 12 * n
      /\ p.items \in Seq(Requests) /\ n \in Nat
  BY PacketWritten, RequestPacketWritten DEF HeaderOf
<1>2. listed \o <<>> = p.items
  <2> HIDE DEF s
  <2>1. (h.length - 16) \div 12 = n
    <3> HIDE DEF h, n
    <3>1. (16 + 12 * n - 16) \div 12 = n
      BY <1>1, ItemCount
    <3>2. QED
      BY <1>1, <3>1
  <2>2. \A k \in 1 .. n : ReadIdentifier(s, 16 + 12 * (k - 1), "left") = p.items[k]
    BY <1>1, RequestsWritten
  <2> HIDE DEF h
  <2>3. listed = [k \in 1 .. n |-> p.items[k]]
    BY <2>1, <2>2
  <2> HIDE DEF listed
  <2>4. QED
    BY <1>1, <2>3, ListedIs
<1>3. ReadPacketBody(h, s, "left") = [items |-> listed \o <<>>]
  <2> HIDE DEF s, h
  <2>1. QED
    BY <1>1, PacketTypes, OSPFHeaderLayout, RequestItemLayout DEF ReadPacketBody, Listed
<1> HIDE DEF listed
<1>4. ReadPacketBody(HeaderOf(p), WritePacket(p), "left") = b
  BY <1>2, <1>3
<1>5. DOMAIN b = {"items"} /\ b["items"] = p.items
  OBVIOUS
<1>6. {"items"} \cap HeaderMembers = {}
  BY DEF HeaderMembers
<1> HIDE DEF b
<1>7. /\ DOMAIN g = DOMAIN p
      /\ \A f \in HeaderMembers \ {"length"} : g[f] = p[f]
      /\ \A f \in DOMAIN b : g[f] = b[f]
  BY <1>4, <1>5, <1>6, RequestPacketWritten, ReadJoined
<1> HIDE DEF g
<1>8. \A f \in DOMAIN p \ {"length", "items"} : g[f] = p[f]
  BY <1>7, RequestPacketWritten
<1>9. g.items = p.items
  BY <1>5, <1>7
<1>10. p.type # OSPF_TYPE_LINK_STATE_UPDATE
  BY RequestPacketWritten, PacketTypes
<1>11. QED
  BY <1>7, <1>8, <1>9, <1>10 DEF AsMeant, g

\* OSPFLinkStateAck::Serialize writes GetSerializedSize bytes.
LEMMA AckPacketWritten ==
  ASSUME NEW p \in AckPackets
  PROVE  /\ IsHeader(p) /\ IsWritten(p) /\ p.type = 5
         /\ p.items \in Seq(Headers) /\ Len(p.items) \in Nat
         /\ DOMAIN p = HeaderMembers \cup {"items"}
         /\ PacketSize(p) = 16 + 20 * Len(p.items)
         /\ WritePacketBody(p) = FlattenSeq(HeaderBytes(p.items))
<1>1. /\ IsHeader(p) /\ p.type = 5 /\ p.items \in Seq(Headers) /\ Len(p.items) \in Nat
      /\ PacketSize(p) < Power(2) /\ DOMAIN p = HeaderMembers \cup {"items"}
  <2>1. OSPF_TYPE_LINK_STATE_ACK \in 1 .. 5
    BY PacketTypes
  <2>2. p \in ItemPackets(OSPF_TYPE_LINK_STATE_ACK, Headers)
    BY DEF AckPackets
  <2>3. QED
    BY <2>1, <2>2, PacketTypes, ItemPacketParts
<1>2. WritePacketBody(p) = FlattenSeq(HeaderBytes(p.items))
  BY <1>1, PacketTypes DEF WritePacketBody, HeaderBytes
<1>3. PacketSize(p) = 16 + 20 * Len(p.items)
  BY <1>1, PacketTypes, OSPFHeaderLayout, LSAHeaderLayout DEF PacketSize
<1>4. /\ FlattenSeq(HeaderBytes(p.items)) \in Seq(Byte)
      /\ Len(FlattenSeq(HeaderBytes(p.items))) = 20 * Len(p.items)
  BY <1>1, HeadersWritten
<1>5. IsWritten(p)
  BY <1>1, <1>2, <1>3, <1>4 DEF IsWritten
<1>6. QED
  BY <1>1, <1>2, <1>3, <1>5

\* An acknowledgment is read as it was meant.
LEMMA AckPacketRead ==
  ASSUME NEW p \in AckPackets, NEW order
  PROVE  AsMeant(ReadPacket(WritePacket(p), order), p)
<1> DEFINE s == WritePacket(p)
           h == HeaderOf(p)
           n == Len(p.items)
           listed == [k \in 1 .. (h.length - 16) \div 20 |->
                      Read(LSAHeader, s, 16 + 20 * (k - 1))]
           b == [items |-> p.items]
           g == ReadPacket(s, order)
<1>1. /\ s \in Seq(Byte) /\ Holds(s, 16, FlattenSeq(HeaderBytes(p.items)))
      /\ h.type = 5 /\ h.length = 16 + 20 * n
      /\ p.items \in Seq(Headers) /\ n \in Nat
  BY PacketWritten, AckPacketWritten DEF HeaderOf
<1>2. listed \o <<>> = p.items
  <2> HIDE DEF s
  <2>1. (h.length - 16) \div 20 = n
    <3> HIDE DEF h, n
    <3>1. (16 + 20 * n - 16) \div 20 = n
      BY <1>1, ItemCount
    <3>2. QED
      BY <1>1, <3>1
  <2>2. \A k \in 1 .. n : Read(LSAHeader, s, 16 + 20 * (k - 1)) = p.items[k]
    BY <1>1, HeadersWritten
  <2> HIDE DEF h
  <2>3. listed = [k \in 1 .. n |-> p.items[k]]
    BY <2>1, <2>2
  <2> HIDE DEF listed
  <2>4. QED
    BY <1>1, <2>3, ListedIs
<1>3. ReadPacketBody(h, s, order) = [items |-> listed \o <<>>]
  <2> HIDE DEF s, h
  <2>1. QED
    BY <1>1, PacketTypes, OSPFHeaderLayout, LSAHeaderLayout DEF ReadPacketBody, Listed
<1> HIDE DEF listed
<1>4. ReadPacketBody(HeaderOf(p), WritePacket(p), order) = b
  BY <1>2, <1>3
<1>5. DOMAIN b = {"items"} /\ b["items"] = p.items
  OBVIOUS
<1>6. {"items"} \cap HeaderMembers = {}
  BY DEF HeaderMembers
<1> HIDE DEF b
<1>7. /\ DOMAIN g = DOMAIN p
      /\ \A f \in HeaderMembers \ {"length"} : g[f] = p[f]
      /\ \A f \in DOMAIN b : g[f] = b[f]
  BY <1>4, <1>5, <1>6, AckPacketWritten, ReadJoined
<1> HIDE DEF g
<1>8. \A f \in DOMAIN p \ {"length", "items"} : g[f] = p[f]
  BY <1>7, AckPacketWritten
<1>9. g.items = p.items
  BY <1>5, <1>7
<1>10. p.type # OSPF_TYPE_LINK_STATE_UPDATE
  BY AckPacketWritten, PacketTypes
<1>11. QED
  BY <1>7, <1>8, <1>9, <1>10 DEF AsMeant, g

\* OSPFLinkStateUpdate::Serialize writes GetSerializedSize bytes: how many, then
\* the LSAs.
LEMMA UpdatePacketWritten ==
  ASSUME NEW p \in UpdatePackets
  PROVE  /\ IsHeader(p) /\ IsWritten(p) /\ p.type = 4
         /\ p.items \in Seq(LSARecords) /\ Len(p.items) \in UInt(4)
         /\ DOMAIN p = HeaderMembers \cup {"items"}
         /\ PacketSize(p) = 20 + Total(LSASizes(p.items))
         /\ WritePacketBody(p) = Word(4, Len(p.items)) \o FlattenSeq(LSABytes(p.items))
<1> DEFINE n == Len(p.items)
           total == Total(LSASizes(p.items))
           w == Word(4, Len(p.items))
           y == FlattenSeq(LSABytes(p.items))
<1>1. /\ IsHeader(p) /\ p.type = 4 /\ p.items \in Seq(LSARecords) /\ n \in Nat
      /\ PacketSize(p) < Power(2) /\ DOMAIN p = HeaderMembers \cup {"items"}
  <2>1. OSPF_TYPE_LINK_STATE_UPDATE \in 1 .. 5
    BY PacketTypes
  <2>2. p \in ItemPackets(OSPF_TYPE_LINK_STATE_UPDATE, LSARecords)
    BY DEF UpdatePackets
  <2>3. QED
    BY <2>1, <2>2, PacketTypes, ItemPacketParts
<1>2. WritePacketBody(p) = w \o y
  BY <1>1, PacketTypes DEF WritePacketBody, LSABytes
<1>3. total \in Nat /\ y \in Seq(Byte) /\ Len(y) = total
  BY <1>1, UpdateWritten
<1>4. PacketSize(p) = 20 + total
  <2>1. PacketSize(p) = 16 + (4 + total)
    BY <1>1, PacketTypes, OSPFHeaderLayout DEF PacketSize, LSASizes
  <2> HIDE DEF total
  <2>2. QED
    BY <1>3, <2>1
<1>5. n <= total
  <2> DEFINE ns == LSASizes(p.items)
  <2>1. ns \in Seq(Nat) /\ Len(ns) = n /\ \A k \in 1 .. n : ns[k] = LSASize(p.items[k])
    BY <1>1, UpdateParts
  <2>2. \A k \in 1 .. n : LSASize(p.items[k]) >= 24 /\ LSASize(p.items[k]) \in Nat
    BY <1>1, RecordParts
  <2> HIDE DEF ns
  <2>3. \A k \in 1 .. n : ns[k] >= 1
    BY <2>1, <2>2
  <2>4. Len(ns) <= Total(ns)
    BY <2>1, <2>3, CountBound
  <2>5. QED
    BY <2>1, <2>4 DEF ns
<1> HIDE DEF total, n
<1>6. n \in UInt(4)
  <2>1. n < Power(2)
    BY <1>1, <1>3, <1>4, <1>5, PowerType
  <2>2. QED
    BY <1>1, <2>1, Powers, SMT DEF UInt
<1>7. w \in Seq(Byte) /\ Len(w) = 4
  BY <1>6, NumberHeld DEF n
<1>8. IsWritten(p)
  <2> HIDE DEF w, y
  <2>1. w \o y \in Seq(Byte) /\ Len(w \o y) = 4 + total
    BY <1>3, <1>7, HoldsConcat
  <2>2. QED
    BY <1>1, <1>2, <1>3, <1>4, <2>1 DEF IsWritten
<1>9. QED
  BY <1>1, <1>2, <1>4, <1>6, <1>8 DEF n, total

\* An update is read as it was meant, LSA by LSA.
LEMMA UpdateItems ==
  ASSUME NEW p \in UpdatePackets, NEW order
  PROVE  /\ AsMeant(ReadPacket(WritePacket(p), order), p)
         /\ ReadPacket(WritePacket(p), order).items
              = [k \in 1 .. Len(p.items) |-> Arrived(p.items[k])]
<1> DEFINE s == WritePacket(p)
           h == HeaderOf(p)
           n == Len(p.items)
           arrived == [k \in 1 .. n |-> Arrived(p.items[k])]
           b == [items |-> arrived]
           g == ReadPacket(s, order)
<1>1. /\ s \in Seq(Byte) /\ Holds(s, 16, WritePacketBody(p))
      /\ h.type = 4
      /\ p.items \in Seq(LSARecords) /\ n \in UInt(4)
  BY PacketWritten, UpdatePacketWritten DEF HeaderOf
<1>2. Number(s, 16, 4) = n /\ Holds(s, 20, FlattenSeq(LSABytes(p.items)))
  <2> DEFINE x == Word(4, n)
             y == FlattenSeq(LSABytes(p.items))
  <2> HIDE DEF s, h
  <2>1. x \in Seq(Byte) /\ Len(x) = 4 /\ y \in Seq(Byte) /\ WritePacketBody(p) = x \o y
    BY <1>1, UpdatePacketWritten, NumberHeld, UpdateWritten
  <2> HIDE DEF x, y, n
  <2>2. Holds(s, 16, x) /\ Holds(s, 16 + Len(x), y)
    BY <1>1, <2>1, HoldsBoth
  <2>3. Holds(s, 16, x) /\ Holds(s, 20, y)
    BY <2>1, <2>2
  <2>4. Number(s, 16, 4) = n
    BY <1>1, <2>3, NumberHeld DEF x
  <2>5. QED
    BY <2>3, <2>4 DEF y
<1>3. ReadLSAs(s, 20, n) = arrived
  <2> HIDE DEF s
  <2>1. QED
    BY <1>1, <1>2, UpdateRead
<1>4. ReadPacketBody(h, s, order) = [items |-> ReadLSAs(s, 20, Number(s, 16, 4))]
  <2> HIDE DEF s, h
  <2>1. QED
    BY <1>1, PacketTypes, OSPFHeaderLayout DEF ReadPacketBody
<1>5. n \in Nat /\ \A k \in 1 .. n : p.items[k] \in LSARecords
  BY <1>1
<1>6. DOMAIN p.items = 1 .. n
  BY <1>1
<1> HIDE DEF n
<1>7. /\ arrived \in Seq(LSARecords) /\ Len(arrived) = n
      /\ \A k \in 1 .. n : /\ Told(arrived[k]) = Told(p.items[k])
                           /\ arrived[k].hdr.age = p.items[k].hdr.age
  <2>1. arrived \in [1 .. n -> LSARecords]
    BY <1>5, ArrivedIs
  <2>2. \A k \in 1 .. n : arrived[k] = Arrived(p.items[k])
    OBVIOUS
  <2> HIDE DEF arrived
  <2>3. QED
    BY <1>5, <2>1, <2>2, SequenceOf, ArrivedIs
<1> HIDE DEF arrived
<1>8. ReadPacketBody(HeaderOf(p), WritePacket(p), order) = b
  BY <1>2, <1>3, <1>4
<1>9. DOMAIN b = {"items"} /\ b["items"] = arrived
  OBVIOUS
<1>10. {"items"} \cap HeaderMembers = {}
  BY DEF HeaderMembers
<1> HIDE DEF b
<1>11. /\ DOMAIN g = DOMAIN p
       /\ \A f \in HeaderMembers \ {"length"} : g[f] = p[f]
       /\ \A f \in DOMAIN b : g[f] = b[f]
  BY <1>8, <1>9, <1>10, UpdatePacketWritten, ReadJoined
<1> HIDE DEF g
<1>12. \A f \in DOMAIN p \ {"length", "items"} : g[f] = p[f]
  BY <1>11, UpdatePacketWritten
<1>13. g.items = arrived
  BY <1>9, <1>11
<1>14. p.type = OSPF_TYPE_LINK_STATE_UPDATE
  BY UpdatePacketWritten, PacketTypes
<1>15. AsMeant(g, p)
  BY <1>6, <1>7, <1>11, <1>12, <1>13, <1>14 DEF AsMeant, n
<1>16. QED
  BY <1>13, <1>15 DEF arrived, g, n

-----------------------------------------------------------------------------
(* Lists of LSAs that tell the same                                         *)

\* A part of the numbers, as they come or from behind, adds up to no more.
LEMMA PartOfSum ==
  ASSUME NEW ns \in Seq(Nat), NEW ms \in Seq(Nat), NEW o \in Nat,
         o + Len(ms) <= Len(ns), \A k \in 1 .. Len(ms) : ms[k] = ns[o + k]
  PROVE  /\ Total(ms) <= Total(ns)
         /\ o = 0 /\ Len(ms) = Len(ns) => Total(ms) = Total(ns)
<1>1. PICK t : IsSums(t, ns)
  BY SumsExist
<1> DEFINE n == Len(ns)
           m == Len(ms)
           u == [k \in 0 .. m |-> t[o + k] - t[o]]
<1>2. n \in Nat /\ m \in Nat /\ o + m <= n
  OBVIOUS
<1>3. /\ t[0] = 0 /\ \A k \in 0 .. n : t[k] \in Nat
      /\ \A k \in 1 .. n : t[k] = t[k - 1] + ns[k]
  BY <1>1 DEF IsSums
<1>4. \A k \in 0 .. m : u[k] = t[o + k] - t[o] /\ u[k] \in Nat
  <2>1. ASSUME NEW k \in 0 .. m PROVE u[k] = t[o + k] - t[o] /\ u[k] \in Nat
    <3>1. o \in 0 .. n /\ o + k \in 0 .. n /\ o <= o + k
      BY <1>2
    <3>2. t[o] \in Nat /\ t[o + k] \in Nat /\ t[o] <= t[o + k]
      BY <1>1, <3>1, SumsGrow
    <3>3. QED
      BY <3>2
  <2>2. QED
    BY <2>1
<1>5. ASSUME NEW k \in 1 .. m PROVE u[k] = u[k - 1] + ms[k]
  <2> DEFINE j == o + k
             i == k - 1
  <2>1. /\ k \in 0 .. m /\ i \in 0 .. m /\ j \in 1 .. n /\ o \in 0 .. n
        /\ j - 1 \in 0 .. n /\ o + i = j - 1
    BY <1>2
  <2>2. ns[j] = ms[k]
    OBVIOUS
  <2> HIDE DEF u, i, j
  <2>3. ns[j] \in Nat
    BY <2>1
  <2>4. u[k] = t[j] - t[o] /\ u[i] = t[j - 1] - t[o]
    <3>1. u[k] = t[o + k] - t[o]
      BY <1>4, <2>1
    <3>2. QED
      BY <1>4, <2>1, <3>1 DEF j
  <2>5. t[j] = t[j - 1] + ns[j]
    BY <1>3, <2>1
  <2>6. t[j - 1] \in Nat /\ t[o] \in Nat
    BY <1>3, <2>1
  <2>9. \A a, b, c \in Nat : (a + b) - c = (a - c) + b
    OBVIOUS
  <2>7. u[k] = u[i] + ms[k]
    <3>1. (t[j - 1] + ns[j]) - t[o] = (t[j - 1] - t[o]) + ns[j]
      BY <2>3, <2>6, <2>9
    <3>2. QED
      BY <2>2, <2>4, <2>5, <3>1, Zenon
  <2>8. QED
    BY <2>7 DEF i
<1>6. u[0] = 0
  <2>1. u[0] = t[o + 0] - t[o] /\ o + 0 = o
    BY <1>2, <1>4
  <2>2. t[o] \in Nat
    BY <1>2, <1>3
  <2> HIDE DEF u
  <2>3. QED
    BY <2>1, <2>2
<1>7. IsSums(u, ms)
  <2>1. u \in [0 .. m -> Nat]
    BY <1>4
  <2> HIDE DEF u
  <2>2. QED
    BY <1>5, <1>6, <2>1 DEF IsSums
<1>8. Total(ms) = u[m] /\ Total(ns) = t[n]
  <2> HIDE DEF u
  <2>1. QED
    BY <1>1, <1>7, TotalIsSum
<1>9. /\ u[m] = t[o + m] - t[o] /\ t[o] \in Nat
      /\ t[o + m] \in Nat /\ t[n] \in Nat /\ t[o + m] <= t[n]
  <2>1. m \in 0 .. m /\ o \in 0 .. n /\ o + m \in 0 .. n /\ n \in 0 .. n
    BY <1>2
  <2>2. t[o + m] <= t[n]
    BY <1>1, <1>2, <2>1, SumsGrow
  <2>3. QED
    BY <1>3, <1>4, <2>1, <2>2
<1>10. o = 0 /\ m = n => t[o + m] = t[n] /\ t[o] = 0
  BY <1>2, <1>3
<1> HIDE DEF u
<1>11. Total(ms) <= Total(ns) /\ (o = 0 /\ m = n => Total(ms) = Total(ns))
  BY <1>8, <1>9, <1>10
<1>12. QED
  BY <1>11

\* The same of a part from behind.
LEMMA PartOfSumReversed ==
  ASSUME NEW ns \in Seq(Nat), NEW ms \in Seq(Nat), NEW o \in Nat,
         Len(ms) <= o, o <= Len(ns), \A k \in 1 .. Len(ms) : ms[k] = ns[o + 1 - k]
  PROVE  /\ Total(ms) <= Total(ns)
         /\ o = Len(ms) /\ o = Len(ns) => Total(ms) = Total(ns)
<1>1. PICK t : IsSums(t, ns)
  BY SumsExist
<1> DEFINE n == Len(ns)
           m == Len(ms)
           u == [k \in 0 .. m |-> t[o] - t[o - k]]
<1>2. n \in Nat /\ m \in Nat /\ m <= o /\ o <= n
  OBVIOUS
<1>3. /\ t[0] = 0 /\ \A k \in 0 .. n : t[k] \in Nat
      /\ \A k \in 1 .. n : t[k] = t[k - 1] + ns[k]
  BY <1>1 DEF IsSums
<1>4. \A k \in 0 .. m : u[k] = t[o] - t[o - k] /\ u[k] \in Nat
  <2>1. ASSUME NEW k \in 0 .. m PROVE u[k] = t[o] - t[o - k] /\ u[k] \in Nat
    <3>1. o \in 0 .. n /\ o - k \in 0 .. n /\ o - k <= o
      BY <1>2
    <3>2. t[o] \in Nat /\ t[o - k] \in Nat /\ t[o - k] <= t[o]
      BY <1>1, <3>1, SumsGrow
    <3>3. QED
      BY <3>2
  <2>2. QED
    BY <2>1
<1>5. ASSUME NEW k \in 1 .. m PROVE u[k] = u[k - 1] + ms[k]
  <2> DEFINE j == o + 1 - k
  <2>1. k \in 0 .. m /\ k - 1 \in 0 .. m /\ j \in 1 .. n /\ o \in 0 .. n
    BY <1>2
  <2>2. u[k] = t[o] - t[o - k] /\ u[k - 1] = t[o] - t[o - (k - 1)]
    BY <1>4, <2>1
  <2>3. o - (k - 1) = j /\ o - k = j - 1 /\ j \in 0 .. n /\ j - 1 \in 0 .. n
    BY <1>2
  <2>9. ns[j] = ms[k]
    OBVIOUS
  <2> HIDE DEF u, j
  <2>4. ns[j] \in Nat
    BY <2>1
  <2>5. t[j] = t[j - 1] + ns[j]
    BY <1>3, <2>1
  <2>6. t[j] \in Nat /\ t[j - 1] \in Nat /\ t[o] \in Nat
    BY <1>3, <2>1, <2>3
  <2>7. u[k] = t[o] - t[j - 1] /\ u[k - 1] = t[o] - t[j]
    BY <2>2, <2>3
  <2>10. \A a, b, c \in Nat : c - a = (c - (a + b)) + b
    OBVIOUS
  <2>11. t[o] - t[j - 1] = (t[o] - (t[j - 1] + ns[j])) + ns[j]
    BY <2>4, <2>6, <2>10
  <2>8. QED
    BY <2>5, <2>7, <2>9, <2>11, Zenon
<1>6. u[0] = 0
  <2>1. u[0] = t[o] - t[o - 0] /\ o - 0 = o
    BY <1>2, <1>4
  <2>2. t[o] \in Nat
    BY <1>2, <1>3
  <2> HIDE DEF u
  <2>3. QED
    BY <2>1, <2>2
<1>7. IsSums(u, ms)
  <2>1. u \in [0 .. m -> Nat]
    BY <1>4
  <2> HIDE DEF u
  <2>2. QED
    BY <1>5, <1>6, <2>1 DEF IsSums
<1>8. Total(ms) = u[m] /\ Total(ns) = t[n]
  <2> HIDE DEF u
  <2>1. QED
    BY <1>1, <1>7, TotalIsSum
<1>9. /\ u[m] = t[o] - t[o - m] /\ t[o] \in Nat
      /\ t[o - m] \in Nat /\ t[n] \in Nat /\ t[o] <= t[n]
  <2>1. m \in 0 .. m /\ o \in 0 .. n /\ o - m \in 0 .. n /\ n \in 0 .. n
    BY <1>2
  <2>2. t[o] <= t[n]
    BY <1>1, <1>2, <2>1, SumsGrow
  <2>3. QED
    BY <1>3, <1>4, <2>1, <2>2
<1>10. o = m /\ o = n => t[o - m] = 0 /\ t[o] = t[n]
  BY <1>2, <1>3
<1> HIDE DEF u
<1>11. Total(ms) <= Total(ns) /\ (o = m /\ o = n => Total(ms) = Total(ns))
  BY <1>8, <1>9, <1>10
<1>12. QED
  BY <1>11

\* Numbers that are at least 24.
LEMMA SumAtLeast ==
  ASSUME NEW ns \in Seq(Nat), \A k \in 1 .. Len(ns) : ns[k] >= 24
  PROVE  24 * Len(ns) <= Total(ns)
<1>1. PICK t : IsSums(t, ns)
  BY SumsExist
<1> DEFINE n == Len(ns)
           S == {k \in 0 .. n : 24 * k <= t[k]}
<1>2. n \in Nat
  OBVIOUS
<1>3. /\ t[0] = 0 /\ \A k \in 0 .. n : t[k] \in Nat
      /\ \A k \in 1 .. n : t[k] = t[k - 1] + ns[k]
  BY <1>1 DEF IsSums
<1>4. 0 \in S
  BY <1>2, <1>3
<1>5. ASSUME NEW k \in 0 .. n, k \in S, k < n PROVE k + 1 \in S
  <2> DEFINE j == k + 1
  <2>1. j \in 1 .. n /\ j \in 0 .. n /\ j - 1 = k
    BY <1>2, <1>5
  <2>2. 24 * k <= t[k]
    BY <1>5
  <2>3. 24 * j = 24 * k + 24
    BY <1>2
  <2> HIDE DEF j
  <2>4. t[j] = t[k] + ns[j] /\ ns[j] \in Nat /\ ns[j] >= 24 /\ t[k] \in Nat
    BY <1>3, <2>1
  <2>5. 24 * j <= t[j]
    BY <2>2, <2>3, <2>4
  <2>6. QED
    BY <2>1, <2>5 DEF j
<1>6. 0 .. n \subseteq S
  <2> HIDE DEF S
  <2>1. QED
    BY <1>2, <1>4, <1>5, IntervalInduction
<1>7. 24 * n <= t[n]
  BY <1>2, <1>6
<1>8. QED
  BY <1>1, <1>7, TotalIsSum

-----------------------------------------------------------------------------
\* The LSAs of a tell what those of b behind the first o tell, in their order.
Follows(a, b, o) ==
    /\ o + Len(a) <= Len(b)
    /\ \A i \in 1 .. Len(a) : Told(a[i]) = Told(b[o + i])

\* The LSAs of a tell what those of b up to the one at o tell, from behind.
Turned(a, b, o) ==
    /\ Len(a) <= o /\ o <= Len(b)
    /\ \A i \in 1 .. Len(a) : Told(a[i]) = Told(b[o + 1 - i])

\* The LSAs of a tell what those of b tell, in the same or in the other order.
Agree(a, b) ==
    /\ Len(a) = Len(b)
    /\ Follows(a, b, 0) \/ Turned(a, b, Len(b))

Distinct(a) ==
    \A i, j \in 1 .. Len(a) :
       Identifier(a[i].hdr) = Identifier(a[j].hdr) => i = j

\* SizeOf is the sum of the sizes, of which none is below 24.
LEMMA SizeOfIs ==
  ASSUME NEW a \in Seq(LSARecords)
  PROVE  /\ LSASizes(a) \in Seq(Nat) /\ Len(LSASizes(a)) = Len(a)
         /\ \A k \in 1 .. Len(a) : LSASizes(a)[k] = LSASize(a[k])
         /\ SizeOf(a) = Total(LSASizes(a))
         /\ SizeOf(a) \in Nat
         /\ 24 * Len(a) <= SizeOf(a)
<1> DEFINE ns == LSASizes(a)
<1>1. /\ ns \in Seq(Nat) /\ Len(ns) = Len(a)
      /\ \A k \in 1 .. Len(a) : ns[k] = LSASize(a[k])
  BY UpdateParts
<1>2. SizeOf(a) = Total(ns)
  BY DEF SizeOf, LSASizes
<1>3. \A k \in 1 .. Len(a) : a[k] \in LSARecords
  OBVIOUS
<1>4. \A k \in 1 .. Len(a) : LSASize(a[k]) >= 24
  BY <1>3, RecordParts
<1> HIDE DEF ns
<1>5. 24 * Len(ns) <= Total(ns)
  <2>1. \A k \in 1 .. Len(ns) : ns[k] >= 24
    BY <1>1, <1>4
  <2>2. QED
    BY <1>1, <2>1, SumAtLeast
<1>6. Total(ns) \in Nat
  BY <1>1, TotalType
<1>7. QED
  BY <1>1, <1>2, <1>5, <1>6 DEF ns

\* A part of a list is no larger, and all of it as large.
LEMMA FollowsSize ==
  ASSUME NEW a \in Seq(LSARecords), NEW b \in Seq(LSARecords), NEW o \in Nat,
         Follows(a, b, o)
  PROVE  /\ SizeOf(a) <= SizeOf(b)
         /\ o = 0 /\ Len(a) = Len(b) => SizeOf(a) = SizeOf(b)
<1> DEFINE ms == LSASizes(a)
           ns == LSASizes(b)
<1>1. /\ ms \in Seq(Nat) /\ Len(ms) = Len(a) /\ SizeOf(a) = Total(ms)
      /\ \A k \in 1 .. Len(a) : ms[k] = LSASize(a[k])
  BY SizeOfIs
<1>2. /\ ns \in Seq(Nat) /\ Len(ns) = Len(b) /\ SizeOf(b) = Total(ns)
      /\ \A k \in 1 .. Len(b) : ns[k] = LSASize(b[k])
  BY SizeOfIs
<1> HIDE DEF ms, ns
<1>3. o + Len(ms) <= Len(ns)
  BY <1>1, <1>2 DEF Follows
<1>4. ASSUME NEW k \in 1 .. Len(ms) PROVE ms[k] = ns[o + k]
  <2> DEFINE j == o + k
  <2>1. k \in 1 .. Len(a) /\ j \in 1 .. Len(b) /\ Told(a[k]) = Told(b[j])
    BY <1>1, <1>2, <1>3 DEF Follows
  <2> HIDE DEF j
  <2>2. a[k] \in LSARecords /\ b[j] \in LSARecords
    BY <2>1
  <2>3. LSASize(a[k]) = LSASize(b[j])
    BY <2>1, <2>2, ToldSame
  <2>4. ms[k] = ns[j]
    BY <1>1, <1>2, <2>1, <2>3
  <2>5. QED
    BY <2>4 DEF j
<1>5. /\ Total(ms) <= Total(ns)
      /\ o = 0 /\ Len(ms) = Len(ns) => Total(ms) = Total(ns)
  BY <1>1, <1>2, <1>3, <1>4, PartOfSum
<1>6. QED
  BY <1>1, <1>2, <1>5

\* From behind as well.
LEMMA TurnedSize ==
  ASSUME NEW a \in Seq(LSARecords), NEW b \in Seq(LSARecords), NEW o \in Nat,
         Turned(a, b, o)
  PROVE  /\ SizeOf(a) <= SizeOf(b)
         /\ o = Len(a) /\ o = Len(b) => SizeOf(a) = SizeOf(b)
<1> DEFINE ms == LSASizes(a)
           ns == LSASizes(b)
<1>1. /\ ms \in Seq(Nat) /\ Len(ms) = Len(a) /\ SizeOf(a) = Total(ms)
      /\ \A k \in 1 .. Len(a) : ms[k] = LSASize(a[k])
  BY SizeOfIs
<1>2. /\ ns \in Seq(Nat) /\ Len(ns) = Len(b) /\ SizeOf(b) = Total(ns)
      /\ \A k \in 1 .. Len(b) : ns[k] = LSASize(b[k])
  BY SizeOfIs
<1> HIDE DEF ms, ns
<1>3. Len(ms) <= o /\ o <= Len(ns)
  BY <1>1, <1>2 DEF Turned
<1>4. ASSUME NEW k \in 1 .. Len(ms) PROVE ms[k] = ns[o + 1 - k]
  <2> DEFINE j == o + 1 - k
  <2>1. k \in 1 .. Len(a) /\ j \in 1 .. Len(b) /\ Told(a[k]) = Told(b[j])
    BY <1>1, <1>2, <1>3 DEF Turned
  <2> HIDE DEF j
  <2>2. a[k] \in LSARecords /\ b[j] \in LSARecords
    BY <2>1
  <2>3. LSASize(a[k]) = LSASize(b[j])
    BY <2>1, <2>2, ToldSame
  <2>4. ms[k] = ns[j]
    BY <1>1, <1>2, <2>1, <2>3
  <2>5. QED
    BY <2>4 DEF j
<1>5. /\ Total(ms) <= Total(ns)
      /\ o = Len(ms) /\ o = Len(ns) => Total(ms) = Total(ns)
  BY <1>1, <1>2, <1>3, <1>4, PartOfSumReversed
<1>6. QED
  BY <1>1, <1>2, <1>5

\* What lists that agree have in common.
LEMMA AgreeSame ==
  ASSUME NEW a \in Seq(LSARecords), NEW b \in Seq(LSARecords), Agree(a, b)
  PROVE  /\ SizeOf(a) = SizeOf(b)
         /\ ToldAll(a) = ToldAll(b)
         /\ Distinct(b) => Distinct(a)
<1> DEFINE n == Len(b)
<1>1. n \in Nat /\ Len(a) = n /\ DOMAIN a = 1 .. n /\ DOMAIN b = 1 .. n
  BY DEF Agree
<1>2. \A i \in 1 .. n : a[i] \in LSARecords /\ b[i] \in LSARecords
  BY <1>1
<1>3. CASE Follows(a, b, 0)
  <2>1. \A i \in 1 .. n : Told(a[i]) = Told(b[i])
    <3>1. \A i \in 1 .. n : Told(a[i]) = Told(b[0 + i]) /\ 0 + i = i
      BY <1>1, <1>3 DEF Follows
    <3>2. QED
      BY <3>1
  <2>2. SizeOf(a) = SizeOf(b)
    BY <1>1, <1>3, FollowsSize
  <2>3. ToldAll(a) = ToldAll(b)
    BY <1>1, <2>1 DEF ToldAll
  <2>4. ASSUME Distinct(b), NEW i \in 1 .. n, NEW j \in 1 .. n,
               Identifier(a[i].hdr) = Identifier(a[j].hdr)
        PROVE  i = j
    <3>1. /\ Identifier(a[i].hdr) = Identifier(b[i].hdr)
          /\ Identifier(a[j].hdr) = Identifier(b[j].hdr)
      BY <1>2, <2>1, ToldSame
    <3>2. QED
      BY <2>4, <3>1 DEF Distinct
  <2>5. QED
    BY <1>1, <2>2, <2>3, <2>4 DEF Distinct
<1>4. CASE Turned(a, b, n)
  <2>1. \A i \in 1 .. n : n + 1 - i \in 1 .. n /\ Told(a[i]) = Told(b[n + 1 - i])
    BY <1>1, <1>4 DEF Turned
  <2>2. SizeOf(a) = SizeOf(b)
    BY <1>1, <1>4, TurnedSize
  <2>3. ToldAll(a) = ToldAll(b)
    <3>1. ASSUME NEW i \in 1 .. n PROVE Told(a[i]) \in ToldAll(b)
      BY <1>1, <2>1 DEF ToldAll
    <3>2. ASSUME NEW i \in 1 .. n PROVE Told(b[i]) \in ToldAll(a)
      <4> DEFINE j == n + 1 - i
      <4>1. j \in 1 .. n /\ n + 1 - j = i
        BY <1>1
      <4> HIDE DEF j, n
      <4>2. Told(a[j]) = Told(b[i])
        BY <2>1, <4>1
      <4>3. QED
        BY <1>1, <4>1, <4>2 DEF ToldAll
    <3>3. QED
      BY <1>1, <3>1, <3>2 DEF ToldAll
  <2>4. ASSUME Distinct(b), NEW i \in 1 .. n, NEW j \in 1 .. n,
               Identifier(a[i].hdr) = Identifier(a[j].hdr)
        PROVE  i = j
    <3> DEFINE k == n + 1 - i
               l == n + 1 - j
    <3>1. k \in 1 .. n /\ l \in 1 .. n /\ Told(a[i]) = Told(b[k]) /\ Told(a[j]) = Told(b[l])
      BY <2>1
    <3>2. k = l => i = j
      BY <1>1
    <3> HIDE DEF k, l, n
    <3>3. /\ Identifier(a[i].hdr) = Identifier(b[k].hdr)
          /\ Identifier(a[j].hdr) = Identifier(b[l].hdr)
      BY <1>2, <3>1, ToldSame
    <3>4. QED
      BY <2>4, <3>1, <3>2, <3>3 DEF Distinct, n
  <2>5. QED
    BY <1>1, <2>2, <2>3, <2>4 DEF Distinct
<1>5. QED
  BY <1>3, <1>4 DEF Agree

\* Lists that agree with one list agree.
LEMMA AgreeOn ==
  ASSUME NEW S, NEW a \in Seq(S), NEW b \in Seq(S), NEW c \in Seq(S),
         Agree(a, b), Agree(b, c)
  PROVE  Agree(a, c)
<1> DEFINE n == Len(c)
<1>1. n \in Nat /\ Len(a) = n /\ Len(b) = n
  BY DEF Agree
<1>2. \/ \A i \in 1 .. n : Told(a[i]) = Told(b[i])
      \/ \A i \in 1 .. n : Told(a[i]) = Told(b[n + 1 - i])
  BY <1>1 DEF Agree, Follows, Turned
<1>3. \/ \A i \in 1 .. n : Told(b[i]) = Told(c[i])
      \/ \A i \in 1 .. n : Told(b[i]) = Told(c[n + 1 - i])
  BY <1>1 DEF Agree, Follows, Turned
<1>4. \A i \in 1 .. n : n + 1 - i \in 1 .. n /\ n + 1 - (n + 1 - i) = i
  BY <1>1
<1> HIDE DEF n
<1>5. \/ \A i \in 1 .. n : Told(a[i]) = Told(c[i])
      \/ \A i \in 1 .. n : Told(a[i]) = Told(c[n + 1 - i])
  <2>1. CASE \A i \in 1 .. n : Told(a[i]) = Told(b[i])
    BY <1>3, <2>1
  <2>2. CASE \A i \in 1 .. n : Told(a[i]) = Told(b[n + 1 - i])
    <3>1. CASE \A i \in 1 .. n : Told(b[i]) = Told(c[i])
      BY <1>4, <2>2, <3>1
    <3>2. CASE \A i \in 1 .. n : Told(b[i]) = Told(c[n + 1 - i])
      <4>1. ASSUME NEW i \in 1 .. n PROVE Told(a[i]) = Told(c[i])
        BY <1>4, <2>2, <3>2
      <4>2. QED
        BY <4>1
    <3>3. QED
      BY <1>3, <3>1, <3>2
  <2>3. QED
    BY <1>2, <2>1, <2>2
<1>6. QED
  <2>1. \A i \in 1 .. n : 0 + i = i
    BY <1>1
  <2>2. n <= n /\ 0 + n <= n
    BY <1>1
  <2>3. QED
    BY <1>1, <1>5, <2>1, <2>2 DEF Agree, Follows, Turned, n

-----------------------------------------------------------------------------
(* What goes into an update, and what is left                               *)

\* Of a list, what stands behind the first m.
LEMMA SelectedLast ==
  ASSUME NEW S, NEW s \in Seq(S), NEW m \in 0 .. Len(s), NEW I,
         \A k \in 1 .. Len(s) : k \in I <=> m < k
  PROVE  /\ Selected(s, I) \in Seq(S)
         /\ Len(Selected(s, I)) = Len(s) - m
         /\ \A i \in 1 .. Len(s) - m : Selected(s, I)[i] = s[m + i]
<1> DEFINE n == Len(s)
           V == Seq(S)
           g == [k \in 1 .. n |-> [x \in V |-> IF k \in I THEN Append(x, s[k]) ELSE x]]
           Rec(d) == [k \in 0 .. n |-> IF k = 0 THEN <<>>
                                       ELSE IF k \in I THEN Append(d[k - 1], s[k]) ELSE d[k - 1]]
           D == CHOOSE d : d = Rec(d)
<1>1. n \in Nat /\ m \in Nat /\ m <= n /\ \A k \in 1 .. n : s[k] \in S
  OBVIOUS
<1>2. \E f : Recurs(f, V, n, <<>>, g)
  <2>1. <<>> \in V
    OBVIOUS
  <2>2. g \in [1 .. n -> [V -> V]]
    BY <1>1
  <2> HIDE DEF g, V
  <2>3. QED
    BY <1>1, <2>1, <2>2, RecursionExists
<1>3. PICK f \in [0 .. n -> V] :
        f[0] = <<>> /\ \A k \in 1 .. n : f[k] = g[k][f[k - 1]]
  BY <1>2 DEF Recurs
<1>4. ASSUME NEW k \in 1 .. n
      PROVE  f[k] = IF k \in I THEN Append(f[k - 1], s[k]) ELSE f[k - 1]
  <2>1. k - 1 \in 0 .. n
    BY <1>1
  <2>2. f[k - 1] \in V
    BY <1>3, <2>1
  <2>3. f[k] = g[k][f[k - 1]]
    BY <1>3
  <2> HIDE DEF V
  <2>4. QED
    BY <2>2, <2>3
<1> HIDE DEF g
<1>5. f = Rec(f)
  <2>1. ASSUME NEW k \in 0 .. n PROVE f[k] = Rec(f)[k]
    <3>1. Rec(f)[k] = IF k = 0 THEN <<>>
                      ELSE IF k \in I THEN Append(f[k - 1], s[k]) ELSE f[k - 1]
      OBVIOUS
    <3> HIDE DEF Rec, V
    <3>2. CASE k = 0
      BY <1>3, <3>1, <3>2
    <3>3. CASE k # 0
      <4>1. k \in 1 .. n
        BY <1>1, <3>3
      <4>2. QED
        BY <1>4, <3>1, <3>3, <4>1
    <3>4. QED
      BY <3>2, <3>3
  <2> HIDE DEF V
  <2>2. QED
    BY <1>3, <2>1
<1>6. D = Rec(D)
  <2> HIDE DEF Rec
  <2>1. QED
    BY <1>5
<1> HIDE DEF D, V
<1>7. D[0] = <<>>
  BY <1>1, <1>6
<1>8. ASSUME NEW k \in 1 .. n
      PROVE  D[k] = IF m < k THEN Append(D[k - 1], s[k]) ELSE D[k - 1]
  <2>1. k \in 0 .. n /\ k # 0
    BY <1>1
  <2>2. D[k] = IF k \in I THEN Append(D[k - 1], s[k]) ELSE D[k - 1]
    BY <1>6, <2>1
  <2>3. QED
    BY <2>2
<1> HIDE DEF Rec
<1> DEFINE Good(x, k) == /\ x \in Seq(S)
                         /\ Len(x) = IF m < k THEN k - m ELSE 0
                         /\ \A i \in 1 .. Len(x) : x[i] = s[m + i]
           T == {k \in 0 .. n : Good(D[k], k)}
<1>9. 0 \in T
  BY <1>1, <1>7
<1>10. ASSUME NEW k \in 0 .. n, k \in T, k < n PROVE k + 1 \in T
  <2> DEFINE j == k + 1
  <2>1. j \in 1 .. n /\ j \in 0 .. n /\ j - 1 = k
    BY <1>1, <1>10
  <2>2. Good(D[k], k)
    BY <1>10
  <2>3. j = k + 1
    OBVIOUS
  <2> HIDE DEF j
  <2>4. D[j] = IF m < j THEN Append(D[k], s[j]) ELSE D[k]
    BY <1>8, <2>1
  <2>5. CASE m < j
    <3>1. D[j] = Append(D[k], s[j])
      BY <2>4, <2>5
    <3>2. D[k] \in Seq(S) /\ Len(D[k]) = k - m
      BY <1>1, <2>2, <2>3, <2>5
    <3>3. s[j] \in S
      BY <1>1, <2>1
    <3>4. /\ D[j] \in Seq(S) /\ Len(D[j]) = j - m
          /\ \A i \in 1 .. k - m : D[j][i] = D[k][i]
          /\ D[j][j - m] = s[j]
      BY <1>1, <2>1, <2>3, <3>1, <3>2, <3>3
    <3>5. ASSUME NEW i \in 1 .. j - m PROVE D[j][i] = s[m + i]
      <4>1. CASE i = j - m
        BY <1>1, <2>1, <3>4, <4>1
      <4>2. CASE i # j - m
        <5>1. i \in 1 .. k - m
          BY <1>1, <2>1, <2>3, <4>2
        <5>2. QED
          BY <2>2, <3>2, <3>4, <5>1
      <4>3. QED
        BY <4>1, <4>2
    <3>6. QED
      BY <2>1, <2>5, <3>4, <3>5 DEF j
  <2>6. CASE ~(m < j)
    <3>1. D[j] = D[k] /\ ~(m < k)
      BY <1>1, <2>1, <2>3, <2>4, <2>6
    <3>2. Good(D[j], j)
      BY <2>2, <2>6, <3>1
    <3>3. QED
      BY <2>1, <3>2 DEF j
  <2>7. QED
    BY <2>5, <2>6
<1>11. 0 .. n \subseteq T
  <2> HIDE DEF T
  <2>1. QED
    BY <1>1, <1>9, <1>10, IntervalInduction
<1>12. Good(D[n], n)
  BY <1>1, <1>11
<1>13. Selected(s, I) = D[n]
  BY DEF Selected, D, Rec
<1>14. QED
  BY <1>1, <1>12, <1>13

\* AgingBeforeFlooding changes nothing that is told, and no size.
LEMMA AgedAllIs ==
  ASSUME NEW a \in Seq(LSARecords)
  PROVE  /\ AgedAll(a) \in Seq(LSARecords)
         /\ Len(AgedAll(a)) = Len(a)
         /\ \A i \in 1 .. Len(a) : Told(AgedAll(a)[i]) = Told(a[i])
         /\ SizeOf(AgedAll(a)) = SizeOf(a)
<1> DEFINE r == AgedAll(a)
           n == Len(a)
<1>1. n \in Nat /\ DOMAIN a = 1 .. n /\ \A i \in 1 .. n : a[i] \in LSARecords
  OBVIOUS
<1>2. \A i \in 1 .. n : Aged(a[i]) \in LSARecords /\ Told(Aged(a[i])) = Told(a[i])
  BY <1>1, AgedIs
<1>3. r \in [1 .. n -> LSARecords] /\ \A i \in 1 .. n : r[i] = Aged(a[i])
  BY <1>1, <1>2 DEF AgedAll
<1> HIDE DEF r
<1>4. r \in Seq(LSARecords) /\ Len(r) = n
  BY <1>1, <1>3, SequenceOf
<1>5. \A i \in 1 .. n : Told(r[i]) = Told(a[i])
  BY <1>2, <1>3
<1>6. Follows(r, a, 0)
  <2>1. 0 + n <= n /\ \A i \in 1 .. n : 0 + i = i
    BY <1>1
  <2>2. QED
    BY <1>4, <1>5, <2>1 DEF Follows
<1>7. SizeOf(r) = SizeOf(a)
  BY <1>4, <1>6, FollowsSize
<1>8. QED
  BY <1>4, <1>5, <1>7 DEF r

\* The first k of a list.
LEMMA FirstOf ==
  ASSUME NEW S, NEW a \in Seq(S), NEW k \in 0 .. Len(a)
  PROVE  /\ SubSeq(a, 1, k) \in Seq(S)
         /\ Len(SubSeq(a, 1, k)) = k
         /\ \A i \in 1 .. k : SubSeq(a, 1, k)[i] = a[i]
  OBVIOUS

\* What is left behind the first m.
LEMMA LastOf ==
  ASSUME NEW S, NEW a \in Seq(S), NEW m \in 0 .. Len(a)
  PROVE  /\ SubSeq(a, m + 1, Len(a)) \in Seq(S)
         /\ Len(SubSeq(a, m + 1, Len(a))) = Len(a) - m
         /\ \A i \in 1 .. Len(a) - m : SubSeq(a, m + 1, Len(a))[i] = a[m + i]
<1> DEFINE n == Len(a)
           r == SubSeq(a, m + 1, n)
           f == [i \in 1 .. n - m |-> a[m + i]]
<1>1. n \in Nat /\ m \in Nat /\ n - m \in Nat
  OBVIOUS
<1>2. \A i \in 1 .. n - m : m + i \in 1 .. n
  BY <1>1
<1>3. f \in [1 .. n - m -> S]
  BY <1>2
<1>4. r = f
  <2>1. r = [i \in 1 .. (1 + n - (m + 1)) |-> a[i + (m + 1) - 1]]
    OBVIOUS
  <2>2. 1 + n - (m + 1) = n - m /\ \A i \in 1 .. n - m : i + (m + 1) - 1 = m + i
    BY <1>1
  <2>3. QED
    BY <2>1, <2>2
<1> HIDE DEF r
<1>5. f \in Seq(S) /\ Len(f) = n - m
  <2> HIDE DEF f
  <2>1. QED
    BY <1>1, <1>3, SequenceOf
<1>6. QED
  BY <1>4, <1>5 DEF r

(* There is a number of LSAs where SendLinkStateUpdatePacketDirect stops,   *)
(* and those it takes have less than MaxBytes.                              *)
LEMMA DirectCountIs ==
  ASSUME NEW a \in Seq(LSARecords)
  PROVE  /\ DirectCount(a) \in 0 .. Len(a)
         /\ SizeOf(SubSeq(a, 1, DirectCount(a))) < MaxBytes
<1> DEFINE n == Len(a)
           Size(k) == SizeOf(SubSeq(a, 1, k))
           Stops(k) == /\ k > 0 => Size(k) < MaxBytes
                       /\ k < n => Size(k + 1) >= MaxBytes
           T == {k \in 0 .. n : k > 0 => Size(k) < MaxBytes}
<1>1. n \in Nat /\ MaxBytes \in Nat /\ MaxBytes > 0
  BY BytesAssumption
<1>2. \A k \in 0 .. n : Size(k) \in Nat
  BY <1>1, FirstOf, SizeOfIs
<1>3. \E k \in 0 .. n : Stops(k)
  <2> SUFFICES ASSUME \A k \in 0 .. n : ~Stops(k) PROVE FALSE
    OBVIOUS
  <2>1. 0 \in T
    BY <1>1
  <2>2. ASSUME NEW k \in 0 .. n, k \in T, k < n PROVE k + 1 \in T
    <3>1. k + 1 \in 0 .. n
      BY <1>1, <2>2
    <3>2. ~(Size(k + 1) >= MaxBytes)
      <4>1. k > 0 => Size(k) < MaxBytes
        BY <2>2
      <4> HIDE DEF Size
      <4>2. QED
        BY <2>2, <4>1
    <3>3. Size(k + 1) \in Nat
      BY <1>2, <3>1
    <3> HIDE DEF Size
    <3>4. Size(k + 1) < MaxBytes
      BY <1>1, <3>2, <3>3
    <3>5. QED
      BY <3>1, <3>4
  <2>3. 0 .. n \subseteq T
    <3> HIDE DEF T
    <3>1. QED
      BY <1>1, <2>1, <2>2, IntervalInduction
  <2>4. n \in 0 .. n /\ ~(n < n)
    BY <1>1
  <2> HIDE DEF Size
  <2>5. QED
    BY <2>3, <2>4
<1>4. DirectCount(a) \in 0 .. n /\ Stops(DirectCount(a))
  <2>1. DirectCount(a) = CHOOSE k \in 0 .. n : Stops(k)
    BY DEF DirectCount
  <2> HIDE DEF Stops
  <2>2. QED
    BY <1>3, <2>1
<1>5. Size(DirectCount(a)) < MaxBytes
  <2>1. CASE DirectCount(a) = 0
    <3> DEFINE e == SubSeq(a, 1, 0)
    <3>1. e \in Seq(LSARecords) /\ Len(e) = 0
      BY <1>1, FirstOf
    <3>2. SizeOf(e) = 0
      <4>1. LSASizes(e) \in Seq(Nat) /\ Len(LSASizes(e)) = 0 /\ SizeOf(e) = Total(LSASizes(e))
        BY <3>1, SizeOfIs
      <4>2. PICK t : IsSums(t, LSASizes(e))
        BY <4>1, SumsExist
      <4>3. Total(LSASizes(e)) = t[0] /\ t[0] = 0
        BY <4>1, <4>2, TotalIsSum DEF IsSums
      <4> HIDE DEF e
      <4>4. QED
        BY <4>1, <4>3
    <3> HIDE DEF e
    <3>3. SizeOf(e) < MaxBytes
      BY <1>1, <3>2
    <3>4. QED
      BY <2>1, <3>3 DEF e
  <2>2. CASE DirectCount(a) # 0
    <3> HIDE DEF Size
    <3>1. DirectCount(a) > 0
      BY <1>1, <1>4, <2>2
    <3>2. QED
      BY <1>4, <3>1
  <2>3. QED
    BY <2>1, <2>2
<1>6. QED
  BY <1>4, <1>5

\* GetRxmtList takes the first ones of the list.
LEMMA RetransmittedIs ==
  ASSUME NEW S, NEW a \in Seq(S)
  PROVE  \E m \in 0 .. Len(a) : Retransmitted(a) = SubSeq(a, 1, m)
<1> DEFINE Exact == {k \in DOMAIN a : SizeOf(SubSeq(a, 1, k)) = MaxBytes}
           Least(k) == \A j \in Exact : k <= j
<1>1. CASE Exact = {}
  <2>1. Retransmitted(a) = a /\ a = SubSeq(a, 1, Len(a)) /\ Len(a) \in 0 .. Len(a)
    BY <1>1 DEF Retransmitted
  <2>2. QED
    BY <2>1
<1>2. CASE Exact # {}
  <2>1. Exact \subseteq Nat /\ \A k \in Exact : k \in 1 .. Len(a)
    OBVIOUS
  <2>2. Retransmitted(a) = SubSeq(a, 1, (CHOOSE k \in Exact : Least(k)) - 1)
    BY <1>2 DEF Retransmitted
  <2> HIDE DEF Exact
  <2>3. \E k \in Exact : Least(k)
    BY <1>2, <2>1, LeastElement
  <2> HIDE DEF Least
  <2>4. PICK k \in Exact : k = CHOOSE i \in Exact : Least(i)
    BY <2>3
  <2>5. k - 1 \in 0 .. Len(a)
    BY <2>1
  <2>6. Retransmitted(a) = SubSeq(a, 1, k - 1)
    BY <2>2, <2>4
  <2>7. QED
    BY <2>5, <2>6
<1>3. QED
  BY <1>1, <1>2

-----------------------------------------------------------------------------
(* The packets on the way                                                   *)

AllPackets ==
    HelloPackets \cup DDPackets \cup RequestPackets \cup UpdatePackets \cup AckPackets

(* Every packet is written in PacketSize bytes and read as it was meant, by *)
(* the handler for its type: the members of its header and its class, and   *)
(* all items, of LSAs what they tell and their age (Serialize and           *)
(* Deserialize of OSPFHello, OSPFDatabaseDescription, OSPFLinkStateRequest, *)
(* OSPFLinkStateUpdate and OSPFLinkStateAck).                               *)
THEOREM PacketArrives ==
  ASSUME NEW p \in AllPackets
  PROVE  /\ IsHeader(p) /\ IsWritten(p)
         /\ WritePacket(p) \in Seq(Byte) /\ WritePacket(p) # <<>>
         /\ Read(OSPFHeader, WritePacket(p), 0).type = p.type
         /\ AsMeant(ReadPacket(WritePacket(p), "left"), p)
<1>1. /\ IsHeader(p) /\ IsWritten(p)
      /\ AsMeant(ReadPacket(WritePacket(p), "left"), p)
  <2>1. CASE p \in HelloPackets
    BY <2>1, HelloWritten, HelloRead
  <2>2. CASE p \in DDPackets
    BY <2>2, DDWritten, DDRead
  <2>3. CASE p \in RequestPackets
    BY <2>3, RequestPacketWritten, RequestPacketRead
  <2>4. CASE p \in UpdatePackets
    BY <2>4, UpdatePacketWritten, UpdateItems
  <2>5. CASE p \in AckPackets
    BY <2>5, AckPacketWritten, AckPacketRead
  <2>6. QED
    BY <2>1, <2>2, <2>3, <2>4, <2>5 DEF AllPackets
<1>2. WritePacket(p) \in Seq(Byte) /\ WritePacket(p) # <<>>
  <2>1. WritePacket(p) \in Seq(Byte) /\ Len(WritePacket(p)) = PacketSize(p)
    BY <1>1, PacketWritten
  <2>2. PacketSize(p) = 16 + Len(WritePacketBody(p)) /\ WritePacketBody(p) \in Seq(Byte)
    BY <1>1 DEF IsWritten
  <2>3. Len(WritePacketBody(p)) \in Nat
    BY <2>2
  <2>4. Len(WritePacket(p)) # 0
    BY <2>1, <2>2, <2>3
  <2>5. QED
    BY <2>1, <2>4
<1>3. Read(OSPFHeader, WritePacket(p), 0).type = p.type
  BY <1>1, HeaderRead DEF HeaderOf
<1>4. QED
  BY <1>1, <1>2, <1>3

\* The type in the header tells what packet it is.
LEMMA TypeTells ==
  ASSUME NEW p \in AllPackets
  PROVE  /\ p.type \in 1 .. 5
         /\ p.type = 1 <=> p \in HelloPackets
         /\ p.type = 2 <=> p \in DDPackets
         /\ p.type = 3 <=> p \in RequestPackets
         /\ p.type = 4 <=> p \in UpdatePackets
         /\ p.type = 5 <=> p \in AckPackets
<1>1. /\ p \in HelloPackets => p.type = 1
      /\ p \in DDPackets => p.type = 2
      /\ p \in RequestPackets => p.type = 3
      /\ p \in UpdatePackets => p.type = 4
      /\ p \in AckPackets => p.type = 5
  BY HelloWritten, DDWritten, RequestPacketWritten, UpdatePacketWritten, AckPacketWritten
<1>2. QED
  BY <1>1 DEF AllPackets

\* The packets that a router makes out of items.
LEMMA MadePacket ==
  ASSUME hop + 1 \in UInt(4), NEW type \in 1 .. 5, NEW S, NEW items \in Seq(S),
         PacketSize(Packet(type, items)) < Power(2)
  PROVE  /\ Packet(type, items) \in ItemPackets(type, S)
         /\ Packet(type, items).items = items
<1>1. 3 \in UInt(1) /\ 0 \in UInt(1) /\ 0 \in UInt(2) /\ 0 \in UInt(4)
  BY Powers, SMT DEF UInt
<1>2. QED
  BY <1>1 DEF Packet, ItemPackets

\* An update, and its size.
LEMMA MadeUpdate ==
  ASSUME hop + 1 \in UInt(4), NEW items \in Seq(LSARecords),
         20 + SizeOf(items) < Power(2)
  PROVE  LET p == Packet(OSPF_TYPE_LINK_STATE_UPDATE, items)
         IN  /\ p \in UpdatePackets /\ p.items = items
             /\ PacketSize(p) = 20 + SizeOf(items)
<1> DEFINE p == Packet(OSPF_TYPE_LINK_STATE_UPDATE, items)
<1>1. p.items = items /\ p.type = 4
  BY PacketTypes DEF Packet
<1> HIDE DEF p
<1>2. SizeOf(items) = Total(LSASizes(items)) /\ SizeOf(items) \in Nat
  BY SizeOfIs
<1>3. PacketSize(p) = 16 + (4 + Total(LSASizes(items)))
  BY <1>1, PacketTypes, OSPFHeaderLayout DEF PacketSize, LSASizes
<1>4. PacketSize(p) = 20 + SizeOf(items)
  <2> DEFINE total == Total(LSASizes(items))
  <2> HIDE DEF total
  <2>1. total \in Nat /\ PacketSize(p) = 16 + (4 + total) /\ SizeOf(items) = total
    BY <1>2, <1>3 DEF total
  <2>2. QED
    BY <2>1
<1>5. PacketSize(p) < Power(2)
  BY <1>4
<1>6. p \in UpdatePackets
  <2>1. OSPF_TYPE_LINK_STATE_UPDATE \in 1 .. 5
    BY PacketTypes
  <2>2. QED
    BY <1>5, <2>1, MadePacket DEF UpdatePackets, p
<1>7. QED
  BY <1>1, <1>4, <1>6 DEF p

\* An acknowledgment, and its size.
LEMMA MadeAck ==
  ASSUME hop + 1 \in UInt(4), NEW items \in Seq(Headers),
         16 + 20 * Len(items) < Power(2)
  PROVE  LET p == Packet(OSPF_TYPE_LINK_STATE_ACK, items)
         IN  /\ p \in AckPackets /\ p.items = items
             /\ PacketSize(p) = 16 + 20 * Len(items)
<1> DEFINE p == Packet(OSPF_TYPE_LINK_STATE_ACK, items)
<1>1. p.items = items /\ p.type = 5
  BY PacketTypes DEF Packet
<1> HIDE DEF p
<1>2. PacketSize(p) = 16 + 20 * Len(items)
  BY <1>1, PacketTypes, OSPFHeaderLayout, LSAHeaderLayout DEF PacketSize
<1>3. PacketSize(p) < Power(2)
  BY <1>2
<1>4. p \in AckPackets
  <2>1. OSPF_TYPE_LINK_STATE_ACK \in 1 .. 5
    BY PacketTypes
  <2>2. QED
    BY <1>3, <2>1, MadePacket DEF AckPackets, p
<1>5. QED
  BY <1>1, <1>2, <1>4 DEF p

\* A request.
LEMMA MadeRequest ==
  ASSUME hop + 1 \in UInt(4), NEW items \in Seq(Requests),
         16 + 12 * Len(items) < Power(2)
  PROVE  LET p == Packet(OSPF_TYPE_LINK_STATE_REQUEST, items)
         IN  p \in RequestPackets /\ p.items = items
<1> DEFINE p == Packet(OSPF_TYPE_LINK_STATE_REQUEST, items)
<1>1. p.items = items /\ p.type = 3
  BY PacketTypes DEF Packet
<1> HIDE DEF p
<1>2. PacketSize(p) = 16 + 12 * Len(items)
  BY <1>1, PacketTypes, OSPFHeaderLayout, RequestItemLayout DEF PacketSize
<1>3. PacketSize(p) < Power(2)
  BY <1>2
<1>4. p \in RequestPackets
  <2>1. OSPF_TYPE_LINK_STATE_REQUEST \in 1 .. 5
    BY PacketTypes
  <2>2. QED
    BY <1>3, <2>1, MadePacket DEF RequestPackets, p
<1>5. QED
  BY <1>1, <1>4 DEF p

-----------------------------------------------------------------------------
(* The invariant of the transfer                                            *)

(* What the theorems assume of the constants. Arguments are evaluated from  *)
(* the left. The members of all packets and LSAs fit their fields, a router *)
(* holds no two LSAs with one identifier, and all it holds fits one packet  *)
(* of 64 KiB: GetRxmtList may put the whole list into one update. Router    *)
(* identifiers have four bytes.                                             *)
TransferAssumptions ==
    /\ Orders \subseteq {"left"}
    /\ \A a \in Lists : /\ a \in Seq(LSARecords) /\ Distinct(a)
                        /\ 20 + SizeOf(a) < Power(2)
    /\ Packets \subseteq HelloPackets \cup DDPackets
    /\ Hops + 1 < Power(4)

\* The identifiers that SendRequest lists.
IdentifiersOf(a) ==
    [i \in DOMAIN a |-> [type |-> a[i].hdr.type, id |-> a[i].hdr.id,
                         advRtr |-> a[i].hdr.advRtr]]

Idle ==
    /\ list = <<>> /\ has = <<>>
    /\ wire # <<>> => sent \in HelloPackets \cup DDPackets

Requested ==
    /\ list = <<>> /\ has = <<>> /\ wire # <<>>
    /\ sent \in RequestPackets /\ sent.items = IdentifiersOf(held)

(* While a request is answered the list holds what is not sent yet, the     *)
(* neighbour has the rest from behind, and an update is the part between.   *)
Answering ==
    /\ Follows(list, held, 0) /\ Turned(has, held, Len(held))
    /\ wire = <<>> => Len(has) + Len(list) = Len(held)
    /\ wire # <<>> =>
         /\ PacketSize(sent) < MaxBytes + 20
         /\ \/ /\ sent \in UpdatePackets
               /\ Len(has) + Len(sent.items) + Len(list) = Len(held)
               /\ Turned(sent.items, held, Len(held) - Len(has))
            \/ sent \in AckPackets /\ Len(has) + Len(list) = Len(held)

\* The items of an acknowledgment name the first LSAs of the list.
Acknowledges(items, a) ==
    /\ Len(items) <= Len(a)
    /\ \A i \in 1 .. Len(items) : /\ Identifier(items[i]) = Identifier(a[i].hdr)
                                  /\ items[i].seqNum = a[i].hdr.seqNum

(* While LSAs are retransmitted the list holds what is not acknowledged:    *)
(* the last LSAs, of which an update brings the first. When these are       *)
(* acknowledged the neighbour has them already.                             *)
Retransmitting ==
    /\ Len(list) <= Len(held) /\ Follows(list, held, Len(held) - Len(list))
    /\ Follows(has, held, 0)
    /\ wire = <<>> => Len(has) + Len(list) = Len(held)
    /\ wire # <<>> =>
         \/ /\ sent \in UpdatePackets /\ Len(has) + Len(list) = Len(held)
            /\ Follows(sent.items, list, 0)
         \/ /\ sent \in AckPackets
            /\ Len(has) + Len(list) = Len(held) + Len(sent.items)
            /\ Acknowledges(sent.items, list)

TransferInv ==
    /\ origin \in Lists
    /\ held \in Seq(LSARecords) /\ list \in Seq(LSARecords) /\ has \in Seq(LSARecords)
    /\ Agree(held, origin)
    /\ hop \in 0 .. Hops /\ (mode # "idle" => hop < Hops)
    /\ bad = FALSE
    /\ mode \in {"idle", "requested", "direct", "rxmt"}
    /\ mode = "idle" => Idle
    /\ mode = "requested" => Requested
    /\ mode = "direct" => Answering
    /\ mode = "rxmt" => Retransmitting
    /\ wire # <<>> => sent \in AllPackets /\ wire = WritePacket(sent)
    /\ got # None => AsMeant(got, meant)

-----------------------------------------------------------------------------
(* Parts of distinct lists                                                  *)

\* A part of a list names no LSA twice if the list does not.
LEMMA FollowsDistinct ==
  ASSUME NEW a \in Seq(LSARecords), NEW b \in Seq(LSARecords), NEW o \in Nat,
         Follows(a, b, o), Distinct(b)
  PROVE  Distinct(a)
<1> SUFFICES ASSUME NEW i \in 1 .. Len(a), NEW j \in 1 .. Len(a),
                    Identifier(a[i].hdr) = Identifier(a[j].hdr)
             PROVE  i = j
  BY DEF Distinct
<1> DEFINE k == o + i
           l == o + j
<1>1. /\ k \in 1 .. Len(b) /\ Told(a[i]) = Told(b[k])
      /\ l \in 1 .. Len(b) /\ Told(a[j]) = Told(b[l])
      /\ k = l => i = j
  BY DEF Follows
<1> HIDE DEF k, l
<1>2. /\ a[i] \in LSARecords /\ a[j] \in LSARecords
      /\ b[k] \in LSARecords /\ b[l] \in LSARecords
  BY <1>1
<1>3. /\ Identifier(a[i].hdr) = Identifier(b[k].hdr)
      /\ Identifier(a[j].hdr) = Identifier(b[l].hdr)
  BY <1>1, <1>2, ToldSame
<1>4. QED
  BY <1>1, <1>3 DEF Distinct

\* From behind as well.
LEMMA TurnedDistinct ==
  ASSUME NEW a \in Seq(LSARecords), NEW b \in Seq(LSARecords), NEW o \in Nat,
         Turned(a, b, o), Distinct(b)
  PROVE  Distinct(a)
<1> SUFFICES ASSUME NEW i \in 1 .. Len(a), NEW j \in 1 .. Len(a),
                    Identifier(a[i].hdr) = Identifier(a[j].hdr)
             PROVE  i = j
  BY DEF Distinct
<1> DEFINE k == o + 1 - i
           l == o + 1 - j
<1>1. /\ k \in 1 .. Len(b) /\ Told(a[i]) = Told(b[k])
      /\ l \in 1 .. Len(b) /\ Told(a[j]) = Told(b[l])
      /\ k = l => i = j
  BY DEF Turned
<1> HIDE DEF k, l
<1>2. /\ a[i] \in LSARecords /\ a[j] \in LSARecords
      /\ b[k] \in LSARecords /\ b[l] \in LSARecords
  BY <1>1
<1>3. /\ Identifier(a[i].hdr) = Identifier(b[k].hdr)
      /\ Identifier(a[j].hdr) = Identifier(b[l].hdr)
  BY <1>1, <1>2, ToldSame
<1>4. QED
  BY <1>1, <1>3 DEF Distinct

\* The elements of a concatenation.
LEMMA JoinedLists ==
  ASSUME NEW S, NEW a \in Seq(S), NEW c \in Seq(S)
  PROVE  /\ a \o c \in Seq(S) /\ Len(a \o c) = Len(a) + Len(c)
         /\ \A i \in 1 .. Len(a) : (a \o c)[i] = a[i]
         /\ \A i \in 1 .. Len(c) : (a \o c)[Len(a) + i] = c[i]
  OBVIOUS

\* r is a with c behind it.
IsJoined(r, a, c) ==
    /\ Len(r) = Len(a) + Len(c)
    /\ \A i \in 1 .. Len(a) : r[i] = a[i]
    /\ \A i \in 1 .. Len(c) : r[Len(a) + i] = c[i]

\* A concatenation is one.
LEMMA JoinedIsJoined ==
  ASSUME NEW S, NEW a \in Seq(S), NEW c \in Seq(S)
  PROVE  a \o c \in Seq(S) /\ IsJoined(a \o c, a, c)
  BY JoinedLists DEF IsJoined

\* What the neighbour has and what comes next are a beginning again.
LEMMA JoinFollows ==
  ASSUME NEW S, NEW a \in Seq(S), NEW c \in Seq(S), NEW b \in Seq(S),
         Follows(a, b, 0), Follows(c, b, Len(a))
  PROVE  Follows(a \o c, b, 0)
<1> DEFINE r == a \o c
           m == Len(a)
           n == Len(c)
<1>1. /\ r \in Seq(S) /\ Len(r) = m + n /\ m \in Nat /\ n \in Nat
      /\ \A i \in 1 .. m : r[i] = a[i]
      /\ \A i \in 1 .. n : r[m + i] = c[i]
  BY JoinedLists
<1> HIDE DEF r
<1>2. m + n <= Len(b) /\ Len(b) \in Nat
  BY DEF Follows
<1>3. ASSUME NEW i \in 1 .. m + n PROVE Told(r[i]) = Told(b[0 + i])
  <2>1. CASE i \in 1 .. m
    BY <1>1, <2>1 DEF Follows
  <2>2. CASE ~(i \in 1 .. m)
    <3> DEFINE j == i - m
    <3>1. j \in 1 .. n /\ m + j = i /\ 0 + i = i
      BY <1>1, <2>2
    <3>2. \A k \in 1 .. n : Told(c[k]) = Told(b[m + k])
      BY DEF Follows
    <3> HIDE DEF j, m, n
    <3>3. Told(c[j]) = Told(b[i]) /\ r[i] = c[j]
      BY <1>1, <3>1, <3>2
    <3>4. QED
      BY <3>1, <3>3
  <2>3. QED
    BY <2>1, <2>2
<1>4. QED
  BY <1>1, <1>2, <1>3 DEF Follows, r

\* From behind as well.
LEMMA JoinTurned ==
  ASSUME NEW S, NEW a \in Seq(S), NEW c \in Seq(S), NEW b \in Seq(S),
         Turned(a, b, Len(b)), Turned(c, b, Len(b) - Len(a))
  PROVE  Turned(a \o c, b, Len(b))
<1> DEFINE r == a \o c
           m == Len(a)
           n == Len(c)
           l == Len(b)
<1>1. /\ r \in Seq(S) /\ Len(r) = m + n /\ m \in Nat /\ n \in Nat
      /\ \A i \in 1 .. m : r[i] = a[i]
      /\ \A i \in 1 .. n : r[m + i] = c[i]
  BY JoinedLists
<1> HIDE DEF r
<1>2. m + n <= l /\ l \in Nat
  BY DEF Turned
<1>3. ASSUME NEW i \in 1 .. m + n PROVE Told(r[i]) = Told(b[l + 1 - i])
  <2>1. CASE i \in 1 .. m
    BY <1>1, <2>1 DEF Turned
  <2>2. CASE ~(i \in 1 .. m)
    <3> DEFINE j == i - m
    <3>1. j \in 1 .. n /\ m + j = i /\ (l - m) + 1 - j = l + 1 - i
      BY <1>1, <1>2, <2>2
    <3>2. \A k \in 1 .. n : Told(c[k]) = Told(b[(l - m) + 1 - k])
      BY DEF Turned
    <3> HIDE DEF j, m, n, l
    <3>3. Told(c[j]) = Told(b[l + 1 - i]) /\ r[i] = c[j]
      BY <1>1, <3>1, <3>2
    <3>4. QED
      BY <3>3
  <2>3. QED
    BY <2>1, <2>2
<1>4. QED
  BY <1>1, <1>2, <1>3 DEF Turned, r

\* LSAs that the neighbour has not got are all taken.
LEMMA TakesAll ==
  ASSUME NEW S, NEW a \in Seq(S), NEW c \in Seq(S), Distinct(a \o c)
  PROVE  Selected(c, {k \in DOMAIN c : \A i \in DOMAIN a :
                        Identifier(a[i].hdr) # Identifier(c[k].hdr)}) = c
<1> DEFINE r == a \o c
           m == Len(a)
           n == Len(c)
           I == {k \in DOMAIN c : \A i \in DOMAIN a :
                   Identifier(a[i].hdr) # Identifier(c[k].hdr)}
           q == Selected(c, I)
<1>1. /\ r \in Seq(S) /\ Len(r) = m + n /\ m \in Nat /\ n \in Nat
      /\ \A i \in 1 .. m : r[i] = a[i]
      /\ \A i \in 1 .. n : r[m + i] = c[i]
      /\ DOMAIN a = 1 .. m /\ DOMAIN c = 1 .. n
  BY JoinedLists
<1>2. Distinct(r)
  OBVIOUS
<1> HIDE DEF r
<1>3. ASSUME NEW k \in 1 .. n, NEW i \in 1 .. m
      PROVE  Identifier(a[i].hdr) # Identifier(c[k].hdr)
  <2> DEFINE j == m + k
  <2>1. j \in 1 .. Len(r) /\ i \in 1 .. Len(r) /\ i # j
    BY <1>1
  <2>2. r[j] = c[k] /\ r[i] = a[i]
    BY <1>1
  <2> HIDE DEF j, m, n
  <2>3. QED
    BY <1>2, <2>1, <2>2 DEF Distinct
<1>4. \A k \in 1 .. n : k \in I <=> 0 < k
  BY <1>1, <1>3
<1>5. /\ q \in Seq(S) /\ Len(q) = n - 0
      /\ \A i \in 1 .. n - 0 : q[i] = c[0 + i]
  <2>1. 0 \in 0 .. n
    BY <1>1
  <2> HIDE DEF I
  <2>2. QED
    BY <1>4, <2>1, SelectedLast
<1> HIDE DEF q
<1>6. Len(q) = n /\ \A i \in 1 .. n : q[i] = c[i]
  BY <1>1, <1>5
<1>7. q = c
  BY <1>1, <1>5, <1>6
<1>8. QED
  BY <1>7 DEF q

-----------------------------------------------------------------------------
(* What the invariant says of every state                                   *)

\* The LSAs of the router that sends: as many and as large as those of the first
\* one.
LEMMA HeldFacts ==
  ASSUME TransferAssumptions, TransferInv
  PROVE  /\ hop + 1 \in UInt(4)
         /\ Distinct(held)
         /\ Len(held) \in Nat /\ Len(held) = Len(origin)
         /\ SizeOf(held) \in Nat /\ 20 + SizeOf(held) < Power(2)
         /\ 24 * Len(held) <= SizeOf(held)
         /\ ToldAll(held) = ToldAll(origin)
<1>1. /\ origin \in Seq(LSARecords) /\ Distinct(origin)
      /\ 20 + SizeOf(origin) < Power(2)
  BY DEF TransferAssumptions, TransferInv
<1>2. held \in Seq(LSARecords) /\ Agree(held, origin)
  BY DEF TransferInv
<1>3. /\ SizeOf(held) = SizeOf(origin) /\ ToldAll(held) = ToldAll(origin)
      /\ Distinct(held)
  BY <1>1, <1>2, AgreeSame
<1>4. hop + 1 \in UInt(4)
  <2>1. Hops \in Nat /\ hop \in 0 .. Hops /\ Hops + 1 < Power(4)
    BY BytesAssumption DEF TransferAssumptions, TransferInv
  <2>2. hop + 1 \in Nat /\ hop + 1 < Power(4)
    BY <2>1, PowerType
  <2>3. QED
    BY <2>2, PowerType DEF UInt
<1>5. QED
  BY <1>1, <1>2, <1>3, <1>4, SizeOfIs DEF Agree

\* The packet on the way tells what goes on.
LEMMA ModeTells ==
  ASSUME TransferInv, wire # <<>>
  PROVE  /\ sent \in AllPackets /\ wire = WritePacket(sent)
         /\ sent.type \in {1, 2} => mode = "idle"
         /\ sent.type = 3 => mode = "requested"
         /\ sent.type \in {4, 5} => mode \in {"direct", "rxmt"}
<1>1. sent \in AllPackets /\ wire = WritePacket(sent)
  BY DEF TransferInv
<1>2. mode \in {"idle", "requested", "direct", "rxmt"}
  BY DEF TransferInv
<1>3. mode = "idle" => sent.type \in {1, 2}
  BY <1>1, TypeTells DEF TransferInv, Idle
<1>4. mode = "requested" => sent.type = 3
  BY <1>1, TypeTells DEF TransferInv, Requested
<1>5. mode = "direct" => sent.type \in {4, 5}
  BY <1>1, TypeTells DEF TransferInv, Answering
<1>6. mode = "rxmt" => sent.type \in {4, 5}
  BY <1>1, TypeTells DEF TransferInv, Retransmitting
<1>7. QED
  BY <1>1, <1>2, <1>3, <1>4, <1>5, <1>6

\* What is received is what was sent.
LEMMA ArrivingIs ==
  ASSUME TransferAssumptions, TransferInv, NEW type, NEW p \in Arriving(type)
  PROVE  /\ wire # <<>> /\ sent.type = type
         /\ p = ReadPacket(wire, "left")
         /\ AsMeant(p, sent)
<1>1. /\ wire # <<>> /\ Read(OSPFHeader, wire, 0).type = type
      /\ p \in {ReadPacket(wire, order) : order \in Orders}
  BY DEF Arriving
<1>2. p = ReadPacket(wire, "left")
  <2>1. Orders \subseteq {"left"}
    BY DEF TransferAssumptions
  <2>2. QED
    BY <1>1, <2>1
<1>3. sent \in AllPackets /\ wire = WritePacket(sent)
  BY <1>1, ModeTells
<1>4. QED
  BY <1>1, <1>2, <1>3, PacketArrives

-----------------------------------------------------------------------------
(* Steps                                                                    *)

\* It holds in the beginning.
LEMMA TransferInit ==
  ASSUME TransferAssumptions, Init
  PROVE  TransferInv
<1>1. origin \in Lists /\ held = origin /\ origin \in Seq(LSARecords)
  BY DEF TransferAssumptions, Init
<1>2. Agree(held, origin)
  <2>1. Follows(origin, origin, 0)
    BY <1>1 DEF Follows
  <2>2. QED
    BY <1>1, <2>1 DEF Agree
<1>3. hop \in 0 .. Hops
  BY BytesAssumption DEF Init
<1>4. <<>> \in Seq(LSARecords)
  OBVIOUS
<1>5. QED
  BY <1>1, <1>2, <1>3, <1>4 DEF Init, TransferInv, Idle

\* A Hello or a Database Description is sent.
LEMMA PacketSent ==
  ASSUME TransferAssumptions, TransferInv, SendPacket
  PROVE  TransferInv'
<1>1. PICK p \in Packets : sent' = p /\ wire' = WritePacket(p) /\ UNCHANGED <<got, meant>>
  BY DEF SendPacket, Send
<1>2. p \in HelloPackets \cup DDPackets /\ p \in AllPackets
  BY DEF TransferAssumptions, AllPackets
<1>3. /\ mode = "idle" /\ Idle
      /\ UNCHANGED <<origin, held, list, mode, has, hop, bad>>
  BY DEF SendPacket, TransferInv
<1>4. Idle'
  BY <1>1, <1>2, <1>3 DEF Idle
<1>5. QED
  BY <1>1, <1>2, <1>3, <1>4 DEF TransferInv

\* It is received, as it was meant.
LEMMA PacketReceived ==
  ASSUME TransferAssumptions, TransferInv, ReceivePacket
  PROVE  TransferInv'
<1>1. PICK p \in Arriving(OSPF_TYPE_HELLO) \cup Arriving(OSPF_TYPE_DATABASE_DESCRIPTION) :
        got' = p /\ meant' = sent
  BY DEF ReceivePacket, Receive
<1>2. wire # <<>> /\ sent.type \in {1, 2} /\ AsMeant(p, sent)
  <2>1. CASE p \in Arriving(OSPF_TYPE_HELLO)
    BY <2>1, ArrivingIs, PacketTypes
  <2>2. CASE p \in Arriving(OSPF_TYPE_DATABASE_DESCRIPTION)
    BY <2>2, ArrivingIs, PacketTypes
  <2>3. QED
    BY <2>1, <2>2
<1>3. mode = "idle" /\ Idle
  BY <1>2, ModeTells DEF TransferInv
<1>4. /\ wire' = <<>>
      /\ UNCHANGED <<origin, held, list, mode, has, sent, hop, bad>>
  BY DEF ReceivePacket
<1>5. Idle'
  BY <1>3, <1>4 DEF Idle
<1>6. AsMeant(got, meant)'
  BY <1>1, <1>2
<1>7. QED
  BY <1>3, <1>4, <1>5, <1>6 DEF TransferInv

\* All that is held is requested.
LEMMA RequestSent ==
  ASSUME TransferAssumptions, TransferInv, SendRequest
  PROVE  TransferInv'
<1> DEFINE ids == IdentifiersOf(held)
           p == Packet(OSPF_TYPE_LINK_STATE_REQUEST, ids)
<1>1. /\ sent' = p /\ wire' = WritePacket(p) /\ UNCHANGED <<got, meant>>
      /\ mode = "idle" /\ mode' = "requested" /\ hop < Hops
      /\ UNCHANGED <<origin, held, list, has, hop, bad>>
  BY DEF SendRequest, Send, IdentifiersOf
<1>2. held \in Seq(LSARecords) /\ Idle
  BY <1>1 DEF TransferInv
<1>3. ids \in Seq(Requests) /\ Len(ids) = Len(held)
  <2>1. \A i \in 1 .. Len(held) : held[i].hdr \in Headers
    <3>1. \A i \in 1 .. Len(held) : held[i] \in LSARecords
      BY <1>2
    <3>2. QED
      BY <3>1, RecordParts
  <2>2. \A i \in 1 .. Len(held) :
          [type |-> held[i].hdr.type, id |-> held[i].hdr.id,
           advRtr |-> held[i].hdr.advRtr] \in Requests
    BY <2>1 DEF Headers, Requests
  <2>3. DOMAIN held = 1 .. Len(held) /\ Len(held) \in Nat
    BY <1>2
  <2>4. ids \in [1 .. Len(held) -> Requests]
    BY <2>2, <2>3 DEF IdentifiersOf
  <2> HIDE DEF ids
  <2>5. QED
    BY <2>3, <2>4, SequenceOf
<1>4. hop + 1 \in UInt(4) /\ 16 + 12 * Len(ids) < Power(2)
  <2>1. /\ Len(held) \in Nat /\ SizeOf(held) \in Nat
        /\ 20 + SizeOf(held) < Power(2) /\ 24 * Len(held) <= SizeOf(held)
        /\ Power(2) \in Nat
    BY HeldFacts, PowerType
  <2>2. 16 + 12 * Len(held) < Power(2)
    BY <2>1
  <2>3. QED
    BY <1>3, <2>2, HeldFacts
<1> HIDE DEF ids
<1>5. p \in RequestPackets /\ p.items = ids
  BY <1>3, <1>4, MadeRequest
<1> HIDE DEF p
<1>6. p \in AllPackets
  BY <1>5 DEF AllPackets
<1>7. wire' # <<>>
  BY <1>1, <1>6, PacketArrives
<1>8. Requested'
  BY <1>1, <1>2, <1>5, <1>7 DEF Requested, Idle, ids, IdentifiersOf
<1>9. QED
  BY <1>1, <1>6, <1>8 DEF TransferInv

\* Every identifier is found, and the list is what is held.
LEMMA RequestReceived ==
  ASSUME TransferAssumptions, TransferInv, ReceiveRequest
  PROVE  TransferInv'
<1> DEFINE Find(id) == {i \in DOMAIN held : Identifier(held[i].hdr) = Identifier(id)}
           Found(p) == \A k \in DOMAIN p.items : Find(p.items[k]) # {}
<1>1. PICK p \in Arriving(OSPF_TYPE_LINK_STATE_REQUEST) :
        /\ got' = p /\ meant' = sent
        /\ bad' = ~Found(p)
        /\ list' = IF Found(p)
                   THEN [k \in DOMAIN p.items |-> held[CHOOSE i \in Find(p.items[k]) : TRUE]]
                   ELSE <<>>
        /\ mode' = IF Found(p) THEN "direct" ELSE "idle"
  BY DEF ReceiveRequest, Receive
<1>2. wire' = <<>> /\ UNCHANGED <<origin, held, has, sent, hop>>
  BY DEF ReceiveRequest
<1>3. wire # <<>> /\ sent.type = 3 /\ AsMeant(p, sent)
  BY ArrivingIs, PacketTypes
<1>4. mode = "requested" /\ Requested
  BY <1>3, ModeTells DEF TransferInv
<1>5. p.items = IdentifiersOf(held)
  BY <1>3, <1>4, PacketTypes DEF AsMeant, Requested
<1>6. held \in Seq(LSARecords) /\ Len(held) \in Nat /\ DOMAIN held = 1 .. Len(held)
  BY DEF TransferInv
<1>7. /\ DOMAIN p.items = 1 .. Len(held)
      /\ \A k \in 1 .. Len(held) : Identifier(p.items[k]) = Identifier(held[k].hdr)
  BY <1>5, <1>6 DEF IdentifiersOf, Identifier
<1>8. \A k \in 1 .. Len(held) : Find(p.items[k]) = {k}
  BY <1>6, <1>7, HeldFacts DEF Distinct
<1> HIDE DEF Find
<1>9. Found(p)
  BY <1>7, <1>8
<1>10. list' = held
  <2>1. list' = [k \in 1 .. Len(held) |-> held[CHOOSE i \in Find(p.items[k]) : TRUE]]
    BY <1>1, <1>7, <1>9
  <2>2. \A k \in 1 .. Len(held) : held[CHOOSE i \in Find(p.items[k]) : TRUE] = held[k]
    BY <1>8
  <2>3. list' = [k \in 1 .. Len(held) |-> held[k]]
    BY <2>1, <2>2
  <2>4. QED
    BY <1>6, <2>3
<1>11. bad' = FALSE /\ mode' = "direct"
  BY <1>1, <1>9
<1> HIDE DEF Found
<1>12. has = <<>>
  BY <1>4 DEF Requested
<1>13. Answering'
  <2>1. Follows(list', held, 0) /\ Turned(has, held, Len(held))
    BY <1>6, <1>10, <1>12 DEF Follows, Turned
  <2>2. Len(has) + Len(list') = Len(held)
    BY <1>6, <1>10, <1>12
  <2>3. QED
    BY <1>2, <2>1, <2>2 DEF Answering
<1>14. AsMeant(got, meant)'
  BY <1>1, <1>3
<1>15. QED
  BY <1>2, <1>4, <1>6, <1>10, <1>11, <1>13, <1>14 DEF TransferInv

\* The next LSAs from behind are sent: they are below the limit.
LEMMA DirectSent ==
  ASSUME TransferAssumptions, TransferInv, SendDirect
  PROVE  TransferInv'
<1> DEFINE back == Reverse(list)
           k == DirectCount(back)
           part == SubSeq(back, 1, k)
           items == AgedAll(part)
           p == Packet(OSPF_TYPE_LINK_STATE_UPDATE, items)
           m == Len(list) - k
<1>1. /\ sent' = p /\ wire' = WritePacket(p) /\ UNCHANGED <<got, meant>>
      /\ mode = "direct" /\ wire = <<>>
      /\ list' = SubSeq(list, 1, m)
      /\ UNCHANGED <<origin, held, mode, has, hop, bad>>
  BY DEF SendDirect, Send
<1>2. /\ held \in Seq(LSARecords) /\ list \in Seq(LSARecords)
      /\ has \in Seq(LSARecords)
      /\ Answering
  BY <1>1 DEF TransferInv
<1>3. /\ Len(list) \in Nat /\ Len(held) \in Nat /\ Len(has) \in Nat
      /\ Follows(list, held, 0) /\ Turned(has, held, Len(held))
      /\ Len(has) + Len(list) = Len(held)
  BY <1>1, <1>2 DEF Answering
<1>4. /\ back \in Seq(LSARecords) /\ Len(back) = Len(list)
      /\ \A i \in 1 .. Len(list) : back[i] = list[Len(list) + 1 - i]
  <2>1. back = [i \in 1 .. Len(list) |-> list[Len(list) + 1 - i]]
    BY <1>3 DEF Reverse
  <2>2. \A i \in 1 .. Len(list) : Len(list) + 1 - i \in 1 .. Len(list)
    BY <1>3
  <2>3. \A i \in 1 .. Len(list) : list[Len(list) + 1 - i] \in LSARecords
    BY <1>2, <2>2
  <2>4. back \in [1 .. Len(list) -> LSARecords]
    BY <2>1, <2>3
  <2>5. \A i \in 1 .. Len(list) : back[i] = list[Len(list) + 1 - i]
    BY <2>1
  <2> HIDE DEF back
  <2>6. QED
    BY <1>3, <2>4, <2>5, SequenceOf
<1> HIDE DEF back
<1>5. k \in 0 .. Len(list) /\ SizeOf(part) < MaxBytes
  BY <1>4, DirectCountIs
<1> HIDE DEF k
<1>6. /\ part \in Seq(LSARecords) /\ Len(part) = k
      /\ \A i \in 1 .. k : part[i] = back[i]
  BY <1>4, <1>5, FirstOf
<1> HIDE DEF part
<1>7. /\ items \in Seq(LSARecords) /\ Len(items) = k
      /\ \A i \in 1 .. k : Told(items[i]) = Told(part[i])
      /\ SizeOf(items) = SizeOf(part)
  BY <1>6, AgedAllIs
<1> HIDE DEF items
<1>8. Turned(items, held, Len(held) - Len(has))
  <2>1. Len(held) - Len(has) = Len(list) /\ k <= Len(list) /\ Len(list) <= Len(held)
    BY <1>3, <1>5
  <2>2. ASSUME NEW i \in 1 .. k PROVE Told(items[i]) = Told(held[Len(list) + 1 - i])
    <3> DEFINE j == Len(list) + 1 - i
    <3>1. i \in 1 .. Len(list) /\ j \in 1 .. Len(list) /\ 0 + j = j
      BY <1>3, <1>5
    <3>2. back[i] = list[j]
      BY <1>4, <3>1
    <3> HIDE DEF j
    <3>3. Told(list[j]) = Told(held[j])
      BY <1>3, <3>1 DEF Follows
    <3>4. Told(items[i]) = Told(held[j])
      BY <1>6, <1>7, <3>2, <3>3
    <3>5. QED
      BY <3>4 DEF j
  <2>3. QED
    BY <1>7, <2>1, <2>2 DEF Turned
<1>9. 20 + SizeOf(items) < Power(2) /\ SizeOf(items) \in Nat
  <2>1. Len(held) - Len(has) \in Nat
    BY <1>3
  <2>2. SizeOf(items) <= SizeOf(held)
    BY <1>2, <1>7, <1>8, <2>1, TurnedSize
  <2>3. /\ SizeOf(held) \in Nat /\ 20 + SizeOf(held) < Power(2)
        /\ SizeOf(items) \in Nat /\ Power(2) \in Nat
    BY <1>7, HeldFacts, SizeOfIs, PowerType
  <2>4. QED
    BY <2>2, <2>3
<1>10. /\ p \in UpdatePackets /\ p.items = items
       /\ PacketSize(p) = 20 + SizeOf(items)
  BY <1>7, <1>9, HeldFacts, MadeUpdate
<1> HIDE DEF p
<1>11. PacketSize(p) < MaxBytes + 20
  BY <1>5, <1>7, <1>9, <1>10, BytesAssumption
<1>12. /\ m \in 0 .. Len(list)
       /\ list' \in Seq(LSARecords) /\ Len(list') = m
       /\ \A i \in 1 .. m : list'[i] = list[i]
  <2>1. m \in 0 .. Len(list)
    BY <1>3, <1>5
  <2> HIDE DEF m
  <2>2. QED
    BY <1>1, <1>2, <2>1, FirstOf
<1>13. Follows(list', held, 0)
  <2>1. 0 + m <= Len(held)
    BY <1>3, <1>12
  <2>2. ASSUME NEW i \in 1 .. m PROVE Told(list'[i]) = Told(held[0 + i])
    <3>1. i \in 1 .. Len(list)
      BY <1>3, <1>12
    <3>2. QED
      BY <1>3, <1>12, <3>1 DEF Follows
  <2> HIDE DEF m
  <2>3. QED
    BY <1>12, <2>1, <2>2 DEF Follows
<1>14. Len(has) + Len(items) + Len(list') = Len(held)
  <2>1. m + k = Len(list) /\ m \in Nat /\ k \in Nat
    BY <1>3, <1>5
  <2> HIDE DEF m
  <2>2. Len(has) + k + m = Len(held)
    BY <1>3, <2>1
  <2>3. QED
    BY <1>7, <1>12, <2>2
<1> HIDE DEF m
<1>15. p \in AllPackets
  BY <1>10 DEF AllPackets
<1>16. wire' # <<>>
  BY <1>1, <1>15, PacketArrives
<1>17. Answering'
  BY <1>1, <1>3, <1>8, <1>10, <1>11, <1>13, <1>14, <1>16 DEF Answering
<1>18. QED
  BY <1>1, <1>12, <1>15, <1>17 DEF TransferInv

\* The retransmission list is what is held.
LEMMA Flooded ==
  ASSUME TransferAssumptions, TransferInv, Flood
  PROVE  TransferInv'
<1>1. /\ mode = "idle" /\ mode' = "rxmt" /\ wire = <<>> /\ list' = held
      /\ hop < Hops
      /\ UNCHANGED <<origin, held, has, wire, sent, got, meant, hop, bad>>
  BY DEF Flood
<1>2. held \in Seq(LSARecords) /\ Len(held) \in Nat /\ has = <<>>
  BY <1>1 DEF TransferInv, Idle
<1>3. Retransmitting'
  <2>1. Len(held) - Len(held) = 0 /\ Len(held) <= Len(held) /\ Len(has) = 0
    BY <1>2
  <2>2. Follows(held, held, 0) /\ Follows(has, held, 0)
    BY <1>2, <2>1 DEF Follows
  <2>3. Len(has) + Len(held) = Len(held)
    BY <1>2, <2>1
  <2>4. QED
    BY <1>1, <2>1, <2>2, <2>3 DEF Retransmitting
<1>4. QED
  BY <1>1, <1>2, <1>3 DEF TransferInv

\* The first LSAs of the retransmission list are sent.
LEMMA RetransmissionSent ==
  ASSUME TransferAssumptions, TransferInv, SendRetransmission
  PROVE  TransferInv'
<1> DEFINE first == Retransmitted(list)
           items == AgedAll(first)
           p == Packet(OSPF_TYPE_LINK_STATE_UPDATE, items)
           n == Len(list)
<1>1. /\ sent' = p /\ wire' = WritePacket(p) /\ UNCHANGED <<got, meant>>
      /\ mode = "rxmt" /\ wire = <<>>
      /\ list' = items \o SubSeq(list, Len(items) + 1, Len(list))
      /\ UNCHANGED <<origin, held, mode, has, hop, bad>>
  BY DEF SendRetransmission, Send
<1>2. /\ held \in Seq(LSARecords) /\ list \in Seq(LSARecords)
      /\ has \in Seq(LSARecords)
      /\ Retransmitting
  BY <1>1 DEF TransferInv
<1>3. /\ n \in Nat /\ Len(held) \in Nat /\ Len(has) \in Nat
      /\ n <= Len(held) /\ Follows(list, held, Len(held) - n)
      /\ Follows(has, held, 0)
      /\ Len(has) + n = Len(held)
  BY <1>1, <1>2 DEF Retransmitting
<1>4. PICK m \in 0 .. n : first = SubSeq(list, 1, m)
  BY <1>2, RetransmittedIs
<1>5. /\ first \in Seq(LSARecords) /\ Len(first) = m
      /\ \A i \in 1 .. m : first[i] = list[i]
  BY <1>2, <1>4, FirstOf
<1> HIDE DEF first
<1>6. /\ items \in Seq(LSARecords) /\ Len(items) = m
      /\ \A i \in 1 .. m : Told(items[i]) = Told(first[i])
  BY <1>5, AgedAllIs
<1> HIDE DEF items
<1>7. /\ list' \in Seq(LSARecords) /\ Len(list') = n
      /\ \A i \in 1 .. m : list'[i] = items[i]
      /\ \A i \in 1 .. n : Told(list'[i]) = Told(list[i])
  <2> DEFINE rest == SubSeq(list, m + 1, n)
  <2>1. /\ rest \in Seq(LSARecords) /\ Len(rest) = n - m
        /\ \A i \in 1 .. n - m : rest[i] = list[m + i]
    BY <1>2, <1>4, LastOf
  <2>2. list' = items \o rest
    BY <1>1, <1>6
  <2> HIDE DEF rest, n
  <2>3. /\ items \o rest \in Seq(LSARecords)
        /\ Len(items \o rest) = m + (n - m)
        /\ \A i \in 1 .. m : (items \o rest)[i] = items[i]
        /\ \A i \in 1 .. n - m : (items \o rest)[m + i] = rest[i]
    <3> DEFINE l == n - m
    <3>1. Len(rest) = l
      BY <2>1
    <3> HIDE DEF l
    <3>5. items \in Seq(LSARecords) /\ rest \in Seq(LSARecords)
      BY <1>6, <2>1
    <3>6. items \o rest \in Seq(LSARecords) /\ IsJoined(items \o rest, items, rest)
      BY <3>5, JoinedIsJoined
    <3>2. /\ items \o rest \in Seq(LSARecords)
          /\ Len(items \o rest) = Len(items) + Len(rest)
          /\ \A i \in 1 .. Len(items) : (items \o rest)[i] = items[i]
          /\ \A i \in 1 .. Len(rest) : (items \o rest)[Len(items) + i] = rest[i]
      BY <3>6, Zenon DEF IsJoined
    <3>3. /\ Len(items \o rest) = m + l
          /\ \A i \in 1 .. m : (items \o rest)[i] = items[i]
          /\ \A i \in 1 .. l : (items \o rest)[m + i] = rest[i]
      BY <1>6, <3>1, <3>2, Zenon
    <3>4. QED
      BY <3>2, <3>3 DEF l
  <2>4. m + (n - m) = n
    BY <1>3, <1>4
  <2>5. ASSUME NEW i \in 1 .. n PROVE Told(list'[i]) = Told(list[i])
    <3>1. CASE i \in 1 .. m
      BY <1>5, <1>6, <2>2, <2>3, <3>1
    <3>2. CASE ~(i \in 1 .. m)
      <4> DEFINE j == i - m
      <4>1. j \in 1 .. n - m /\ m + j = i
        BY <1>3, <1>4, <3>2
      <4> HIDE DEF j
      <4>2. (items \o rest)[m + j] = rest[j] /\ rest[j] = list[m + j]
        BY <2>1, <2>3, <4>1
      <4>3. QED
        BY <2>2, <4>1, <4>2
    <3>3. QED
      BY <3>1, <3>2
  <2>6. QED
    BY <2>2, <2>3, <2>4, <2>5
<1>8. Follows(list', held, Len(held) - n) /\ Follows(items, list', 0)
  <2> DEFINE o == Len(held) - n
  <2>1. o \in Nat /\ o + n <= Len(held) /\ m <= n
    BY <1>3, <1>4
  <2>2. \A i \in 1 .. n : Told(list[i]) = Told(held[o + i])
    BY <1>3 DEF Follows
  <2>3. \A i \in 1 .. m : 0 + i = i
    BY <1>4
  <2>4. 0 + m <= n
    BY <1>3, <1>4
  <2> HIDE DEF o, n
  <2>5. Follows(list', held, o)
    BY <1>7, <2>1, <2>2 DEF Follows
  <2>6. Follows(items, list', 0)
    BY <1>6, <1>7, <2>3, <2>4 DEF Follows
  <2>7. QED
    BY <2>5, <2>6 DEF o
<1>9. 20 + SizeOf(items) < Power(2)
  <2>1. SizeOf(items) <= SizeOf(list')
    BY <1>6, <1>7, <1>8, FollowsSize
  <2>2. Len(held) - n \in Nat
    BY <1>3
  <2>3. SizeOf(list') <= SizeOf(held)
    BY <1>2, <1>7, <1>8, <2>2, FollowsSize
  <2>4. /\ SizeOf(held) \in Nat /\ 20 + SizeOf(held) < Power(2)
        /\ SizeOf(items) \in Nat /\ SizeOf(list') \in Nat /\ Power(2) \in Nat
    BY <1>6, <1>7, HeldFacts, SizeOfIs, PowerType
  <2>5. QED
    BY <2>1, <2>3, <2>4
<1>10. p \in UpdatePackets /\ p.items = items
  BY <1>6, <1>9, HeldFacts, MadeUpdate
<1> HIDE DEF p
<1>11. p \in AllPackets
  BY <1>10 DEF AllPackets
<1>12. wire' # <<>>
  BY <1>1, <1>11, PacketArrives
<1>13. Retransmitting'
  BY <1>1, <1>3, <1>7, <1>8, <1>10, <1>12 DEF Retransmitting
<1>14. QED
  BY <1>1, <1>7, <1>11, <1>13 DEF TransferInv

\* The items of an update, as they are received.
LEMMA ItemsReceived ==
  ASSUME TransferAssumptions, TransferInv,
         NEW p \in Arriving(OSPF_TYPE_LINK_STATE_UPDATE)
  PROVE  /\ sent \in UpdatePackets /\ sent.items \in Seq(LSARecords)
         /\ PacketSize(sent) = 20 + SizeOf(sent.items)
         /\ PacketSize(sent) < Power(2)
         /\ p.items \in Seq(LSARecords)
         /\ Len(p.items) = Len(sent.items)
         /\ \A i \in 1 .. Len(p.items) : Told(p.items[i]) = Told(sent.items[i])
<1>1. /\ wire # <<>> /\ sent.type = 4 /\ p = ReadPacket(wire, "left")
  BY ArrivingIs, PacketTypes
<1>2. sent \in AllPackets /\ wire = WritePacket(sent)
  BY <1>1, ModeTells
<1>3. sent \in UpdatePackets
  BY <1>1, <1>2, TypeTells
<1> DEFINE items == sent.items
           n == Len(sent.items)
<1>4. /\ items \in Seq(LSARecords) /\ n \in Nat
      /\ PacketSize(sent) = 20 + Total(LSASizes(items))
      /\ PacketSize(sent) < Power(2)
  BY <1>3, UpdatePacketWritten DEF IsWritten
<1>5. PacketSize(sent) = 20 + SizeOf(items)
  BY <1>4, SizeOfIs
<1>6. p.items = [k \in 1 .. n |-> Arrived(items[k])]
  BY <1>1, <1>2, <1>3, UpdateItems
<1>7. \A k \in 1 .. n : items[k] \in LSARecords
  BY <1>4
<1> HIDE DEF items, n
<1>8. \A k \in 1 .. n : /\ Arrived(items[k]) \in LSARecords
                        /\ Told(Arrived(items[k])) = Told(items[k])
  BY <1>7, ArrivedIs
<1>9. p.items \in [1 .. n -> LSARecords]
  BY <1>6, <1>8
<1>10. p.items \in Seq(LSARecords) /\ Len(p.items) = n
  BY <1>4, <1>9, SequenceOf
<1>11. \A k \in 1 .. n : Told(p.items[k]) = Told(items[k])
  BY <1>6, <1>8
<1>12. QED
  BY <1>3, <1>4, <1>5, <1>10, <1>11 DEF items, n

\* The neighbour has none of the LSAs of an update yet, and takes them all.
LEMMA UpdateReceived ==
  ASSUME TransferAssumptions, TransferInv, ReceiveUpdate
  PROVE  TransferInv'
<1> DEFINE acked(p) == [i \in DOMAIN p.items |-> p.items[i].hdr]
<1>1. PICK p \in Arriving(OSPF_TYPE_LINK_STATE_UPDATE) :
        /\ has' = has \o Selected(p.items,
              {k \in DOMAIN p.items : \A i \in DOMAIN has :
                 Identifier(has[i].hdr) # Identifier(p.items[k].hdr)})
        /\ got' = p /\ meant' = sent
        /\ sent' = Packet(OSPF_TYPE_LINK_STATE_ACK, acked(p))
        /\ wire' = WritePacket(sent')
  BY DEF ReceiveUpdate, Receive
<1>2. UNCHANGED <<origin, held, list, mode, hop, bad>>
  BY DEF ReceiveUpdate
<1> DEFINE items == p.items
           n == Len(sent.items)
<1>3. /\ wire # <<>> /\ sent.type = 4 /\ AsMeant(p, sent)
  BY ArrivingIs, PacketTypes
<1>4. /\ sent \in UpdatePackets /\ sent.items \in Seq(LSARecords)
      /\ PacketSize(sent) = 20 + SizeOf(sent.items)
      /\ PacketSize(sent) < Power(2)
      /\ items \in Seq(LSARecords) /\ Len(items) = n /\ n \in Nat
      /\ \A i \in 1 .. n : Told(items[i]) = Told(sent.items[i])
  BY ItemsReceived
<1>5. ~(sent \in AckPackets)
  BY <1>3, AckPacketWritten
<1>6. /\ held \in Seq(LSARecords) /\ list \in Seq(LSARecords)
      /\ has \in Seq(LSARecords)
      /\ Len(held) \in Nat /\ Len(list) \in Nat /\ Len(has) \in Nat
      /\ mode \in {"direct", "rxmt"}
  <2>1. /\ held \in Seq(LSARecords) /\ list \in Seq(LSARecords)
        /\ has \in Seq(LSARecords)
    BY DEF TransferInv
  <2>2. mode \in {"direct", "rxmt"}
    BY <1>3, ModeTells
  <2>3. Len(held) \in Nat /\ Len(list) \in Nat /\ Len(has) \in Nat
    BY <2>1
  <2>4. QED
    BY <2>1, <2>2, <2>3
\* What the neighbour has then.
<1> DEFINE r == has \o items
<1>7. r \in Seq(LSARecords) /\ Len(r) = Len(has) + n
  <2>1. has \in Seq(LSARecords) /\ items \in Seq(LSARecords) /\ Len(items) = n
    BY <1>4, <1>6
  <2> HIDE DEF items, n
  <2>2. r \in Seq(LSARecords) /\ IsJoined(r, has, items)
    BY <2>1, JoinedIsJoined
  <2> HIDE DEF r
  <2>3. QED
    BY <2>1, <2>2 DEF IsJoined
<1>8. ASSUME mode = "direct"
      PROVE  /\ Follows(list, held, 0) /\ Turned(r, held, Len(held))
             /\ PacketSize(sent) < MaxBytes + 20
             /\ Len(r) + Len(list) = Len(held)
  <2>1. /\ Follows(list, held, 0) /\ Turned(has, held, Len(held))
        /\ PacketSize(sent) < MaxBytes + 20
        /\ Len(has) + n + Len(list) = Len(held)
        /\ Turned(sent.items, held, Len(held) - Len(has))
    BY <1>3, <1>5, <1>8 DEF TransferInv, Answering
  <2>2. Turned(items, held, Len(held) - Len(has))
    BY <1>4, <2>1 DEF Turned
  <2> HIDE DEF items
  <2>3. Turned(r, held, Len(held))
    BY <1>4, <1>6, <2>1, <2>2, JoinTurned
  <2> HIDE DEF r
  <2>4. QED
    BY <1>7, <2>1, <2>3
<1>9. ASSUME mode = "rxmt"
      PROVE  /\ Len(list) <= Len(held) /\ Follows(list, held, Len(held) - Len(list))
             /\ Follows(r, held, 0)
             /\ Len(r) + Len(list) = Len(held) + n
             /\ n <= Len(list) /\ Follows(sent.items, list, 0)
  <2>1. /\ Len(list) <= Len(held) /\ Follows(list, held, Len(held) - Len(list))
        /\ Follows(has, held, 0)
        /\ Len(has) + Len(list) = Len(held)
        /\ Follows(sent.items, list, 0)
    BY <1>3, <1>5, <1>9 DEF TransferInv, Retransmitting
  <2>2. n <= Len(list)
    BY <1>4, <1>6, <2>1 DEF Follows
  <2>3. Follows(items, held, Len(has))
    <3>1. Len(held) - Len(list) = Len(has)
      BY <1>6, <2>1
    <3>2. \A i \in 1 .. n : Told(sent.items[i]) = Told(list[i])
      <4>1. \A i \in 1 .. n : Told(sent.items[i]) = Told(list[0 + i]) /\ 0 + i = i
        BY <1>4, <2>1 DEF Follows
      <4>2. QED
        BY <4>1
    <3>3. \A i \in 1 .. n : Told(list[i]) = Told(held[Len(has) + i])
      <4>1. \A i \in 1 .. Len(list) : Told(list[i]) = Told(held[Len(has) + i])
        BY <2>1, <3>1 DEF Follows
      <4>2. \A i \in 1 .. n : i \in 1 .. Len(list)
        <5>1. n \in Nat /\ Len(list) \in Nat
          BY <1>4, <1>6
        <5> HIDE DEF n
        <5>2. QED
          BY <2>2, <5>1
      <4>3. QED
        BY <4>1, <4>2
    <3>4. Len(has) + n <= Len(held)
      BY <1>4, <1>6, <2>1, <2>2
    <3> HIDE DEF items, n
    <3>5. QED
      BY <1>4, <3>2, <3>3, <3>4 DEF Follows
  <2> HIDE DEF items
  <2>4. Follows(r, held, 0)
    BY <1>4, <1>6, <2>1, <2>3, JoinFollows
  <2> HIDE DEF r, n
  <2>5. Len(r) + Len(list) = Len(held) + n
    <3>1. n \in Nat /\ Len(has) \in Nat /\ Len(list) \in Nat
      BY <1>4, <1>6
    <3>2. Len(r) = Len(has) + n /\ Len(has) + Len(list) = Len(held)
      BY <1>7, <2>1
    <3>3. QED
      BY <3>1, <3>2
  <2>6. QED
    BY <2>1, <2>2, <2>4, <2>5
<1>10. has' = r
  <2> DEFINE I == {k \in DOMAIN items : \A i \in DOMAIN has :
                     Identifier(has[i].hdr) # Identifier(items[k].hdr)}
  <2>1. has' = has \o Selected(items, I)
    BY <1>1
  <2>2. Distinct(r)
    <3>1. Distinct(held)
      BY HeldFacts
    <3> HIDE DEF r
    <3>2. CASE mode = "direct"
      BY <1>6, <1>7, <1>8, <3>1, <3>2, TurnedDistinct
    <3>3. CASE mode = "rxmt"
      BY <1>6, <1>7, <1>9, <3>1, <3>3, FollowsDistinct
    <3>4. QED
      BY <1>6, <3>2, <3>3
  <2> HIDE DEF items
  <2>3. Selected(items, I) = items
    BY <1>4, <1>6, <2>2, TakesAll
  <2> HIDE DEF I
  <2>4. QED
    BY <2>1, <2>3
<1> HIDE DEF r
\* The acknowledgment.
<1> DEFINE hdrs == acked(p)
<1>11. /\ hdrs \in Seq(Headers) /\ Len(hdrs) = n
       /\ \A i \in 1 .. n : hdrs[i] = items[i].hdr
  <2>1. \A i \in 1 .. n : items[i] \in LSARecords
    BY <1>4
  <2>2. DOMAIN items = 1 .. n
    BY <1>4
  <2> HIDE DEF items
  <2>3. \A i \in 1 .. n : items[i].hdr \in Headers
    BY <2>1, RecordParts
  <2>4. hdrs = [i \in 1 .. n |-> items[i].hdr]
    BY <2>2 DEF items
  <2> HIDE DEF n
  <2>5. hdrs \in [1 .. n -> Headers]
    BY <2>3, <2>4
  <2>6. \A i \in 1 .. n : hdrs[i] = items[i].hdr
    BY <2>4
  <2> HIDE DEF hdrs
  <2>7. QED
    BY <1>4, <2>5, <2>6, SequenceOf
<1>12. 16 + 20 * n < PacketSize(sent)
  <2>1. 24 * n <= SizeOf(sent.items) /\ SizeOf(sent.items) \in Nat
    BY <1>4, SizeOfIs
  <2> HIDE DEF n
  <2>2. QED
    BY <1>4, <2>1
<1>13. 16 + 20 * Len(hdrs) < Power(2)
  <2>1. SizeOf(sent.items) \in Nat /\ Power(2) \in Nat
    BY <1>4, SizeOfIs, PowerType
  <2>2. PacketSize(sent) \in Nat
    BY <1>4, <2>1
  <2> HIDE DEF hdrs, n
  <2>3. QED
    BY <1>4, <1>11, <1>12, <2>1, <2>2
<1>14. sent' = Packet(OSPF_TYPE_LINK_STATE_ACK, hdrs)
  BY <1>1
<1> HIDE DEF hdrs
<1>15. sent' \in AckPackets /\ sent'.items = hdrs /\ PacketSize(sent') = 16 + 20 * n
  <2> DEFINE q == Packet(OSPF_TYPE_LINK_STATE_ACK, hdrs)
  <2>1. q \in AckPackets /\ q.items = hdrs /\ PacketSize(q) = 16 + 20 * Len(hdrs)
    BY <1>11, <1>13, HeldFacts, MadeAck
  <2>2. sent' = q
    BY <1>14
  <2> HIDE DEF q
  <2>3. QED
    BY <1>11, <2>1, <2>2
<1>16. sent' \in AllPackets
  BY <1>15 DEF AllPackets
<1>17. wire' = WritePacket(sent') /\ wire' # <<>>
  BY <1>1, <1>16, PacketArrives
<1>18. mode' = "direct" => Answering'
  <2> SUFFICES ASSUME mode = "direct" PROVE Answering'
    BY <1>2
  <2>1. /\ Follows(list, held, 0) /\ Turned(r, held, Len(held))
        /\ PacketSize(sent) < MaxBytes + 20
        /\ Len(r) + Len(list) = Len(held)
    BY <1>8
  <2>2. PacketSize(sent') < MaxBytes + 20
    <3>1. SizeOf(sent.items) \in Nat /\ MaxBytes \in Nat
      BY <1>4, SizeOfIs, BytesAssumption
    <3> HIDE DEF n
    <3>2. QED
      BY <1>4, <1>12, <1>15, <2>1, <3>1
  <2>3. QED
    BY <1>2, <1>10, <1>15, <1>17, <2>1, <2>2 DEF Answering
<1>19. mode' = "rxmt" => Retransmitting'
  <2> SUFFICES ASSUME mode = "rxmt" PROVE Retransmitting'
    BY <1>2
  <2>1. /\ Len(list) <= Len(held) /\ Follows(list, held, Len(held) - Len(list))
        /\ Follows(r, held, 0)
        /\ Len(r) + Len(list) = Len(held) + n
        /\ n <= Len(list) /\ Follows(sent.items, list, 0)
    BY <1>9
  <2>2. Acknowledges(hdrs, list)
    <3>1. ASSUME NEW i \in 1 .. n
          PROVE  /\ Identifier(hdrs[i]) = Identifier(list[i].hdr)
                 /\ hdrs[i].seqNum = list[i].hdr.seqNum
      <4>1. items[i] \in LSARecords /\ hdrs[i] = items[i].hdr
        BY <1>4, <1>11
      <4>2. i \in 1 .. Len(list) /\ 0 + i = i
        BY <1>4, <1>6, <2>1
      <4>3. list[i] \in LSARecords
        BY <1>6, <4>2
      <4>4. Told(sent.items[i]) = Told(list[i])
        <5>1. Told(sent.items[i]) = Told(list[0 + i])
          BY <2>1 DEF Follows
        <5>2. QED
          BY <4>2, <5>1
      <4>5. Told(items[i]) = Told(list[i])
        BY <1>4, <4>4
      <4> HIDE DEF items
      <4>6. QED
        BY <4>1, <4>3, <4>5, ToldSame
    <3> HIDE DEF n
    <3>2. QED
      BY <1>11, <2>1, <3>1 DEF Acknowledges
  <2> HIDE DEF n
  <2>3. QED
    BY <1>2, <1>10, <1>11, <1>15, <1>17, <2>1, <2>2 DEF Retransmitting
<1>20. AsMeant(got, meant)'
  BY <1>1, <1>3
<1>21. QED
  BY <1>2, <1>6, <1>7, <1>10, <1>16, <1>17, <1>18, <1>19, <1>20 DEF TransferInv

\* An acknowledgment takes the LSAs off the list that it names, the first ones.
LEMMA AckReceived ==
  ASSUME TransferAssumptions, TransferInv, ReceiveAck
  PROVE  TransferInv'
<1> DEFINE Open(p) == {k \in DOMAIN list : \A i \in DOMAIN p.items :
                         \/ Identifier(p.items[i]) # Identifier(list[k].hdr)
                         \/ p.items[i].seqNum # list[k].hdr.seqNum}
<1>1. PICK p \in Arriving(OSPF_TYPE_LINK_STATE_ACK) :
        /\ got' = p /\ meant' = sent
        /\ list' = IF mode = "rxmt" THEN Selected(list, Open(p)) ELSE list
  BY DEF ReceiveAck, Receive
<1>2. wire' = <<>> /\ UNCHANGED <<origin, held, mode, has, sent, hop, bad>>
  BY DEF ReceiveAck
<1>3. /\ wire # <<>> /\ sent.type = 5 /\ AsMeant(p, sent)
  BY ArrivingIs, PacketTypes
<1>4. sent \in AckPackets /\ ~(sent \in UpdatePackets)
  BY <1>3, ModeTells, TypeTells
<1>5. /\ p.items = sent.items /\ sent.items \in Seq(Headers)
      /\ Len(sent.items) \in Nat
  <2>1. p.items = sent.items
    BY <1>3, PacketTypes DEF AsMeant
  <2>2. QED
    BY <1>4, <2>1, AckPacketWritten
<1>6. /\ held \in Seq(LSARecords) /\ list \in Seq(LSARecords)
      /\ has \in Seq(LSARecords)
  BY DEF TransferInv
<1>7. mode \in {"direct", "rxmt"}
  BY <1>3, ModeTells
<1>8. AsMeant(got, meant)'
  BY <1>1, <1>3
<1>9. CASE mode = "direct"
  <2>1. list' = list
    BY <1>1, <1>9
  <2>2. Answering /\ Len(has) + Len(list) = Len(held)
    BY <1>3, <1>4, <1>9 DEF TransferInv, Answering
  <2>3. Answering'
    BY <1>2, <2>1, <2>2 DEF Answering
  <2>4. QED
    BY <1>2, <1>6, <1>8, <1>9, <2>1, <2>3 DEF TransferInv
<1>10. CASE mode = "rxmt"
  <2> DEFINE items == sent.items
             m == Len(sent.items)
             n == Len(list)
             I == Open(p)
  <2>1. /\ n <= Len(held) /\ Follows(list, held, Len(held) - n)
        /\ Follows(has, held, 0)
        /\ Len(has) + n = Len(held) + m
        /\ Acknowledges(items, list)
    BY <1>3, <1>4, <1>10 DEF TransferInv, Retransmitting
  <2>2. n \in Nat /\ m \in Nat /\ Len(held) \in Nat /\ Len(has) \in Nat
    BY <1>5, <1>6
  <2>3. /\ m <= n
        /\ \A i \in 1 .. m : /\ Identifier(items[i]) = Identifier(list[i].hdr)
                             /\ items[i].seqNum = list[i].hdr.seqNum
    BY <2>1 DEF Acknowledges
  <2>4. Distinct(list)
    <3>1. Len(held) - n \in Nat
      BY <2>1, <2>2
    <3>2. QED
      BY <1>6, <2>1, <3>1, HeldFacts, FollowsDistinct
  <2>5. DOMAIN list = 1 .. n /\ DOMAIN p.items = 1 .. m /\ p.items = items
    BY <1>5, <1>6
  <2> HIDE DEF items, m, n
  <2>6. ASSUME NEW k \in 1 .. n PROVE k \in I <=> m < k
    <3>1. CASE m < k
      <4>1. ASSUME NEW i \in 1 .. m PROVE Identifier(items[i]) # Identifier(list[k].hdr)
        <5>1. i \in 1 .. n /\ i # k
          BY <2>2, <2>3, <3>1
        <5>2. Identifier(items[i]) = Identifier(list[i].hdr)
          BY <2>3
        <5>3. QED
          BY <2>4, <5>1, <5>2 DEF Distinct, n
      <4>2. k \in I
        BY <2>5, <4>1
      <4>3. QED
        BY <3>1, <4>2
    <3>2. CASE ~(m < k)
      <4>1. k \in 1 .. m
        BY <2>2, <3>2
      <4>2. ~(k \in I)
        BY <2>3, <2>5, <4>1
      <4>3. QED
        BY <3>2, <4>2
    <3>3. QED
      BY <3>1, <3>2
  <2>7. list' = Selected(list, I)
    BY <1>1, <1>10
  <2> HIDE DEF I
  <2>8. /\ list' \in Seq(LSARecords) /\ Len(list') = n - m
        /\ \A i \in 1 .. n - m : list'[i] = list[m + i]
    <3>1. m \in 0 .. n
      BY <2>2, <2>3
    <3> HIDE DEF Open
    <3>2. QED
      BY <1>6, <2>6, <2>7, <3>1, SelectedLast DEF n
  <2>9. Follows(list', held, Len(held) - (n - m))
    <3> DEFINE o == Len(held) - n
               l == n - m
    <3>1. /\ o \in Nat /\ l \in Nat /\ l <= Len(held) /\ o + m + l <= Len(held)
          /\ Len(held) - l = o + m
      BY <2>1, <2>2, <2>3
    <3>2. \A i \in 1 .. n : Told(list[i]) = Told(held[o + i])
      BY <2>1 DEF Follows, n
    <3>3. \A i \in 1 .. l : m + i \in 1 .. n /\ o + (m + i) = o + m + i
      BY <2>2, <2>3, <3>1
    <3>4. Len(list') = l /\ \A i \in 1 .. l : list'[i] = list[m + i]
      BY <2>8
    <3> HIDE DEF o, l
    <3>5. \A i \in 1 .. l : Told(list'[i]) = Told(held[o + m + i])
      BY <3>2, <3>3, <3>4
    <3>6. Follows(list', held, o + m)
      BY <3>1, <3>4, <3>5 DEF Follows
    <3>7. QED
      BY <3>1, <3>6 DEF l
  <2>10. n - m <= Len(held) /\ Len(has) + (n - m) = Len(held)
    BY <2>1, <2>2, <2>3
  <2>11. Retransmitting'
    BY <1>2, <2>1, <2>8, <2>9, <2>10 DEF Retransmitting
  <2>12. QED
    BY <1>2, <1>6, <1>8, <1>10, <2>8, <2>11 DEF TransferInv
<1>11. QED
  BY <1>7, <1>9, <1>10

\* The neighbour has all that was held, and holds it then.
LEMMA Forwarded ==
  ASSUME TransferAssumptions, TransferInv, Forward
  PROVE  TransferInv'
<1>1. /\ mode \in {"direct", "rxmt"} /\ list = <<>> /\ wire = <<>>
      /\ held' = has /\ has' = <<>> /\ mode' = "idle" /\ hop' = hop + 1
      /\ UNCHANGED <<origin, list, wire, sent, got, meant, bad>>
  BY DEF Forward
<1>2. /\ origin \in Seq(LSARecords) /\ held \in Seq(LSARecords)
      /\ has \in Seq(LSARecords) /\ Agree(held, origin)
  BY DEF TransferInv, TransferAssumptions
<1>3. Len(has) \in Nat /\ Len(held) \in Nat /\ Len(list) = 0
  BY <1>1, <1>2
<1>4. Agree(has, held)
  <2>1. CASE mode = "direct"
    <3>1. Turned(has, held, Len(held)) /\ Len(has) + Len(list) = Len(held)
      BY <1>1, <2>1 DEF TransferInv, Answering
    <3>2. QED
      BY <1>3, <3>1 DEF Agree
  <2>2. CASE mode = "rxmt"
    <3>1. Follows(has, held, 0) /\ Len(has) + Len(list) = Len(held)
      BY <1>1, <2>2 DEF TransferInv, Retransmitting
    <3>2. QED
      BY <1>3, <3>1 DEF Agree
  <2>3. QED
    BY <1>1, <2>1, <2>2
<1>5. Agree(has, origin)
  BY <1>2, <1>4, AgreeOn
<1>6. hop' \in 0 .. Hops /\ mode' = "idle"
  BY <1>1, BytesAssumption DEF TransferInv
<1>7. Idle' /\ <<>> \in Seq(LSARecords)
  BY <1>1 DEF Idle
<1>8. QED
  BY <1>1, <1>2, <1>5, <1>6, <1>7 DEF TransferInv

-----------------------------------------------------------------------------
(* Theorems                                                                 *)

\* The bytes of the proofs are those of the model.
LEMMA ByteIs == \A x \in Byte : x \in UInt(1)
<1>1. \A x \in Byte : x \in Nat /\ x < 256
  BY SMT DEF Byte
<1>2. QED
  BY <1>1, Powers, SMT DEF UInt

\* Every step keeps the invariant.
LEMMA TransferStep ==
  ASSUME TransferAssumptions, TransferInv, [Next]_vars
  PROVE  TransferInv'
<1>1. CASE SendPacket
  BY <1>1, PacketSent
<1>2. CASE ReceivePacket
  BY <1>2, PacketReceived
<1>3. CASE SendRequest
  BY <1>3, RequestSent
<1>4. CASE ReceiveRequest
  BY <1>4, RequestReceived
<1>5. CASE SendDirect
  BY <1>5, DirectSent
<1>6. CASE Flood
  BY <1>6, Flooded
<1>7. CASE SendRetransmission
  BY <1>7, RetransmissionSent
<1>8. CASE ReceiveUpdate
  BY <1>8, UpdateReceived
<1>9. CASE ReceiveAck
  BY <1>9, AckReceived
<1>10. CASE Forward
  BY <1>10, Forwarded
<1>11. CASE UNCHANGED vars
  BY <1>11 DEF vars, TransferInv, Idle, Requested, Answering, Retransmitting
<1>12. QED
  BY <1>1, <1>2, <1>3, <1>4, <1>5, <1>6, <1>7, <1>8, <1>9, <1>10, <1>11
  DEF Next, Transfer

\* It is an invariant, whatever LSAs the first router holds.
LEMMA TransferAlways == TransferAssumptions /\ Spec => []TransferInv
<1>1. TransferAssumptions /\ Init => TransferInv
  BY TransferInit
<1>2. TransferAssumptions /\ TransferInv /\ [Next]_vars => TransferInv'
  BY TransferStep
<1>3. TransferAssumptions => []TransferAssumptions
  <2>1. TransferAssumptions => TransferAssumptions'
    BY DEF TransferAssumptions
  <2>2. QED
    BY <2>1, PTL
<1>4. QED
  BY <1>1, <1>2, <1>3, PTL DEF Spec

(* The members keep to their widths and the mode to the packet on the way,  *)
(* whatever LSAs the first router holds.                                    *)
THEOREM TransferTypes == TransferAssumptions /\ Spec => []TypeOK
<1>1. ASSUME TransferAssumptions, TransferInv PROVE TypeOK
  <2>1. \A i \in DOMAIN wire : wire[i] \in UInt(1)
    <3>1. CASE wire = <<>>
      BY <3>1
    <3>2. CASE wire # <<>>
      <4>1. wire \in Seq(Byte)
        BY <1>1, <3>2, ModeTells, PacketArrives
      <4>2. QED
        BY <4>1, ByteIs
    <3>3. QED
      BY <3>1, <3>2
  <2>2. ASSUME NEW l \in LSARecords
        PROVE  /\ l.hdr.age \in UInt(2)
               /\ l.hdr.type \in {OSPF_LSA_TYPE_ROUTER, OSPF_LSA_TYPE_LINK,
                                  OSPF_LSA_TYPE_INTRA_AREA_PREFIX}
               /\ l.hdr.type = OSPF_LSA_TYPE_LINK => l.body.rtrPriority \in UInt(1)
    <3>1. l.hdr \in Headers /\ l.hdr.type \in LSATypes /\ BodyFits(l.hdr.type, l.body)
      BY RecordParts
    <3>2. l.hdr.age \in UInt(2)
      BY <3>1 DEF Headers
    <3>3. l.hdr.type = OSPF_LSA_TYPE_LINK => l.body \in LinkBodies
      BY <3>1, TypesDiffer DEF BodyFits
    <3>4. l.body \in LinkBodies => l.body.rtrPriority \in UInt(1)
      BY DEF LinkBodies
    <3>5. QED
      BY <3>1, <3>2, <3>3, <3>4 DEF LSATypes
  <2>3. \A lsas \in {held, list, has} : \A i \in DOMAIN lsas : lsas[i] \in LSARecords
    BY <1>1 DEF TransferInv
  <2>4. mode = "requested" => wire # <<>>
    BY <1>1 DEF TransferInv, Requested
  <2>5. mode = "idle" => list = <<>>
    BY <1>1 DEF TransferInv, Idle
  <2>6. /\ mode \in {"idle", "requested", "direct", "rxmt"}
        /\ hop \in 0 .. Hops /\ bad \in BOOLEAN
    BY <1>1 DEF TransferInv
  <2>7. QED
    BY <2>1, <2>2, <2>3, <2>4, <2>5, <2>6 DEF TypeOK
<1>2. QED
  <2>1. TransferAssumptions /\ TransferInv => TypeOK
    BY <1>1
  <2>2. TransferAssumptions => []TransferAssumptions
    <3>1. TransferAssumptions => TransferAssumptions'
      BY DEF TransferAssumptions
    <3>2. QED
      BY <3>1, PTL
  <2>3. QED
    BY <2>1, <2>2, TransferAlways, PTL

(* Every packet is read as it was meant, whatever its members and however   *)
(* many neighbours, headers, identifiers, LSAs, links and prefixes it       *)
(* carries, if they fit (Serialize and Deserialize of all classes).         *)
THEOREM TransferArrives == TransferAssumptions /\ Spec => []PacketsArrive
<1>1. TransferInv => PacketsArrive
  BY DEF TransferInv, PacketsArrive, AsMeant
<1>2. QED
  BY <1>1, TransferAlways, PTL

(* GetSerializedSize is what Serialize writes, of the packet and of the     *)
(* LSAs in it, and the length in the header says it.                        *)
THEOREM TransferLengths == TransferAssumptions /\ Spec => []LengthsTold
<1>1. ASSUME TransferInv PROVE LengthsTold
  <2> SUFFICES ASSUME wire # <<>>
               PROVE  /\ Len(wire) = PacketSize(sent)
                      /\ Number(wire, 2, 2) = Len(wire)
                      /\ sent.type = OSPF_TYPE_LINK_STATE_UPDATE =>
                           \A i \in DOMAIN sent.items :
                              Len(WriteLSA(sent.items[i])) = LSASize(sent.items[i])
    BY DEF LengthsTold
  <2>1. sent \in AllPackets /\ wire = WritePacket(sent)
    BY <1>1, ModeTells
  <2>2. Len(wire) = PacketSize(sent) /\ Number(wire, 2, 2) = PacketSize(sent)
    BY <2>1, PacketArrives, PacketWritten
  <2>3. ASSUME sent.type = OSPF_TYPE_LINK_STATE_UPDATE, NEW i \in DOMAIN sent.items
        PROVE  Len(WriteLSA(sent.items[i])) = LSASize(sent.items[i])
    <3>1. sent.items \in Seq(LSARecords)
      BY <2>1, <2>3, TypeTells, PacketTypes, UpdatePacketWritten
    <3>2. sent.items[i] \in LSARecords
      BY <3>1
    <3>3. QED
      BY <3>2, LSAWritten
  <2>4. QED
    BY <2>2, <2>3
<1>2. QED
  <2>1. TransferInv => LengthsTold
    BY <1>1
  <2>2. QED
    BY <2>1, TransferAlways, PTL

(* Every router on the way holds each LSA of the first one once, with all   *)
(* it tells, however many updates they took and whichever way they came,    *)
(* and no request is refused.                                               *)
THEOREM TransferAgrees == TransferAssumptions /\ Spec => []HoldersAgree
<1>1. ASSUME TransferAssumptions, TransferInv PROVE HoldersAgree
  BY <1>1, HeldFacts DEF HoldersAgree, TransferInv
<1>2. QED
  <2>1. TransferAssumptions /\ TransferInv => HoldersAgree
    BY <1>1
  <2>2. TransferAssumptions => []TransferAssumptions
    <3>1. TransferAssumptions => TransferAssumptions'
      BY DEF TransferAssumptions
    <3>2. QED
      BY <3>1, PTL
  <2>3. QED
    BY <2>1, <2>2, TransferAlways, PTL

(* No update that answers a request is longer than the limit by 20 bytes    *)
(* or more, whatever the sizes of the LSAs (lines 1977-1983).               *)
THEOREM TransferFits == TransferAssumptions /\ Spec => []DirectFits
<1>1. ASSUME TransferInv PROVE DirectFits
  <2> SUFFICES ASSUME mode = "direct", wire # <<>> PROVE Len(wire) < MaxBytes + 20
    BY DEF DirectFits
  <2>1. PacketSize(sent) < MaxBytes + 20
    BY <1>1 DEF TransferInv, Answering
  <2>2. sent \in AllPackets /\ wire = WritePacket(sent)
    BY <1>1, ModeTells
  <2>3. Len(wire) = PacketSize(sent)
    BY <2>2, PacketArrives, PacketWritten
  <2>4. QED
    BY <2>1, <2>3
<1>2. QED
  <2>1. TransferInv => DirectFits
    BY <1>1
  <2>2. QED
    BY <2>1, TransferAlways, PTL
=============================================================================
