------------------------- MODULE LsaFloodingProofs -------------------------
(***************************************************************************)
(* Proofs about LsaFlooding, for every area and every bound: the type        *)
(* invariant, Backed, Covered, QuietAgree of a connected area, and that      *)
(* flooding implements LsdbReplication.  Backed and Covered are inductive    *)
(* only together: that an acknowledgment takes nothing off a list that the   *)
(* neighbour lacks is Covered, and it holds because the acknowledgment is    *)
(* of an instance its sender has or had, which is Backed.                    *)
(*                                                                         *)
(* At the end, about LsaInstances: when the sequence number alone decides    *)
(* which instance is the newer one, as LsaFlooding takes it.                 *)
(***************************************************************************)
EXTENDS LsaFlooding, LsaInstances, TLAPS

\* The packet p is one of a sequence of packets.
Has(s, p) == \E i \in DOMAIN s : s[i] = p

\* What is in a concatenation is in one of its parts, and the other way round.
LEMMA InConcatenation ==
  ASSUME NEW S, NEW s \in Seq(S), NEW t \in Seq(S)
  PROVE  /\ s \o t \in Seq(S)
         /\ \A p : Has(s \o t, p) <=> Has(s, p) \/ Has(t, p)
<1>1. s \o t \in Seq(S) /\ Len(s \o t) = Len(s) + Len(t)
  OBVIOUS
<1>2. ASSUME NEW p, NEW j \in DOMAIN (s \o t), (s \o t)[j] = p
      PROVE  Has(s, p) \/ Has(t, p)
  <2>1. CASE j <= Len(s)
    <3>1. j \in DOMAIN s /\ (s \o t)[j] = s[j]
      BY <1>1, <2>1
    <3> QED  BY <1>2, <3>1 DEF Has
  <2>2. CASE ~(j <= Len(s))
    <3>1. j - Len(s) \in DOMAIN t /\ (s \o t)[j] = t[j - Len(s)]
      BY <1>1, <2>2
    <3> QED  BY <1>2, <3>1 DEF Has
  <2> QED  BY <2>1, <2>2
<1>3. \A i \in DOMAIN s : i \in DOMAIN (s \o t) /\ (s \o t)[i] = s[i]
  BY <1>1
<1>4. \A i \in DOMAIN t : i + Len(s) \in DOMAIN (s \o t) /\ (s \o t)[i + Len(s)] = t[i]
  BY <1>1
<1> QED  BY <1>1, <1>2, <1>3, <1>4 DEF Has

\* The tail of a sequence has the elements of the sequence, its head apart.
LEMMA InTail ==
  ASSUME NEW S, NEW s \in Seq(S), s # <<>>
  PROVE  /\ Tail(s) \in Seq(S)
         /\ \A p : Has(Tail(s), p) => Has(s, p)
         /\ \A p : Has(s, p) => Has(Tail(s), p) \/ p = Head(s)
         /\ Has(s, Head(s)) /\ Head(s) \in S
<1>1. Tail(s) \in Seq(S) /\ Len(Tail(s)) = Len(s) - 1 /\ Len(s) \in Nat \ {0} /\ Head(s) = s[1]
  OBVIOUS
<1>2. \A j \in DOMAIN Tail(s) : j + 1 \in DOMAIN s /\ Tail(s)[j] = s[j + 1]
  BY <1>1
<1>3. \A i \in DOMAIN s : s[i] = Head(s) \/ (i - 1 \in DOMAIN Tail(s) /\ Tail(s)[i - 1] = s[i])
  BY <1>1
<1>4. Has(s, Head(s)) /\ Head(s) \in S
  BY <1>1 DEF Has
<1> QED  BY <1>1, <1>2, <1>3, <1>4 DEF Has

\* The empty sequence and one of a single packet.
LEMMA InShort ==
  /\ \A p : ~Has(<<>>, p)
  /\ \A p, q : Has(<<q>>, p) <=> p = q
  BY DEF Has

\* What Deliver does to the channels, packet by packet.
LEMMA Delivered ==
  ASSUME TypeOK, NEW l \in Link, chan[l] # <<>>, NEW r, NEW to,
         NEW out \in Seq(Packet), Deliver(l, r, to, out)
  PROVE  /\ chan' \in [Link -> Seq(Packet)]
         /\ \A k \in Link, p \in Packet :
              Has(chan'[k], p) => Has(chan[k], p) \/ (k[1] = r /\ Has(out, p))
         /\ \A k \in Link, p \in Packet :
              Has(chan[k], p) => Has(chan'[k], p) \/ (k = l /\ p = Head(chan[l]))
         /\ \A k \in Link, p \in Packet :
              k[1] = r /\ k[2] \in to /\ Has(out, p) => Has(chan'[k], p)
<1> DEFINE kept(k) == IF k = l THEN Tail(chan[k]) ELSE chan[k]
           new(k) == IF k[1] = r /\ k[2] \in to THEN out ELSE <<>>
<1>1. chan \in [Link -> Seq(Packet)]
  BY DEF TypeOK
<1>2. chan' = [k \in Link |-> kept(k) \o new(k)]
  BY DEF Deliver
<1>3. ASSUME NEW k \in Link
      PROVE  /\ kept(k) \in Seq(Packet)
             /\ \A p : Has(kept(k), p) => Has(chan[k], p)
             /\ \A p : Has(chan[k], p) => Has(kept(k), p) \/ (k = l /\ p = Head(chan[l]))
  <2>1. CASE k = l
    <3>1. chan[k] \in Seq(Packet) /\ chan[k] # <<>> /\ kept(k) = Tail(chan[k])
      BY <1>1, <2>1
    <3> HIDE DEF kept
    <3> QED  BY <2>1, <3>1, InTail
  <2>2. CASE k # l
    BY <1>1, <2>2
  <2> QED  BY <2>1, <2>2
<1>4. ASSUME NEW k \in Link
      PROVE  /\ new(k) \in Seq(Packet)
             /\ \A p : Has(new(k), p) <=> k[1] = r /\ k[2] \in to /\ Has(out, p)
  <2>1. CASE k[1] = r /\ k[2] \in to
    BY <2>1
  <2>2. CASE ~(k[1] = r /\ k[2] \in to)
    BY <2>2, InShort
  <2> QED  BY <2>1, <2>2
<1> HIDE DEF kept, new
<1>5. ASSUME NEW k \in Link
      PROVE  /\ chan'[k] \in Seq(Packet)
             /\ \A p : Has(chan'[k], p) <=> Has(kept(k), p) \/ Has(new(k), p)
  <2>1. chan'[k] = kept(k) \o new(k)
    BY <1>2
  <2>2. kept(k) \in Seq(Packet) /\ new(k) \in Seq(Packet)
    BY <1>3, <1>4
  <2> QED  BY <2>1, <2>2, InConcatenation
<1>6. chan' \in [Link -> Seq(Packet)]
  BY <1>2, <1>5
<1> QED  BY <1>3, <1>4, <1>5, <1>6

-----------------------------------------------------------------------------
(* What the packets are, and what the handlers send                         *)

\* Packets are in Packet.
LEMMA PacketType ==
  ASSUME NEW v \in Nat
  PROVE  /\ LSU(v) \in Packet /\ LSU(v).type = "LSU" /\ LSU(v).ver = v
         /\ Ack(v) \in Packet /\ Ack(v).type = "Ack" /\ Ack(v).ver = v
  BY DEF LSU, Ack, Packet

\* An update is determined by its number, and no acknowledgment is one.
LEMMA PacketForm ==
  ASSUME NEW p \in Packet, p.type = "LSU"
  PROVE  p = LSU(p.ver)
  BY DEF LSU, Packet

\* The head of a channel is a packet, and the channel carries it.
LEMMA HeadOf ==
  ASSUME TypeOK, NEW l \in Link, chan[l] # <<>>
  PROVE  /\ Head(chan[l]) \in Packet /\ Head(chan[l]).ver \in Nat
         /\ Has(chan[l], Head(chan[l]))
<1>1. chan[l] \in Seq(Packet)
  BY DEF TypeOK
<1>2. Head(chan[l]) \in Packet /\ Has(chan[l], Head(chan[l]))
  BY <1>1, InTail
<1>3. Head(chan[l]).ver \in Nat
  BY <1>2 DEF Packet
<1> QED  BY <1>2, <1>3

\* The ends of a link are routers, and neighbours of one another.
LEMMA LinkEnds ==
  ASSUME NEW l \in Link
  PROVE  /\ l[1] \in Router /\ l[2] \in Router /\ l = <<l[1], l[2]>> /\ l[1] # l[2]
         /\ l[1] \in Neighbors(l[2]) /\ l[2] \in Neighbors(l[1])
  BY NetworkAssumption DEF Neighbors

\* Backed, in terms of Has.
LEMMA BackedAs ==
  ASSUME TypeOK
  PROVE  Backed <=> /\ \A r \in Router : copy[r] <= copy[Origin]
                    /\ \A l \in Link, p \in Packet : Has(chan[l], p) => p.ver <= copy[l[1]]
<1>1. \A l \in Link : \A i \in DOMAIN chan[l] : chan[l][i] \in Packet
  BY DEF TypeOK
<1> QED  BY <1>1 DEF Backed, Has

\* The same of the next state.
LEMMA BackedNext ==
  ASSUME TypeOK'
  PROVE  Backed' <=> /\ \A r \in Router : copy'[r] <= copy'[Origin]
                     /\ \A l \in Link, p \in Packet : Has(chan'[l], p) => p.ver <= copy'[l[1]]
<1>1. \A l \in Link : \A i \in DOMAIN chan'[l] : chan'[l][i] \in Packet
  BY DEF TypeOK
<1> QED  BY <1>1 DEF Backed, Has

\* Covered, in terms of Has.
LEMMA CoveredAs ==
  Covered <=> (gap \/ \A l \in Link : \/ copy[l[2]] >= copy[l[1]]
                                       \/ l[2] \in rxmt[l[1]]
                                       \/ Has(chan[l], LSU(copy[l[1]])))
  BY DEF Covered, Has

\* The same of the next state.
LEMMA CoveredNext ==
  Covered' <=> (gap' \/ \A l \in Link :
                          \/ copy'[l[2]] >= copy'[l[1]]
                          \/ l[2] \in rxmt'[l[1]]
                          \/ Has(chan'[l], LSU(copy'[l[1]])))
  BY DEF Covered, Has

\* The inductive invariant.
IInv == TypeOK /\ Backed /\ Covered

\* What follows from it for the packet that a link delivers.
LEMMA Arrived ==
  ASSUME IInv, NEW l \in Link, chan[l] # <<>>
  PROVE  /\ Head(chan[l]) \in Packet
         /\ Head(chan[l]).ver \in Nat
         /\ Head(chan[l]).ver <= copy[l[1]]
         /\ Head(chan[l]).ver <= copy[Origin]
         /\ copy[l[1]] \in Nat /\ copy[l[2]] \in Nat /\ copy[Origin] \in Nat
<1>1. Head(chan[l]) \in Packet /\ Head(chan[l]).ver \in Nat /\ Has(chan[l], Head(chan[l]))
  BY HeadOf DEF IInv
<1>2. Head(chan[l]).ver <= copy[l[1]] /\ copy[l[1]] <= copy[Origin]
  BY <1>1, LinkEnds, BackedAs DEF IInv
<1>3. copy[l[1]] \in Nat /\ copy[l[2]] \in Nat /\ copy[Origin] \in Nat
  BY LinkEnds, NetworkAssumption DEF IInv, TypeOK
<1> QED  BY <1>1, <1>2, <1>3

\* A router that is sent news sends it on as it came: it is not the originator.
LEMMA FloodedForm ==
  ASSUME IInv, NEW l \in Link, chan[l] # <<>>, Newer(l[2], Head(chan[l]).ver)
  PROVE  /\ l[2] # Origin
         /\ Flooded(l[2], Head(chan[l]).ver) = <<LSU(Head(chan[l]).ver)>>
         /\ Flooded(l[2], Head(chan[l]).ver) \in Seq(Packet)
         /\ \A p : Has(Flooded(l[2], Head(chan[l]).ver), p) <=> p = LSU(Head(chan[l]).ver)
<1> DEFINE v == Head(chan[l]).ver
<1>1. l[2] # Origin
  BY Arrived DEF Newer
<1>2. v \in Nat
  BY Arrived
<1>3. Flooded(l[2], v) = <<LSU(v)>>
  BY <1>1 DEF Flooded
<1>4. LSU(v) \in Packet
  BY <1>2, PacketType
<1>5. <<LSU(v)>> \in Seq(Packet)
  BY <1>4
<1>6. \A p : Has(<<LSU(v)>>, p) <=> p = LSU(v)
  BY InShort
<1> QED  BY <1>1, <1>3, <1>5, <1>6

-----------------------------------------------------------------------------
(* The inductive invariant                                                  *)

\* Initially nothing is under way and every router has the first instance.
LEMMA InitIInv == Init => IInv
<1> SUFFICES ASSUME Init PROVE IInv
  OBVIOUS
<1>1. TypeOK
  <2>1. [l \in Link |-> <<>>] \in [Link -> Seq(Packet)]
    OBVIOUS
  <2> QED  BY <2>1 DEF Init, TypeOK
<1>2. Backed
  BY NetworkAssumption DEF Init, Backed
<1>3. Covered
  BY LinkEnds DEF Init, Covered
<1> QED  BY <1>1, <1>2, <1>3 DEF IInv

\* A delivery that changes no copy: Backed stays, and only the packet that was taken
\* can have been the one a link was covered by.
LEMMA Consumed ==
  ASSUME IInv, NEW l \in Link, chan[l] # <<>>, NEW to, NEW out \in Seq(Packet),
         Deliver(l, l[2], to, out), copy' = copy,
         \A p \in Packet : Has(out, p) => p.ver <= copy[l[2]]
  PROVE  /\ chan' \in [Link -> Seq(Packet)]
         /\ TypeOK' => Backed'
         /\ \A k \in Link : Has(chan[k], LSU(copy[k[1]])) =>
              \/ Has(chan'[k], LSU(copy[k[1]]))
              \/ k = l /\ Head(chan[l]) = LSU(copy[l[1]])
<1>1. TypeOK /\ Backed
  BY DEF IInv
<1>2. /\ chan' \in [Link -> Seq(Packet)]
      /\ \A k \in Link, p \in Packet :
           Has(chan'[k], p) => Has(chan[k], p) \/ (k[1] = l[2] /\ Has(out, p))
      /\ \A k \in Link, p \in Packet :
           Has(chan[k], p) => Has(chan'[k], p) \/ (k = l /\ p = Head(chan[l]))
  BY <1>1, Delivered
<1>3. ASSUME TypeOK' PROVE Backed'
  <2>1. \A k \in Link, p \in Packet : Has(chan'[k], p) => p.ver <= copy'[k[1]]
    BY <1>1, <1>2, BackedAs
  <2>2. \A r \in Router : copy'[r] <= copy'[Origin]
    BY <1>1, BackedAs
  <2> QED  BY <1>3, <2>1, <2>2, BackedNext
<1>4. ASSUME NEW k \in Link, Has(chan[k], LSU(copy[k[1]]))
      PROVE  \/ Has(chan'[k], LSU(copy[k[1]]))
             \/ k = l /\ Head(chan[l]) = LSU(copy[l[1]])
  <2> DEFINE q == LSU(copy[k[1]])
  <2>1. q \in Packet
    BY <1>1, LinkEnds, PacketType DEF TypeOK
  <2> HIDE DEF q
  <2>2. Has(chan[k], q) => Has(chan'[k], q) \/ (k = l /\ q = Head(chan[l]))
    BY <1>2, <2>1
  <2> QED  BY <1>4, <2>2 DEF q
<1> QED  BY <1>2, <1>3, <1>4

\* An implied or explicit acknowledgment and the other deliveries that change no copy
\* keep every link covered, if a neighbour taken off a list has the instance and
\* the packet taken off a link is accounted for.
LEMMA StaysCovered ==
  ASSUME IInv, NEW l \in Link, chan[l] # <<>>, NEW to, NEW out \in Seq(Packet),
         Deliver(l, l[2], to, out), copy' = copy, gap => gap',
         \A p \in Packet : Has(out, p) => p.ver <= copy[l[2]],
         \A k \in Link : k[2] \in rxmt[k[1]] =>
                            k[2] \in rxmt'[k[1]] \/ copy[k[2]] >= copy[k[1]],
         \/ gap'
         \/ l[2] \in rxmt'[l[1]]
         \/ Head(chan[l]).type = "LSU" => Head(chan[l]).ver <= copy[l[2]]
  PROVE  Covered'
<1> SUFFICES ASSUME ~gap' PROVE Covered'
  BY CoveredNext
<1>1. ASSUME NEW k \in Link
      PROVE  \/ copy'[k[2]] >= copy'[k[1]]
             \/ k[2] \in rxmt'[k[1]]
             \/ Has(chan'[k], LSU(copy'[k[1]]))
  <2>1. CASE copy[k[2]] >= copy[k[1]]
    BY <2>1
  <2>2. CASE k[2] \in rxmt[k[1]]
    BY <2>2
  <2>3. CASE Has(chan[k], LSU(copy[k[1]]))
    <3>1. CASE Has(chan'[k], LSU(copy[k[1]]))
      BY <3>1
    <3>2. CASE k = l /\ Head(chan[l]) = LSU(copy[l[1]])
      <4>1. copy[l[1]] \in Nat
        BY Arrived
      <4>2. Head(chan[l]).type = "LSU" /\ Head(chan[l]).ver = copy[l[1]]
        BY <3>2, <4>1, PacketType
      <4>3. l[2] \in rxmt'[l[1]] \/ copy[l[1]] <= copy[l[2]]
        BY <4>2
      <4> QED  BY <3>2, <4>1, <4>3, Arrived
    <3> QED  BY <2>3, <3>1, <3>2, Consumed
  <2> QED  BY <2>1, <2>2, <2>3, CoveredAs DEF IInv
<1> QED  BY <1>1, CoveredNext

\* News is installed and sent on: what the router now has is on all its links.
LEMMA InstallKeeps ==
  ASSUME IInv, NEW l \in Link, Install(l)
  PROVE  IInv'
<1> DEFINE r == l[2]
           v == Head(chan[l]).ver
           out == Flooded(r, v)
<1>1. /\ chan[l] # <<>> /\ Head(chan[l]).type = "LSU" /\ v > copy[r]
      /\ Deliver(l, r, Neighbors(r), out)
      /\ copy' = [copy EXCEPT ![r] = v]
      /\ young' = young \cup {r}
      /\ rxmt' = [rxmt EXCEPT ![r] = {}]
      /\ losses' = losses /\ gap' = gap
  BY DEF Install, Arrives, Newer, FloodedTo
<1>2. /\ r # Origin /\ out \in Seq(Packet) /\ \A p : Has(out, p) <=> p = LSU(v)
      /\ r \in Router /\ v \in Nat /\ v <= copy[l[1]] /\ v <= copy[Origin]
      /\ LSU(v) \in Packet
  <2>1. v \in Nat /\ v <= copy[l[1]] /\ v <= copy[Origin]
    BY <1>1, Arrived
  <2>2. r # Origin /\ out \in Seq(Packet) /\ \A p : Has(out, p) <=> p = LSU(v)
    BY <1>1, FloodedForm DEF Newer
  <2> QED  BY <2>1, <2>2, LinkEnds, PacketType
<1> HIDE DEF out
<1>3. /\ TypeOK /\ Backed /\ Covered
      /\ copy \in [Router -> Nat] /\ rxmt \in [Router -> SUBSET Router]
  BY DEF IInv, TypeOK
<1>4. /\ chan' \in [Link -> Seq(Packet)]
      /\ \A k \in Link, p \in Packet :
           Has(chan'[k], p) => Has(chan[k], p) \/ (k[1] = r /\ p = LSU(v))
      /\ \A k \in Link, p \in Packet :
           Has(chan[k], p) => Has(chan'[k], p) \/ (k = l /\ p = Head(chan[l]))
      /\ \A k \in Link : k[1] = r => Has(chan'[k], LSU(v))
  <2>1. /\ chan' \in [Link -> Seq(Packet)]
        /\ \A k \in Link, p \in Packet :
             Has(chan'[k], p) => Has(chan[k], p) \/ (k[1] = r /\ Has(out, p))
        /\ \A k \in Link, p \in Packet :
             Has(chan[k], p) => Has(chan'[k], p) \/ (k = l /\ p = Head(chan[l]))
        /\ \A k \in Link, p \in Packet :
             k[1] = r /\ k[2] \in Neighbors(r) /\ Has(out, p) => Has(chan'[k], p)
    BY <1>1, <1>2, <1>3, Delivered
  <2>2. \A k \in Link : k[1] = r => k[2] \in Neighbors(r)
    BY LinkEnds
  <2> QED  BY <1>2, <2>1, <2>2
<1>5. TypeOK'
  BY <1>1, <1>2, <1>3, <1>4 DEF TypeOK
<1>6. /\ copy'[r] = v /\ \A n \in Router : n # r => copy'[n] = copy[n]
      /\ \A n \in Router : copy[n] \in Nat /\ copy[n] <= copy'[n]
  BY <1>1, <1>2, <1>3
<1>7. Backed'
  <2>1. copy'[Origin] = copy[Origin] /\ \A n \in Router : copy'[n] <= copy'[Origin]
    BY <1>2, <1>3, <1>6, BackedAs, NetworkAssumption
  <2>2. \A k \in Link, p \in Packet : Has(chan'[k], p) => p.ver <= copy'[k[1]]
    <3> SUFFICES ASSUME NEW k \in Link, NEW p \in Packet, Has(chan'[k], p)
                 PROVE  p.ver <= copy'[k[1]]
      OBVIOUS
    <3>1. CASE Has(chan[k], p)
      <4>1. p.ver <= copy[k[1]] /\ p.ver \in Nat
        BY <1>3, <3>1, BackedAs DEF Packet
      <4>2. copy[k[1]] <= copy'[k[1]] /\ copy[k[1]] \in Nat /\ copy'[k[1]] \in Nat
        BY <1>5, <1>6, LinkEnds DEF TypeOK
      <4> QED  BY <4>1, <4>2
    <3>2. CASE k[1] = r /\ p = LSU(v)
      BY <1>2, <1>6, <3>2, PacketType
    <3> QED  BY <1>4, <3>1, <3>2
  <2> QED  BY <1>5, <2>1, <2>2, BackedNext
<1>8. Covered'
  <2> SUFFICES ASSUME ~gap', NEW k \in Link
               PROVE  \/ copy'[k[2]] >= copy'[k[1]]
                      \/ k[2] \in rxmt'[k[1]]
                      \/ Has(chan'[k], LSU(copy'[k[1]]))
    BY CoveredNext
  <2>1. CASE k[1] = r
    BY <1>4, <1>6, <2>1
  <2>2. CASE k[1] # r
    <3>1. copy'[k[1]] = copy[k[1]] /\ rxmt'[k[1]] = rxmt[k[1]] /\ k[1] \in Router /\ k[2] \in Router
      BY <1>1, <1>3, <1>6, <2>2, LinkEnds
    <3>2. CASE copy[k[2]] >= copy[k[1]]
      <4>1. copy[k[2]] <= copy'[k[2]] /\ copy[k[2]] \in Nat /\ copy'[k[2]] \in Nat /\ copy[k[1]] \in Nat
        BY <1>5, <1>6, <3>1 DEF TypeOK
      <4> QED  BY <3>1, <3>2, <4>1
    <3>3. CASE k[2] \in rxmt[k[1]]
      BY <3>1, <3>3
    <3>4. CASE Has(chan[k], LSU(copy[k[1]]))
      <4>1. copy[k[1]] \in Nat
        BY <1>6, <3>1
      <4>2. LSU(copy[k[1]]) \in Packet /\ LSU(copy[k[1]]).ver = copy[k[1]]
        BY <4>1, PacketType
      <4>3. CASE k = l /\ LSU(copy[k[1]]) = Head(chan[l])
        <5>1. v = copy[k[1]] /\ copy'[k[2]] = v
          BY <1>6, <4>2, <4>3
        <5> QED  BY <1>2, <3>1, <5>1
      <4>4. CASE Has(chan'[k], LSU(copy[k[1]]))
        BY <3>1, <4>4
      <4> QED  BY <1>4, <3>4, <4>2, <4>3, <4>4
    <3> QED  BY <1>1, <1>3, <3>2, <3>3, <3>4, CoveredAs
  <2> QED  BY <2>1, <2>2
<1> QED  BY <1>5, <1>7, <1>8 DEF IInv

\* Any other packet changes no copy.
LEMMA OtherPacketKeeps ==
  ASSUME IInv, NEW l \in Link,
         DropEarly(l) \/ AnswerOld(l) \/ SameInstance(l) \/ ReceiveAck(l) \/ Lose(l)
  PROVE  IInv'
<1> DEFINE n == l[1]
           r == l[2]
           v == Head(chan[l]).ver
<1>1. /\ n \in Router /\ r \in Router /\ l = <<n, r>> /\ n # r
      /\ copy \in [Router -> Nat] /\ rxmt \in [Router -> SUBSET Router]
      /\ gap \in BOOLEAN /\ losses \in Nat /\ young \subseteq Router
  BY LinkEnds DEF IInv, TypeOK
<1>2. \A p : ~Has(<<>>, p)
  BY InShort
<1>3. ASSUME NEW to, NEW out \in Seq(Packet), Deliver(l, r, to, out), chan[l] # <<>>, copy' = copy,
             \A p \in Packet : Has(out, p) => p.ver <= copy[r],
             young' \subseteq Router, rxmt' \in [Router -> SUBSET Router],
             losses' \in Nat, gap' \in BOOLEAN, gap => gap',
             \A k \in Link : k[2] \in rxmt[k[1]] =>
                                k[2] \in rxmt'[k[1]] \/ copy[k[2]] >= copy[k[1]],
             \/ gap'
             \/ r \in rxmt'[n]
             \/ Head(chan[l]).type = "LSU" => v <= copy[r]
      PROVE  IInv'
  <2>1. chan' \in [Link -> Seq(Packet)] /\ (TypeOK' => Backed')
    BY <1>3, Consumed
  <2>2. TypeOK'
    BY <1>1, <1>3, <2>1 DEF TypeOK
  <2>3. Covered'
    BY <1>3, StaysCovered
  <2> QED  BY <2>1, <2>2, <2>3 DEF IInv
<1>4. ASSUME chan[l] # <<>>
      PROVE  v \in Nat /\ v <= copy[n] /\ copy[n] \in Nat /\ copy[r] \in Nat
  BY <1>4, Arrived
<1>5. <<>> \in Seq(Packet)
  OBVIOUS
<1>6. CASE DropEarly(l)
  <2>1. /\ chan[l] # <<>> /\ Deliver(l, r, {}, <<>>)
        /\ gap' = (gap \/ r \notin rxmt[n])
        /\ copy' = copy /\ young' = young /\ rxmt' = rxmt /\ losses' = losses
    BY <1>6 DEF DropEarly, Arrives
  <2> QED  BY <1>1, <1>2, <1>3, <1>5, <2>1
<1>7. CASE AnswerOld(l)
  <2>1. /\ chan[l] # <<>> /\ v < copy[r] /\ Deliver(l, r, {}, <<>>)
        /\ rxmt' = [rxmt EXCEPT ![r] = @ \cup {n}]
        /\ copy' = copy /\ young' = young /\ losses' = losses /\ gap' = gap
    BY <1>7 DEF AnswerOld, Arrives, AnswerOldLists
  <2>2. rxmt' \in [Router -> SUBSET Router] /\ \A m \in Router : rxmt[m] \subseteq rxmt'[m]
    BY <1>1, <2>1
  <2>3. \A k \in Link : k[2] \in rxmt[k[1]] => k[2] \in rxmt'[k[1]]
    BY <2>2, LinkEnds
  <2>4. v <= copy[r]
    BY <1>4, <2>1
  <2> QED  BY <1>1, <1>2, <1>3, <1>5, <2>1, <2>2, <2>3, <2>4
<1>8. ASSUME rxmt' = [rxmt EXCEPT ![r] = @ \ {n}], copy[n] >= copy[r]
      PROVE  /\ rxmt' \in [Router -> SUBSET Router]
             /\ \A k \in Link : k[2] \in rxmt[k[1]] =>
                                    k[2] \in rxmt'[k[1]] \/ copy[k[2]] >= copy[k[1]]
  BY <1>1, <1>8, LinkEnds
<1>9. CASE SameInstance(l)
  <2> DEFINE to == IF n \in rxmt[r] THEN {} ELSE {n}
             out == <<Ack(v)>>
  <2>1. /\ chan[l] # <<>> /\ v = copy[r]
        /\ Deliver(l, r, to, out)
        /\ rxmt' = [rxmt EXCEPT ![r] = @ \ {n}]
        /\ copy' = copy /\ young' = young /\ losses' = losses /\ gap' = gap
    BY <1>9 DEF SameInstance, Arrives
  <2>2. Ack(v) \in Packet /\ Ack(v).ver = v
    BY <1>4, <2>1, PacketType
  <2>3. out \in Seq(Packet) /\ \A p : Has(out, p) <=> p = Ack(v)
    BY <2>2, InShort
  <2> HIDE DEF to, out
  <2>4. \A p \in Packet : Has(out, p) => p.ver <= copy[r]
    BY <1>4, <2>1, <2>2, <2>3
  <2>5. copy[n] >= copy[r] /\ v <= copy[r]
    BY <1>4, <2>1
  <2> QED  BY <1>1, <1>3, <1>8, <2>1, <2>3, <2>4, <2>5
<1>10. CASE ReceiveAck(l)
  <2>1. /\ chan[l] # <<>> /\ Head(chan[l]).type = "Ack" /\ Deliver(l, r, {}, <<>>)
        /\ rxmt' = IF v = copy[r] THEN [rxmt EXCEPT ![r] = @ \ {n}] ELSE rxmt
        /\ copy' = copy /\ young' = young /\ losses' = losses /\ gap' = gap
    BY <1>10 DEF ReceiveAck, Arrives, Acked
  <2>2. /\ rxmt' \in [Router -> SUBSET Router]
        /\ \A k \in Link : k[2] \in rxmt[k[1]] =>
                               k[2] \in rxmt'[k[1]] \/ copy[k[2]] >= copy[k[1]]
    <3>1. CASE v = copy[r]
      BY <1>4, <1>8, <2>1, <3>1
    <3>2. CASE v # copy[r]
      BY <1>1, <2>1, <3>2
    <3> QED  BY <3>1, <3>2
  <2> QED  BY <1>1, <1>2, <1>3, <1>5, <2>1, <2>2
<1>11. CASE Lose(l)
  <2>1. /\ chan[l] # <<>> /\ Deliver(l, r, {}, <<>>)
        /\ losses' = losses + 1
        /\ gap' = (gap \/ (/\ Head(chan[l]).type = "LSU" /\ v > copy[r]
                           /\ r \notin rxmt[n]))
        /\ copy' = copy /\ young' = young /\ rxmt' = rxmt
    BY <1>11 DEF Lose, Arrives, Newer
  <2>2. \/ gap'
        \/ r \in rxmt'[n]
        \/ Head(chan[l]).type = "LSU" => v <= copy[r]
    <3>1. v > copy[r] \/ v <= copy[r]
      BY <1>4, <2>1
    <3> QED  BY <2>1, <3>1
  <2>3. gap' \in BOOLEAN /\ (gap => gap') /\ losses' \in Nat
    BY <1>1, <2>1
  <2> QED  BY <1>1, <1>2, <1>3, <1>5, <2>1, <2>2, <2>3
<1> QED  BY <1>6, <1>7, <1>9, <1>10, <1>11

\* A new instance is on the list of every neighbour.
LEMMA OriginateKeeps ==
  ASSUME IInv, Originate
  PROVE  IInv'
<1>1. /\ copy' = [copy EXCEPT ![Origin] = @ + 1]
      /\ rxmt' = [rxmt EXCEPT ![Origin] = Neighbors(Origin)]
      /\ young' = young /\ chan' = chan /\ losses' = losses /\ gap' = gap
  BY DEF Originate
<1>2. /\ TypeOK /\ Backed /\ Covered /\ Origin \in Router
      /\ copy \in [Router -> Nat] /\ rxmt \in [Router -> SUBSET Router]
  BY NetworkAssumption DEF IInv, TypeOK
<1>3. TypeOK'
  <2>1. Neighbors(Origin) \in SUBSET Router
    BY DEF Neighbors
  <2> QED  BY <1>1, <1>2, <2>1 DEF TypeOK
<1>4. /\ copy'[Origin] = copy[Origin] + 1 /\ copy[Origin] \in Nat
      /\ \A n \in Router : n # Origin => copy'[n] = copy[n] /\ copy[n] \in Nat
  BY <1>1, <1>2
<1>5. Backed'
  <2>1. \A n \in Router : copy'[n] <= copy'[Origin] /\ copy[n] <= copy'[n]
    BY <1>2, <1>4, BackedAs
  <2>2. \A k \in Link, p \in Packet : Has(chan'[k], p) => p.ver <= copy'[k[1]]
    <3> SUFFICES ASSUME NEW k \in Link, NEW p \in Packet, Has(chan'[k], p)
                 PROVE  p.ver <= copy'[k[1]]
      OBVIOUS
    <3>1. p.ver <= copy[k[1]] /\ p.ver \in Nat
      BY <1>1, <1>2, BackedAs DEF Packet
    <3>2. copy[k[1]] <= copy'[k[1]] /\ copy[k[1]] \in Nat /\ copy'[k[1]] \in Nat
      BY <1>3, <1>2, <2>1, LinkEnds DEF TypeOK
    <3> QED  BY <3>1, <3>2
  <2> QED  BY <1>3, <2>1, <2>2, BackedNext
<1>6. Covered'
  <2> SUFFICES ASSUME ~gap', NEW k \in Link
               PROVE  \/ copy'[k[2]] >= copy'[k[1]]
                      \/ k[2] \in rxmt'[k[1]]
                      \/ Has(chan'[k], LSU(copy'[k[1]]))
    BY CoveredNext
  <2>1. CASE k[1] = Origin
    BY <1>1, <1>2, <2>1, LinkEnds
  <2>2. CASE k[1] # Origin
    <3>1. /\ copy'[k[1]] = copy[k[1]] /\ rxmt'[k[1]] = rxmt[k[1]]
          /\ copy[k[1]] \in Nat /\ copy[k[2]] \in Nat /\ copy[k[2]] <= copy'[k[2]] /\ copy'[k[2]] \in Nat
      BY <1>1, <1>2, <1>4, <2>2, LinkEnds
    <3>2. CASE copy[k[2]] >= copy[k[1]]
      BY <3>1, <3>2
    <3> QED  BY <1>1, <1>2, <3>1, <3>2, CoveredAs
  <2> QED  BY <2>1, <2>2
<1> QED  BY <1>3, <1>5, <1>6 DEF IInv

\* What the timer sends is the sender's own copy.
LEMMA RetransmitKeeps ==
  ASSUME IInv, NEW r \in Router, Retransmit(r)
  PROVE  IInv'
<1> DEFINE q == LSU(copy[r])
           to(k) == k[1] = r /\ k[2] \in rxmt[r]
<1>1. /\ chan' = [k \in Link |-> IF to(k) THEN Append(chan[k], q) ELSE chan[k]]
      /\ copy' = copy /\ rxmt' = rxmt /\ young' = young /\ losses' = losses /\ gap' = gap
  BY DEF Retransmit
<1>2. /\ TypeOK /\ Backed /\ Covered
      /\ copy \in [Router -> Nat] /\ chan \in [Link -> Seq(Packet)]
  BY DEF IInv, TypeOK
<1>3. q \in Packet /\ q.ver = copy[r]
  BY <1>2, PacketType
<1> HIDE DEF q
<1>4. ASSUME NEW k \in Link
      PROVE  /\ chan'[k] \in Seq(Packet)
             /\ \A p \in Packet : Has(chan'[k], p) => Has(chan[k], p) \/ (k[1] = r /\ p = q)
             /\ \A p \in Packet : Has(chan[k], p) => Has(chan'[k], p)
  <2>1. CASE to(k)
    <3> DEFINE one == <<q>>
    <3>1. chan'[k] = chan[k] \o one /\ chan[k] \in Seq(Packet) /\ one \in Seq(Packet)
      BY <1>1, <1>2, <1>3, <2>1
    <3>2. \A p : Has(one, p) <=> p = q
      BY InShort
    <3> HIDE DEF one
    <3>3. /\ chan'[k] \in Seq(Packet)
          /\ \A p : Has(chan'[k], p) <=> Has(chan[k], p) \/ Has(one, p)
      BY <3>1, InConcatenation
    <3> QED  BY <2>1, <3>2, <3>3
  <2>2. CASE ~to(k)
    BY <1>1, <1>2, <2>2
  <2> QED  BY <2>1, <2>2
<1>5. chan' \in [Link -> Seq(Packet)]
  <2> HIDE DEF to
  <2> QED  BY <1>1, <1>4
<1>6. TypeOK'
  BY <1>1, <1>2, <1>5 DEF TypeOK
<1>7. Backed'
  <2>1. \A n \in Router : copy'[n] <= copy'[Origin]
    BY <1>1, <1>2, BackedAs
  <2>2. \A k \in Link, p \in Packet : Has(chan'[k], p) => p.ver <= copy'[k[1]]
    <3> SUFFICES ASSUME NEW k \in Link, NEW p \in Packet, Has(chan'[k], p)
                 PROVE  p.ver <= copy'[k[1]]
      OBVIOUS
    <3>1. CASE Has(chan[k], p)
      BY <1>1, <1>2, <3>1, BackedAs
    <3>2. CASE k[1] = r /\ p = q
      BY <1>1, <1>2, <1>3, <3>2
    <3> QED  BY <1>4, <3>1, <3>2
  <2> QED  BY <1>6, <2>1, <2>2, BackedNext
<1>8. Covered'
  <2> SUFFICES ASSUME ~gap', NEW k \in Link
               PROVE  \/ copy'[k[2]] >= copy'[k[1]]
                      \/ k[2] \in rxmt'[k[1]]
                      \/ Has(chan'[k], LSU(copy'[k[1]]))
    BY CoveredNext
  <2>1. LSU(copy[k[1]]) \in Packet
    BY <1>2, LinkEnds, PacketType
  <2>2. \/ copy[k[2]] >= copy[k[1]]
        \/ k[2] \in rxmt[k[1]]
        \/ Has(chan[k], LSU(copy[k[1]]))
    BY <1>1, <1>2, CoveredAs
  <2> QED  BY <1>1, <1>4, <2>1, <2>2
<1> QED  BY <1>6, <1>7, <1>8 DEF IInv

\* Every step keeps the invariant.
LEMMA NextIInv == IInv /\ [Next]_vars => IInv'
<1> SUFFICES ASSUME IInv, [Next]_vars PROVE IInv'
  OBVIOUS
<1>1. CASE \E l \in Link : Receive(l) \/ Lose(l)
  BY <1>1, InstallKeeps, OtherPacketKeeps DEF Receive
<1>2. CASE \E r \in Router : Retransmit(r)
  BY <1>2, RetransmitKeeps
<1>3. CASE Originate
  BY <1>3, OriginateKeeps
<1>4. CASE MinLSArrivalPasses
  BY <1>4 DEF MinLSArrivalPasses, IInv, TypeOK, Backed, Covered
<1>5. CASE UNCHANGED vars
  BY <1>5 DEF vars, IInv, TypeOK, Backed, Covered
<1> QED  BY <1>1, <1>2, <1>3, <1>4, <1>5 DEF Next

\* The invariant holds of every behaviour.
LEMMA Invariance == Spec => []IInv
  BY InitIInv, NextIInv, PTL DEF Spec

-----------------------------------------------------------------------------
(* Theorems                                                                 *)

\* The state is well-typed.
THEOREM TypeCorrectness == Spec => []TypeOK
<1>1. IInv => TypeOK
  BY DEF IInv
<1> QED  BY <1>1, Invariance, PTL

\* In every area, no packet speaks of an instance its sender has not had, and nobody is
\* ahead of the originator: the 13.4 branch of Install is not reached.
THEOREM NobodyInvents == Spec => []Backed
<1>1. IInv => Backed
  BY DEF IInv
<1> QED  BY <1>1, Invariance, PTL

\* In every area, no acknowledgment leaves a link uncovered.
THEOREM LinksCovered == Spec => []Covered
<1>1. IInv => Covered
  BY DEF IInv
<1> QED  BY <1>1, Invariance, PTL

\* The area is in one piece: every set of routers that the originator is in and that is
\* closed under links has all of them.
Connected ==
  \A S \in SUBSET Router :
    Origin \in S /\ (\A l \in Link : l[1] \in S => l[2] \in S) => S = Router

\* In every connected area, when flooding has come to rest all routers have the
\* originator's instance, unless news was lost for good.
THEOREM RestIsAgreement ==
  ASSUME Connected
  PROVE  Spec => []QuietAgree
<1>1. IInv => QuietAgree
  <2> SUFFICES ASSUME IInv, Quiet, ~gap
               PROVE  \A r \in Router : copy[r] = copy[Origin]
    BY DEF QuietAgree
  <2> DEFINE S == {r \in Router : copy[r] = copy[Origin]}
  <2>1. Origin \in S
    BY NetworkAssumption
  <2>2. ASSUME NEW l \in Link, l[1] \in S PROVE l[2] \in S
    <3>1. l[1] \in Router /\ l[2] \in Router /\ copy[l[1]] = copy[Origin]
      BY <2>2, LinkEnds
    <3>2. ~Has(chan[l], LSU(copy[l[1]])) /\ l[2] \notin rxmt[l[1]]
      <4>1. rxmt[l[1]] = {} /\ chan[l] = <<>>
        BY <3>1 DEF Quiet
      <4>2. ~Has(<<>>, LSU(copy[l[1]]))
        BY InShort
      <4> QED  BY <4>1, <4>2
    <3>3. copy[l[2]] >= copy[l[1]]
      BY <3>2, CoveredAs DEF IInv
    <3>4. copy[l[2]] <= copy[Origin] /\ copy[l[2]] \in Nat /\ copy[Origin] \in Nat
      BY <3>1, NetworkAssumption, BackedAs DEF IInv, TypeOK
    <3> QED  BY <3>1, <3>3, <3>4
  <2>3. S = Router
    BY <2>1, <2>2 DEF Connected
  <2> QED  BY <2>3
<1> QED  BY <1>1, Invariance, PTL

\* In every area, flooding implements LsdbReplication: each installation is a copy from
\* a neighbour that has or had the instance, each origination an announcement,
\* and nothing else changes a copy.
THEOREM FloodingReplicates == Spec => ReplicationSpec
<1>1. Init => Replication!Init
  BY NetworkAssumption DEF Init, Replication!Init
<1>2. IInv /\ [Next]_vars => [Replication!Next]_copy
  <2> SUFFICES ASSUME IInv, [Next]_vars, copy' # copy PROVE Replication!Next
    OBVIOUS
  <2>1. ASSUME NEW l \in Link, Install(l) PROVE Replication!Next
    <3> DEFINE v == Head(chan[l]).ver
    <3>1. chan[l] # <<>> /\ v > copy[l[2]] /\ copy' = [copy EXCEPT ![l[2]] = v]
      BY <2>1 DEF Install, Arrives, Newer
    <3>2. v \in Nat /\ v <= copy[l[1]] /\ copy[l[1]] \in Nat /\ copy[l[2]] \in Nat
      BY <3>1, Arrived
    <3> HIDE DEF v
    <3>3. v \in copy[l[2]] + 1 .. copy[l[1]]
      BY <3>1, <3>2
    <3> QED  BY <3>1, <3>3 DEF Replication!Next, Replication!Learn
  <2>2. CASE Originate
    <3>1. copy' = [copy EXCEPT ![Origin] = @ + 1] /\ copy \in [Router -> Nat] /\ Origin \in Router
      BY <2>2, NetworkAssumption DEF Originate, IInv, TypeOK
    <3>2. copy'[Origin] = copy[Origin] + 1 /\ copy[Origin] \in Nat
      BY <3>1
    <3> QED  BY <3>1, <3>2 DEF Replication!Next, Replication!Announce
  <2>3. CASE \E l \in Link : Receive(l) \/ Lose(l)
    BY <2>1, <2>3 DEF Receive, DropEarly, AnswerOld, SameInstance, ReceiveAck, Lose
  <2>4. CASE \E r \in Router : Retransmit(r)
    BY <2>4 DEF Retransmit
  <2>5. CASE MinLSArrivalPasses
    BY <2>5 DEF MinLSArrivalPasses
  <2>6. CASE UNCHANGED vars
    BY <2>6 DEF vars
  <2> QED  BY <2>2, <2>3, <2>4, <2>5, <2>6 DEF Next
<1> QED  BY <1>1, <1>2, Invariance, PTL DEF Spec, ReplicationSpec, Replication!Spec

-----------------------------------------------------------------------------
(* Instances and their ages: when a sequence number stands for a header.    *)

\* While ages are below MaxAge, and those of equal sequence numbers within MaxAgeDiff
\* of each other, the sequence number alone decides (IsMoreRecentThan, IsSameInstance).
THEOREM SeqDecides ==
  ASSUME NEW a \in Header, NEW b \in Header, a.age < MaxAge, b.age < MaxAge,
         a.seq = b.seq => Abs(a.age - b.age) <= MaxAgeDiff
  PROVE  /\ IsMoreRecentThan(a, b) <=> a.seq > b.seq
         /\ IsSameInstance(a, b) <=> a.seq = b.seq
<1>1. a.age \in Int /\ b.age \in Int /\ a.seq \in Int /\ b.seq \in Int
  BY DEF Header
<1> DEFINE x == a.age  y == b.age  m == a.seq  n == b.seq
<1>2. x \in Int /\ y \in Int /\ m \in Int /\ n \in Int /\ x < MaxAge /\ y < MaxAge
        /\ (m = n => Abs(x - y) <= MaxAgeDiff)
  BY <1>1
<1>3. IsSameInstance(a, b) <=> m = n
  BY <1>2 DEF IsSameInstance, MaxAge
<1>4. IsMoreRecentThan(a, b) <=>
        m > n \/ (m = n /\ (x = MaxAge \/ (y # MaxAge /\ Abs(x - y) > MaxAgeDiff /\ x < y)))
  BY DEF IsMoreRecentThan
<1> HIDE DEF x, y, m, n
<1>5. IsMoreRecentThan(a, b) <=> m > n
  BY <1>2, <1>4 DEF MaxAge, MaxAgeDiff, Abs
<1> QED
  BY <1>3, <1>5 DEF m, n

\* Two instances are never both the newer one, unless both are at MaxAge with the same
\* sequence number: then the code finds each newer than the other.
THEOREM NewerOneWay ==
  ASSUME NEW a \in Header, NEW b \in Header
  PROVE  IsMoreRecentThan(a, b) /\ IsMoreRecentThan(b, a)
           <=> a.seq = b.seq /\ a.age = MaxAge /\ b.age = MaxAge
<1>1. a.age \in Int /\ b.age \in Int /\ a.seq \in Int /\ b.seq \in Int
  BY DEF Header
<1> DEFINE x == a.age  y == b.age  m == a.seq  n == b.seq
<1>2. x \in Int /\ y \in Int /\ m \in Int /\ n \in Int
  BY <1>1
<1>3. IsMoreRecentThan(a, b) <=>
        m > n \/ (m = n /\ (x = MaxAge \/ (y # MaxAge /\ Abs(x - y) > MaxAgeDiff /\ x < y)))
  BY DEF IsMoreRecentThan
<1>4. IsMoreRecentThan(b, a) <=>
        n > m \/ (n = m /\ (y = MaxAge \/ (x # MaxAge /\ Abs(y - x) > MaxAgeDiff /\ y < x)))
  BY DEF IsMoreRecentThan
<1> HIDE DEF x, y, m, n
<1>5. IsMoreRecentThan(a, b) /\ IsMoreRecentThan(b, a) <=> m = n /\ x = MaxAge /\ y = MaxAge
  BY <1>2, <1>3, <1>4
<1> QED
  BY <1>5 DEF x, y, m, n

\* A number below the modulus is its own remainder.
LEMMA ModSmall == \A n, w \in Nat : n < w => n % w = n
  OBVIOUS

\* An LSA that is sent from one database to another one ages there at the same pace:
\* the two ages never differ by more than the transmission delay added on the
\* way, so the hypothesis of SeqDecides holds of copies of one instance.
THEOREM CopiesAgeTogether ==
  ASSUME NEW added \in Nat, NEW before \in Nat, NEW since \in Nat, NEW delay \in Nat,
         AgeAfter(added, before) + delay < 65536
  PROVE  LET there == AgeAfter(AgedBy(AgeAfter(added, before), delay), since)
             here  == AgeAfter(added, before + since)
         IN  here <= there /\ there <= here + delay
<1>1. AgeAfter(added, before) \in Nat
  BY DEF AgeAfter, MaxAge
<1>2. AgedBy(AgeAfter(added, before), delay) = AgeAfter(added, before) + delay
  <2> DEFINE n == AgeAfter(added, before) + delay
  <2>1. n \in Nat /\ n < 65536 /\ 65536 \in Nat
    BY <1>1
  <2> HIDE DEF n
  <2>2. n % 65536 = n
    BY <2>1, ModSmall
  <2> QED
    BY <2>2 DEF AgedBy, n
<1> QED
  BY <1>1, <1>2 DEF AgeAfter, MaxAge
=============================================================================
