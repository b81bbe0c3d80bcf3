---------------------------- MODULE LsaFlooding ----------------------------
(***************************************************************************)
(* Flooding of one LSA through an area of any shape: every router that      *)
(* receives a new instance sends it on over all its interfaces, the one it  *)
(* came from included, and only the originator, or a router that saw an old *)
(* instance, keeps it on a retransmission list until it is acknowledged.    *)
(*                                                                          *)
(* All adjacencies are FULL and stay so (OspfAdjacency has them form and    *)
(* fail), and interfaces are point-to-point, so that an interface is named  *)
(* by the router at its other end.  LSAs do not meet in the loop of the     *)
(* handler once request lists are empty, so one of them stands for all; an  *)
(* update that another LSA of the same packet cuts short is a lost one.     *)
(* Ages are left to LsaInstances; SeqDecides of LsaFloodingProofs says when *)
(* the sequence number alone decides which instance is the newer one.       *)
(***************************************************************************)
EXTENDS Integers, Sequences, FiniteSets

CONSTANTS
  Router,       \* the routers of the area
  Origin,       \* the originator of the LSA
  Link,         \* adjacent pairs, in both orders
  MaxInstance,  \* instances the originator makes
  MaxLoss,      \* packets the links may lose
  MaxInFlight   \* a retransmission timer fires only while fewer packets wait on a link

ASSUME NetworkAssumption ==
  /\ Origin \in Router
  /\ Link \subseteq Router \X Router
  /\ \A l \in Link : l[1] # l[2] /\ <<l[2], l[1]>> \in Link
ASSUME BoundAssumption == MaxInstance \in Nat /\ MaxLoss \in Nat /\ MaxInFlight \in Nat

Neighbors(r) == {n \in Router : <<r, n>> \in Link}

\* A packet and the sequence number of the one LSA or header it carries.
Packet == [type : {"LSU", "Ack"}, ver : Nat]
LSU(v) == [type |-> "LSU", ver |-> v]
Ack(v) == [type |-> "Ack", ver |-> v]

VARIABLES
  copy,    \* copy[r]: sequence number of the instance in r's database
  young,   \* routers that installed their copy less than MinLSArrival ago
  rxmt,    \* rxmt[r]: the neighbours on whose retransmission list r has the LSA
  chan,    \* chan[l]: packets on their way from l[1] to l[2], oldest first
  losses,  \* packets lost so far
  gap      \* history: news to a router was lost or came too early, and no list holds it

vars == <<copy, young, rxmt, chan, losses, gap>>

TypeOK ==
  /\ copy \in [Router -> Nat]
  /\ young \subseteq Router
  /\ rxmt \in [Router -> SUBSET Router]
  /\ chan \in [Link -> Seq(Packet)]
  /\ losses \in Nat
  /\ gap \in BOOLEAN

\* The adjacencies have formed and everything is acknowledged.
Init ==
  /\ copy = [r \in Router |-> 1]
  /\ young = {}
  /\ rxmt = [r \in Router |-> {}]
  /\ chan = [l \in Link |-> <<>>]
  /\ losses = 0
  /\ gap = FALSE

-----------------------------------------------------------------------------
\* The packet l delivers is taken off, and each neighbour n of r in "to" is sent out[n].
Deliver(l, r, to, out) ==
  chan' = [k \in Link |->
             (IF k = l THEN Tail(chan[k]) ELSE chan[k])
               \o (IF k[1] = r /\ k[2] \in to THEN out ELSE <<>>)]

\* The packet the link l brings next.
Arrives(l, type) == chan[l] # <<>> /\ Head(chan[l]).type = type

\* bug: only the interface it came on
FloodedBack(n, r) == {n}

\* AppendToRxmtList looks neither at the neighbour the LSA came from nor, with step 5,
\* at its originator: every interface gets it.
FloodedTo(n, r) == Neighbors(r)

\* A newer LSA of its own (13.4) a router answers with a still newer one.
Flooded(r, v) == IF r = Origin THEN <<LSU(v), LSU(v + 1)>> ELSE <<LSU(v)>>

TooEarly(r) == r # Origin /\ r \in young

\* bug: any instance but the stored one is installed
NewerIfDifferent(r, v) == v # copy[r]
Newer(r, v) == v > copy[r]

\* Step 5: the newer instance is flooded at once, taken off every retransmission
\* list and installed.
Install(l) ==
  LET r == l[2]  v == Head(chan[l]).ver
  IN  /\ Arrives(l, "LSU") /\ Newer(r, v) /\ ~TooEarly(r)
      /\ Deliver(l, r, FloodedTo(l[1], r), Flooded(r, v))
      /\ copy' = [copy EXCEPT ![r] = v]
      /\ young' = young \cup {r}
      /\ rxmt' = [rxmt EXCEPT ![r] = {}]
      /\ UNCHANGED <<losses, gap>>

\* Step 5.a: within MinLSArrival of the last installation it is dropped.
DropEarly(l) ==
  LET r == l[2]  v == Head(chan[l]).ver
  IN  /\ Arrives(l, "LSU") /\ Newer(r, v) /\ TooEarly(r)
      /\ Deliver(l, r, {}, <<>>)
      /\ gap' = (gap \/ r \notin rxmt[l[1]])
      /\ UNCHANGED <<copy, young, rxmt, losses>>

\* bug: listed under the interface, not under the router ID
AnswerOldListsLink(l) == rxmt' = [rxmt EXCEPT ![l[2]] = @ \cup {l}]
AnswerOldLists(l) == rxmt' = [rxmt EXCEPT ![l[2]] = @ \cup {l[1]}]

\* Step 8: the sender of an older instance is sent the stored one, through the
\* retransmission list.
AnswerOld(l) ==
  LET r == l[2]  v == Head(chan[l]).ver
  IN  /\ Arrives(l, "LSU") /\ v < copy[r]
      /\ Deliver(l, r, {}, <<>>)
      /\ AnswerOldLists(l)
      /\ UNCHANGED <<copy, young, losses, gap>>

\* Step 7: the same instance acknowledges the one on the list, or is acknowledged.
SameInstance(l) ==
  LET n == l[1]  r == l[2]  v == Head(chan[l]).ver
  IN  /\ Arrives(l, "LSU") /\ v = copy[r]
      /\ Deliver(l, r, IF n \in rxmt[r] THEN {} ELSE {n}, <<Ack(v)>>)
      /\ rxmt' = [rxmt EXCEPT ![r] = @ \ {n}]
      /\ UNCHANGED <<copy, young, losses, gap>>

AckedAny(r, v) == TRUE          \* bug: instances not compared
AckedOlder(r, v) == v < copy[r]   \* bug: compared the wrong way
Acked(r, v) == v = copy[r]

\* ReceiveLinkStateAckPacket
ReceiveAck(l) ==
  LET n == l[1]  r == l[2]  v == Head(chan[l]).ver
  IN  /\ Arrives(l, "Ack")
      /\ Deliver(l, r, {}, <<>>)
      /\ rxmt' = IF Acked(r, v) THEN [rxmt EXCEPT ![r] = @ \ {n}] ELSE rxmt
      /\ UNCHANGED <<copy, young, losses, gap>>

\* OriginateRouterLSA: the instance grows in place and joins every list.
Originate ==
  /\ copy[Origin] < MaxInstance
  /\ copy' = [copy EXCEPT ![Origin] = @ + 1]
  /\ rxmt' = [rxmt EXCEPT ![Origin] = Neighbors(Origin)]
  /\ UNCHANGED <<young, chan, losses, gap>>

\* SendLinkStateUpdatePacketEntryPoint, every 5 s: one event for all neighbours.
Retransmit(r) ==
  /\ rxmt[r] # {}
  /\ \A l \in Link : r \in {l[1], l[2]} => Len(chan[l]) < MaxInFlight
  /\ chan' = [l \in Link |-> IF l[1] = r /\ l[2] \in rxmt[r]
                             THEN Append(chan[l], LSU(copy[r])) ELSE chan[l]]
  /\ UNCHANGED <<copy, young, rxmt, losses, gap>>

\* A link loses a packet.
Lose(l) ==
  /\ chan[l] # <<>> /\ losses < MaxLoss
  /\ Deliver(l, l[2], {}, <<>>)
  /\ losses' = losses + 1
  /\ gap' = (gap \/ (/\ Arrives(l, "LSU") /\ Newer(l[2], Head(chan[l]).ver)
                     /\ l[2] \notin rxmt[l[1]]))
  /\ UNCHANGED <<copy, young, rxmt>>

MinLSArrivalPasses ==
  /\ young # {}
  /\ young' = {}
  /\ UNCHANGED <<copy, rxmt, chan, losses, gap>>

Receive(l) ==
  Install(l) \/ DropEarly(l) \/ AnswerOld(l) \/ SameInstance(l) \/ ReceiveAck(l)

Next ==
  \/ \E l \in Link : Receive(l) \/ Lose(l)
  \/ \E r \in Router : Retransmit(r)
  \/ Originate
  \/ MinLSArrivalPasses

Spec == Init /\ [][Next]_vars

(***************************************************************************)
(* Fairness: packets that are not lost arrive, time passes, and the         *)
(* retransmission timer, which the bound MaxInFlight may hold up, fires     *)
(* again and again.  Nothing is assumed of losses and originations.         *)
(***************************************************************************)
FairSpec ==
  /\ Spec
  /\ \A l \in Link : WF_vars(Receive(l))
  /\ \A r \in Router : SF_vars(Retransmit(r))
  /\ WF_vars(MinLSArrivalPasses)

-----------------------------------------------------------------------------
(* Properties                                                               *)

\* A packet speaks of an instance its sender has or had, and no router is ahead of the
\* originator: nobody invents an instance (Install, 13.4).
Backed ==
  /\ \A r \in Router : copy[r] <= copy[Origin]
  /\ \A l \in Link : \A i \in DOMAIN chan[l] : chan[l][i].ver <= copy[l[1]]

\* Across every link the instance of one end is held by the other one, on its way to
\* it, or on the retransmission list, unless news that no list holds was once lost or
\* came too early: acknowledgments, implied ones too, never take an
\* instance off the list that the neighbour has not got.
Covered ==
  gap \/ \A l \in Link :
           \/ copy[l[2]] >= copy[l[1]]
           \/ l[2] \in rxmt[l[1]]
           \/ \E i \in DOMAIN chan[l] : chan[l][i] = LSU(copy[l[1]])

Quiet ==
  /\ \A r \in Router : rxmt[r] = {}
  /\ \A l \in Link : chan[l] = <<>>

\* When nothing is on its way and no list holds anything, all routers of a connected
\* area have the originator's instance, unless news was lost for good.
QuietAgree == Quiet /\ ~gap => \A r \in Router : copy[r] = copy[Origin]

\* Flooding ends: the echoes to the sender, the acknowledgments and the answers to old
\* instances die out, and every list empties, whatever is lost.
FloodingEnds == <>[]Quiet

\* Flooding replicates the LSA: copies move forward only, along links, to instances
\* the neighbour has had.
Replication == INSTANCE LsdbReplication WITH
  Router <- Router, Origin <- Origin, Link <- Link, copy <- copy
ReplicationSpec == Replication!Spec
=============================================================================
