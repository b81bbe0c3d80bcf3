------------------------- MODULE OspfTransferProofs -------------------------
(***************************************************************************)
(* Proofs about what the Database Description exchange of OspfAdjacency     *)
(* brings over, as long as no inactivity timer has expired: whose turn it   *)
(* is, which LSAs have been described, and that nothing an exchange meets   *)
(* makes it start again.  They look at a step through ExchangeStep, and     *)
(* through what it does to the request list (RequestStep) and to the        *)
(* updates on their way (SendStep).                                         *)
(***************************************************************************)
EXTENDS OspfExchangeProofs, OspfFloodingProofs

-----------------------------------------------------------------------------
(* Turns                                                                    *)

Answers(p) == {m \in Descriptions(p) : ~m.init}
Finished(p) == nbr[p].state \in {"LOADING", "FULL"}
Exchanging(p) == nbr[p].state \in Synchronizing

\* What is true before the slave q has answered the first packet of the master p.
Opening(p) ==
  LET q == Peer(p)
  IN  /\ nbr[p].state = "DOWN" \/ InitialDue(p) => Descriptions(q) = {} /\ ~Exchanging(q)
      /\ ~Exchanging(q) => ~Exchanging(p) /\ Answers(p) = {}
      /\ Exchanging(q) => \A a \in Descriptions(q) : ~a.init
      /\ Exchanging(p) => Descriptions(p) = Answers(p)
      /\ ~Exchanging(p) =>
           /\ \A a \in Descriptions(q) : a.init /\ a.seq = nbr[p].seq
           /\ Exchanging(q) => nbr[q].seq = nbr[p].seq
           /\ NextDue(q) => nbr[q].last.init
           /\ \A s \in Answers(p) : s.headers = NoHeaders

\* It is the turn of one end only: the master builds or has sent a description that the
\* slave has not seen, or the slave the answer to the last one.
Turns(p) ==
  LET q == Peer(p)
  IN  /\ NextDue(p) => Answers(q) = {}
      /\ NextDue(p) \/ Answers(q) # {} =>
           Answers(p) = {} /\ ~NextDue(q) /\ nbr[q].seq = nbr[p].seq - 1
      /\ \A a \in Answers(q) : a.seq = nbr[p].seq
      /\ NextDue(q) => Answers(p) = {}
      /\ NextDue(q) \/ Answers(p) # {} => Descriptions(q) = {} /\ nbr[q].seq = nbr[p].seq
      /\ \A s \in Answers(p) : s.seq = nbr[p].seq
      /\ Exchanging(p) => nbr[q].seq \in {nbr[p].seq - 1, nbr[p].seq}

\* The slave finishes on a description without the More flag, and the master on the
\* answer to it, which repeats the flag.
Ending(p) ==
  LET q == Peer(p)
  IN  /\ \A a \in Answers(q) : ~a.more => nbr[p].summary = NoHeaders
      /\ NextDue(q) => (nbr[q].last.more <=> ~Finished(q))
      /\ \A s \in Answers(p) : s.more <=> ~Finished(q)
      /\ Finished(q) =>
           /\ Exchanging(p) /\ nbr[p].summary = NoHeaders
           /\ ~NextDue(p) /\ Answers(q) = {}
      /\ Finished(p) =>
           /\ Finished(q) /\ ~NextDue(q) /\ Answers(p) = {}
           /\ nbr[q].seq = nbr[p].seq - 1

ExchangeTurns(p) ==
  /\ OneDescription(chan[Peer(p)]) /\ AnswerLast(chan[p])
  /\ Opening(p) /\ Turns(p) /\ Ending(p)

-----------------------------------------------------------------------------
(* Transfer                                                                 *)

\* The LSAs that p has or has asked for.
Has(p) == Listed(lsdb[p]) \cup Listed(nbr[p].req)

\* The other router's LSAs are in there, in its summary list, or in the headers h.
Brought(p, h) == OwnLsas(Peer(p)) \subseteq Has(p) \cup Listed(nbr[Peer(p)].summary) \cup Listed(h)

\* A description that is not answered yet holds what its receiver still has to get.
Transferred(p) ==
  LET q == Peer(p)
  IN  /\ Exchanging(p) /\ (nbr[q].seq = nbr[p].seq \/ NextDue(p)) => Brought(q, NoHeaders)
      /\ \A a \in Answers(q) : Brought(q, a.headers)
      /\ Finished(q) => OwnLsas(p) \subseteq Has(q)
      /\ Exchanging(q) /\ (nbr[q].seq < nbr[p].seq \/ NextDue(q)) => Brought(p, NoHeaders)
      /\ \A s \in Answers(p) : Brought(p, s.headers)

\* LSAs are requested between the exchange and FULL only, and a router has its own.
RequestsOpen(p) ==
  /\ nbr[p].state \notin {"EXCHANGE", "LOADING"} => nbr[p].req = NoHeaders
  /\ OwnLsas(p) \subseteq Listed(lsdb[p])

-----------------------------------------------------------------------------
(* Requests and the updates that answer them                                *)

\* What h says of an LSA is no older than what g says of it.
NotOlder(g, h) == \A k \in Lsas : h[k] # 0 => g[k] <= h[k]

\* No update behind a description is older than the description.
FreshChannel(c) ==
  \A i, j \in DOMAIN c : i < j /\ c[i].type = "DD" /\ c[j].type = "LSU" =>
    NotOlder(c[i].headers, c[j].headers)

\* An LSA is requested in a newer instance than the router has, and no update that is
\* handled, on its way or scheduled brings an older one than requested.
Fresh(p) ==
  LET q == Peer(p)
  IN  /\ \A k \in Lsas : nbr[p].req[k] # 0 => lsdb[p][k] < nbr[p].req[k]
      /\ NotOlder(nbr[p].req, hand[p])
      /\ \A m \in Elements(chan[p]) : m.type = "LSU" => NotOlder(nbr[p].req, m.headers)
      /\ FreshChannel(chan[p])
      /\ \A c \in Elements(due[q]) : c.call = "SendLSU" =>
           /\ NotOlder(nbr[p].req, c.headers)
           /\ \A m \in Descriptions(p) : NotOlder(m.headers, c.headers)

\* A call that sends an update waits alone.
Lone(cs) == \A i \in DOMAIN cs : cs[i].call = "SendLSU" => Len(cs) = 1
LoneUpdates == \A p \in Router : Lone(due[p])

TransferInv ==
  faults.inactive = 0 =>
    \A p \in Router :
      /\ p > Peer(p) => ExchangeTurns(p) /\ Transferred(p)
      /\ RequestsOpen(p) /\ Fresh(p)

-----------------------------------------------------------------------------
(* What a step does to the request list                                     *)

Requesting == {"EXCHANGE", "LOADING"}

\* A request stays, while the database has an older instance, or goes with an instance
\* of its LSA; none goes unanswered when the state does.
RequestStep(p) ==
  /\ \A k \in Lsas :
       \/ /\ nbr'[p].req[k] = nbr[p].req[k]
          /\ \/ nbr[p].req[k] = 0
             \/ lsdb'[p][k] = lsdb[p][k]
             \/ lsdb'[p][k] < nbr[p].req[k]
       \/ nbr'[p].req[k] = 0 /\ lsdb'[p][k] # 0
  /\ nbr'[p].state \notin Requesting =>
       \/ nbr'[p].req = NoHeaders
       \/ nbr[p].state \notin Requesting /\ nbr'[p].req = nbr[p].req

\* A step that leaves the request list alone and touches own LSAs of the database only.
LEMMA SameRequests ==
  ASSUME OwnNeverRequested, NEW p \in Router, nbr'[p].req = nbr[p].req,
         nbr'[p].state \notin Requesting => nbr[p].state \notin Requesting,
         \A k \in Lsas : lsdb'[p][k] = lsdb[p][k] \/ k \in OwnLsas(p)
  PROVE  RequestStep(p)
BY DEF RequestStep, OwnNeverRequested

\* A newer instance v of the LSA k comes into the database.
LEMMA InstalledRequests ==
  ASSUME CoreInv, NEW p \in Router, NEW k \in Lsas, NEW v \in Nat, v > lsdb[p][k], NEW m,
         \/ m = nbr[p] /\ nbr[p].req[k] = 0
         \/ m = AnswerRequest(nbr[p], p, k, v),
         nbr[p].state \notin Requesting => nbr[p].req = NoHeaders,
         SetNbr(p, RemoveFromRxmtList(m, {k})),
         lsdb' = [lsdb EXCEPT ![p] =
                    [Reoriginate(lsdb[p], OriginatedBy(nbr[p], m, p)) EXCEPT ![k] = v]]
  PROVE  RequestStep(p)
<1>1. /\ TypeOK /\ nbr[p] \in Neighbor /\ lsdb[p] \in Headers /\ nbr[p].req \in Headers
      /\ \A j \in OwnLsas(p) : nbr[p].req[j] = 0
  BY DEF CoreInv, TypeOK, Neighbor, OwnNeverRequested
<1>2. m \in Neighbor
  BY <1>1, NoteDDTypes
<1>3. nbr'[p].req = m.req /\ nbr'[p].state = m.state
  <2>1. nbr'[p] = RemoveFromRxmtList(m, {k})
    BY <1>1 DEF SetNbr, TypeOK
  <2>2. QED
    BY <1>2, <2>1 DEF RemoveFromRxmtList, Neighbor
<1>4. /\ lsdb'[p][k] = v /\ v # 0
      /\ \A j \in Lsas \ {k} : lsdb'[p][j] = lsdb[p][j] \/ j \in OwnLsas(p)
  <2>1. OriginatedBy(nbr[p], m, p) \subseteq OwnLsas(p)
    BY DEF OriginatedBy
  <2>2. v # 0
    BY <1>1 DEF Headers
  <2>3. QED
    BY <1>1, <2>1, <2>2 DEF Reoriginate, TypeOK, Headers
<1>5. \/ m = nbr[p] /\ (nbr[p].state \notin Requesting \/ nbr[p].req[k] \notin 1..v)
      \/ /\ m.req = [nbr[p].req EXCEPT ![k] = 0] /\ nbr[p].req[k] \in 1..v
         /\ m.state # nbr[p].state => m.req = NoHeaders
  <2>1. CASE m = nbr[p] /\ nbr[p].req[k] = 0
    BY <2>1
  <2>2. CASE m = AnswerRequest(nbr[p], p, k, v)
    <3> DEFINE a == AnswerRequest(nbr[p], p, k, v)
    <3>1. \/ a = nbr[p] /\ (nbr[p].state \notin {"EXCHANGE", "LOADING"} \/ nbr[p].req[k] \notin 1..v)
          \/ /\ a.req = [nbr[p].req EXCEPT ![k] = 0] /\ nbr[p].req[k] \in 1..v
             /\ a.state # nbr[p].state => a.req = NoHeaders
      BY <1>1, ListEvents
    <3>2. m = a
      BY <2>2
    <3> HIDE DEF a
    <3>3. QED
      BY <3>1, <3>2 DEF Requesting
  <2>3. QED
    BY <2>1, <2>2
<1>6. CASE m = nbr[p] /\ (nbr[p].state \notin Requesting \/ nbr[p].req[k] \notin 1..v)
  <2>1. nbr[p].req[k] = 0 \/ v < nbr[p].req[k]
    BY <1>1, <1>6 DEF NoHeaders, Headers
  <2>2. QED
    BY <1>1, <1>3, <1>4, <1>6, <2>1 DEF RequestStep
<1>7. CASE /\ m.req = [nbr[p].req EXCEPT ![k] = 0] /\ nbr[p].req[k] \in 1..v
           /\ m.state # nbr[p].state => m.req = NoHeaders
  <2>1. nbr[p].state \in Requesting
    BY <1>7 DEF NoHeaders
  <2>2. \A j \in Lsas \ {k} : m.req[j] = nbr[p].req[j]
    BY <1>1, <1>7 DEF Headers
  <2>3. m.req[k] = 0
    BY <1>1, <1>7 DEF Headers
  <2>4. QED
    BY <1>1, <1>3, <1>4, <1>7, <2>1, <2>2, <2>3 DEF RequestStep
<1>8. QED
  BY <1>5, <1>6, <1>7

\* Every step of a router is one of these, takes a description in turn, begins the
\* exchange again or expires the inactivity timer.
LEMMA ActorRequest ==
  ASSUME CoreInv, ScopeInv, NEW p \in Router, Acts(p),
         nbr[p].state \notin Requesting => nbr[p].req = NoHeaders
  PROVE  \/ RequestStep(p) \/ AcceptStep(p) \/ Surprised(p)
         \/ faults'.inactive = faults.inactive + 1
<1> DEFINE n == nbr[p]
           k == Known(p)
<1>1. /\ TypeOK /\ OwnNeverRequested /\ n \in Neighbor /\ lsdb[p] \in Headers
      /\ hand[p] \in Headers
  BY DEF CoreInv, TypeOK
<1>2. \A m : SetNbr(p, m) => nbr'[p] = m
  BY <1>1 DEF SetNbr, TypeOK
<1>3. k \in Neighbor /\ k.req = n.req /\ k.state = n.state
  BY <1>1, NoteDDTypes DEF Known, Neighbor
<1>4. \A dd : NoteDD(p, dd).req = n.req /\ NoteDD(p, dd).state = n.state
  BY <1>1 DEF NoteDD, Known, Neighbor
<1>5. ASSUME nbr'[p].req = n.req, nbr'[p].state = n.state, lsdb' = lsdb
      PROVE  RequestStep(p)
  BY <1>1, <1>5, SameRequests
<1> HIDE DEF k
<1>6. CASE Receive(p)
  <2>1. CASE ReceiveHelloPacket(p)
    <3> DEFINE m == TwoWayReceived(HelloReceived(k))
    <3>1. nbr'[p] = m /\ lsdb' = lsdb
      BY <1>2, <2>1 DEF ReceiveHelloPacket, k
    <3>2. m.req = k.req
      BY <1>1, <1>3, ListEvents DEF SameLists
    <3>3. (k.state = "DOWN" => m.state = "EXSTART") /\ (k.state # "DOWN" => m = k)
      BY <1>1, <1>3, ControlEvents DEF StartsExchange
    <3> HIDE DEF m
    <3>4. QED
      BY <1>1, <1>3, <3>1, <3>2, <3>3, SameRequests DEF Requesting
  <2>2. CASE ReceiveDDIgnored(p)
    BY <1>2, <1>4, <1>5, <2>2 DEF ReceiveDDIgnored
  <2>3. CASE ReceiveDDNegotiate(p)
    <3> DEFINE dd == Head(chan[p])
               a == NoteDD(p, dd)
               s == [a EXCEPT !.master = FALSE, !.seq = dd.seq]
               t == [a EXCEPT !.master = TRUE]
    <3>1. /\ lsdb' = lsdb /\ a.state = "EXSTART"
          /\ \/ nbr'[p] = NegotDone(s, p)
             \/ nbr'[p] = IncrementSequenceNumber(NegotDone(t, p))
      BY <1>2, <2>3 DEF ReceiveDDNegotiate, AsSlave, AsMaster
    <3>2. a \in Neighbor /\ dd.seq \in Nat
      <4>1. chan[p] # <<>> /\ dd.type = "DD"
        BY <2>3 DEF ReceiveDDNegotiate, Arrives
      <4>2. dd \in Message
        BY <1>1, <4>1, HeadPacket
      <4>3. QED
        BY <1>1, <4>1, <4>2, MessageTypes, NoteDDTypes
    <3>3. /\ s \in Neighbor /\ s.state = "EXSTART" /\ s.req = a.req
          /\ t \in Neighbor /\ t.state = "EXSTART" /\ t.req = a.req
      <4>1. [a EXCEPT !.seq = dd.seq] \in Neighbor
        BY <3>2 DEF Neighbor
      <4>2. QED
        BY <3>1, <3>2, <4>1 DEF Neighbor
    <3>4. n.req = a.req
      BY <1>4
    <3> HIDE DEF s, t, a
    <3>5. ASSUME NEW x \in {s, t}
          PROVE  /\ NegotDone(x, p).req = a.req /\ NegotDone(x, p).state = "EXCHANGE"
                 /\ NegotDone(x, p) \in Neighbor
      <4>1. x \in Neighbor /\ x.state = "EXSTART" /\ x.req = a.req
        BY <3>3
      <4>2. NegotDone(x, p) \in Neighbor
        BY <1>1, <4>1, NeighborTypes
      <4>3. NegotDone(x, p).req = x.req
        BY <4>1, ListEvents
      <4>4. NegotDone(x, p).state = "EXCHANGE"
        BY <4>1, ControlEvents
      <4>5. QED
        BY <4>1, <4>2, <4>3, <4>4
    <3>6. nbr'[p].req = a.req /\ nbr'[p].state = "EXCHANGE"
      <4>1. \A x \in Neighbor : /\ IncrementSequenceNumber(x).req = x.req
                                /\ IncrementSequenceNumber(x).state = x.state
        BY DEF IncrementSequenceNumber, Neighbor
      <4>2. QED
        BY <3>1, <3>5, <4>1
    <3>7. QED
      BY <1>1, <3>1, <3>4, <3>6, SameRequests DEF Requesting
  <2>4. CASE ReceiveDDMismatch(p)
    BY <2>4 DEF ReceiveDDMismatch, Surprised
  <2>5. CASE ReceiveDDAsMaster(p) \/ ReceiveDDAsSlave(p)
    BY <1>1, <2>5, AcceptExchange
  <2>6. CASE ReceiveLinkStateRequestPacket(p)
    <3>1. /\ lsdb' = lsdb
          /\ SetNbr(p, k) \/ Surprised(p)
      BY <2>6, Zenon DEF ReceiveLinkStateRequestPacket, Surprised, k
    <3>2. QED
      BY <1>2, <1>3, <1>5, <3>1
  <2>7. CASE ReceiveLinkStateUpdatePacket(p) \/ ReceiveLinkStateAckPacket(p)
    <3>1. lsdb' = lsdb /\ (SetNbr(p, k) \/ \E ks : SetNbr(p, RemoveFromRxmtList(k, ks)))
      BY <2>7, Zenon DEF ReceiveLinkStateUpdatePacket, ReceiveLinkStateAckPacket, k
    <3>2. nbr'[p].req = k.req /\ nbr'[p].state = k.state
      BY <1>2, <1>3, <3>1 DEF RemoveFromRxmtList, Neighbor
    <3>3. QED
      BY <1>3, <1>5, <3>1, <3>2
  <2>8. QED
    BY <1>6, <2>1, <2>2, <2>3, <2>4, <2>5, <2>6, <2>7 DEF Receive
<1>7. CASE RunDue(p)
  <2>1. lsdb' = lsdb /\ (nbr' = nbr \/ \E h : SetNbr(p, [n EXCEPT !.summary = h]))
    BY <1>7, Zenon DEF RunDue, SendInitialDD, SendDD, SendLSR, SendLSUDirect, EntryPoint
  <2>2. nbr'[p].req = n.req /\ nbr'[p].state = n.state
    BY <1>1, <1>2, <2>1 DEF Neighbor
  <2>3. QED
    BY <1>5, <2>1, <2>2
<1>8. CASE HandleLSA(p)
  <2>1. PICK j \in Listed(hand[p]) :
          \/ InstallLSA(p, j) \/ DropEarlyLSA(p, j) \/ BadLSRequest(p, j)
          \/ AnswerOldLSA(p, j) \/ SameLSA(p, j)
    BY <1>8 DEF HandleLSA
  <2>2. j \in Lsas /\ hand[p][j] \in Nat
    BY <1>1, <2>1 DEF Listed, Headers
  <2>3. CASE InstallLSA(p, j)
    <3> DEFINE m == AnswerRequest(n, p, j, hand[p][j])
    <3>1. /\ hand[p][j] > lsdb[p][j] /\ SetNbr(p, RemoveFromRxmtList(m, {j}))
          /\ lsdb' = [lsdb EXCEPT ![p] =
                        [Reoriginate(lsdb[p], OriginatedBy(n, m, p)) EXCEPT ![j] = hand[p][j]]]
      BY <2>3 DEF InstallLSA, MoreRecent
    <3>2. QED
      BY <2>2, <3>1, InstalledRequests
  <2>4. CASE BadLSRequest(p, j)
    BY <2>1, <2>4 DEF BadLSRequest, Surprised
  <2>5. CASE DropEarlyLSA(p, j) \/ AnswerOldLSA(p, j) \/ SameLSA(p, j)
    <3>1. /\ lsdb' = lsdb
          /\ \/ nbr' = nbr
             \/ SetNbr(p, n)
             \/ SetNbr(p, AddRxmtList(n, {j}))
             \/ SetNbr(p, RemoveFromRxmtList(n, {j}))
      BY <2>5 DEF DropEarlyLSA, AnswerOldLSA, SameLSA
    <3>2. nbr'[p].req = n.req /\ nbr'[p].state = n.state
      BY <1>1, <1>2, <3>1 DEF AddRxmtList, RemoveFromRxmtList, Neighbor
    <3>3. QED
      BY <1>5, <3>1, <3>2
  <2>6. QED
    BY <2>1, <2>3, <2>4, <2>5
<1>9. CASE SendHelloPacket(p) \/ LSRTimer(p) \/ EntryPointTimer(p) \/ Lose(p) \/ ClearLastPacket(p)
  <2>1. lsdb' = lsdb /\ (nbr' = nbr \/ SetNbr(p, [n EXCEPT !.last = NoDD]))
    BY <1>9 DEF SendHelloPacket, LSRTimer, EntryPointTimer, Lose, ClearLastPacket
  <2>2. nbr'[p].req = n.req /\ nbr'[p].state = n.state
    BY <1>1, <1>2, <2>1 DEF Neighbor
  <2>3. QED
    BY <1>5, <2>1, <2>2
<1>10. CASE InactivityTimer(p)
  BY <1>1, <1>10 DEF InactivityTimer, TypeOK
<1>11. CASE ForeignUpdate(p)
  <2>1. PICK j \in Foreign, v \in 1..MaxForeign :
          LET m == IF j \in OffLink THEN n ELSE AnswerRequest(n, p, j, v)
              db == Reoriginate(lsdb[p], OriginatedBy(n, m, p))
          IN  /\ MoreRecent(v, lsdb[p][j])
              /\ SetNbr(p, RemoveFromRxmtList(m, {j}))
              /\ lsdb' = [lsdb EXCEPT ![p] = [db EXCEPT ![j] = v]]
    BY <1>11, Zenon DEF ForeignUpdate
  <2>2. j \in Lsas /\ v \in Nat /\ v > lsdb[p][j]
    BY <2>1 DEF MoreRecent, Lsas
  <2>3. j \in OffLink => n.req[j] = 0
    BY DEF ScopeInv, ScopedRouter, Scoped, Free
  <2> DEFINE m == IF j \in OffLink THEN n ELSE AnswerRequest(n, p, j, v)
  <2>4. (m = n /\ n.req[j] = 0) \/ m = AnswerRequest(n, p, j, v)
    BY <2>3
  <2>5. /\ SetNbr(p, RemoveFromRxmtList(m, {j}))
        /\ lsdb' = [lsdb EXCEPT ![p] =
                      [Reoriginate(lsdb[p], OriginatedBy(n, m, p)) EXCEPT ![j] = v]]
    BY <2>1
  <2> HIDE DEF m
  <2>6. QED
    BY <2>2, <2>4, <2>5, InstalledRequests
<1>12. CASE OriginateElsewhere(p)
  <2>1. PICK ks \in SUBSET OwnLsas(p) :
          /\ lsdb' = [lsdb EXCEPT ![p] = Reoriginate(@, ks)]
          /\ SetNbr(p, n) \/ SetNbr(p, AddRxmtList(n, ks))
    BY <1>12 DEF OriginateElsewhere
  <2>2. nbr'[p].req = n.req /\ nbr'[p].state = n.state
    BY <1>1, <1>2, <2>1 DEF AddRxmtList, Neighbor
  <2>3. \A j \in Lsas : lsdb'[p][j] = lsdb[p][j] \/ j \in OwnLsas(p)
    BY <1>1, <2>1 DEF Reoriginate, TypeOK
  <2>4. QED
    BY <1>1, <2>2, <2>3, SameRequests
<1>13. QED
  BY <1>6, <1>7, <1>8, <1>9, <1>10, <1>11, <1>12 DEF Acts

-----------------------------------------------------------------------------
(* What a step does to the updates on their way                             *)

NoUpdates(cs) == \A c \in Elements(cs) : c.call # "SendLSU"

\* Queues in which a call that sends an update waits alone.
LEMMA LoneQueues ==
  ASSUME NEW cs \in Seq(DueCall)
  PROVE  /\ NoUpdates(cs) => Lone(cs)
         /\ cs # <<>> /\ Lone(cs) => Lone(Tail(cs))
         /\ cs # <<>> /\ Lone(cs) /\ Head(cs).call # "SendLSU" => NoUpdates(Tail(cs))
<1>1. NoUpdates(cs) => Lone(cs)
  BY DEF NoUpdates, Lone, Elements
<1>2. ASSUME cs # <<>>, Lone(cs)
      PROVE  NoUpdates(Tail(cs))
  <2>1. /\ Tail(cs) \in Seq(DueCall)
        /\ Len(cs) \in Nat \ {0} /\ Len(Tail(cs)) = Len(cs) - 1
        /\ \A i \in 1..Len(Tail(cs)) : Tail(cs)[i] = cs[i + 1]
        /\ DOMAIN cs = 1..Len(cs)
    BY <1>2, HeadTailProperties, EmptySeq, LenProperties
  <2>2. ASSUME NEW i \in DOMAIN Tail(cs) PROVE Tail(cs)[i].call # "SendLSU"
    <3>1. i \in 1..Len(Tail(cs))
      BY <2>1, LenProperties
    <3>2. i + 1 \in DOMAIN cs /\ Len(cs) # 1 /\ Tail(cs)[i] = cs[i + 1]
      BY <2>1, <3>1
    <3>3. QED
      BY <1>2, <3>2 DEF Lone
  <2>3. QED
    BY <2>2 DEF NoUpdates, Elements
<1>3. ASSUME cs # <<>>, Lone(cs) PROVE Lone(Tail(cs))
  BY <1>2, <1>3 DEF NoUpdates, Lone, Elements
<1>4. QED
  BY <1>1, <1>2, <1>3

\* What the ways of scheduling leave in the queue.
LEMMA LoneSchedules ==
  ASSUME TypeOK, NEW p \in Router, due[p] = <<>>
  PROVE  /\ \A n, r : Schedule(p, EventCalls(n, r)) => Lone(due'[p])
         /\ \A n, r : Schedule(p, Append(EventCalls(n, r), EntryPointCall)) => Lone(due'[p])
         /\ Schedule(p, <<SendDDCall(FALSE)>>) => Lone(due'[p])
         /\ \A n, r : Schedule(p, <<SendDDCall(FALSE)>> \o EventCalls(n, r)) => Lone(due'[p])
         /\ \A h \in Headers : Schedule(p, <<SendLSUCall(h)>>) => Lone(due'[p])
<1>1. /\ SendDDCall(FALSE) \in DueCall /\ EntryPointCall \in DueCall
      /\ \A h \in Headers : SendLSUCall(h) \in DueCall
      /\ \A n, r : EventCalls(n, r) \in Seq(DueCall)
      /\ <<SendDDCall(FALSE)>> \in Seq(DueCall)
      /\ Elements(<<SendDDCall(FALSE)>>) = {SendDDCall(FALSE)}
  BY DueCallTypes, ScheduledQueues
<1>2. \A cs \in Seq(DueCall) : Schedule(p, cs) => due'[p] = cs
  BY DueSteps
<1>3. SendDDCall(FALSE).call # "SendLSU" /\ EntryPointCall.call # "SendLSU"
  BY DDCalls DEF SendDDCall, EntryPointCall
<1>4. \A n, r : NoUpdates(EventCalls(n, r))
  BY EventCallElements DEF NoUpdates
<1>5. \A cs \in Seq(DueCall) : NoUpdates(cs) /\ Schedule(p, cs) => Lone(due'[p])
  BY <1>2, LoneQueues
<1>6. ASSUME NEW n, NEW r, Schedule(p, Append(EventCalls(n, r), EntryPointCall))
      PROVE  Lone(due'[p])
  <2> DEFINE cs == Append(EventCalls(n, r), EntryPointCall)
  <2>1. cs \in Seq(DueCall) /\ Elements(cs) = Elements(EventCalls(n, r)) \cup {EntryPointCall}
    <3>1. EventCalls(n, r) \in Seq(DueCall)
      BY <1>1
    <3>2. QED
      BY <1>1, <3>1, QueueElements
  <2>2. NoUpdates(cs)
    BY <1>3, <1>4, <2>1 DEF NoUpdates
  <2>3. QED
    BY <1>5, <1>6, <2>1, <2>2
<1>7. NoUpdates(<<SendDDCall(FALSE)>>)
  BY <1>1, <1>3 DEF NoUpdates
<1>8. ASSUME NEW n, NEW r, Schedule(p, <<SendDDCall(FALSE)>> \o EventCalls(n, r))
      PROVE  Lone(due'[p])
  <2> DEFINE d == <<SendDDCall(FALSE)>>
             e == EventCalls(n, r)
  <2>1. d \in Seq(DueCall) /\ e \in Seq(DueCall) /\ NoUpdates(d) /\ NoUpdates(e)
    BY <1>1, <1>4, <1>7
  <2> HIDE DEF d, e
  <2>2. d \o e \in Seq(DueCall) /\ Elements(d \o e) = Elements(d) \cup Elements(e)
    BY <2>1, QueueElements
  <2>3. NoUpdates(d \o e)
    BY <2>1, <2>2 DEF NoUpdates
  <2>4. QED
    BY <1>5, <1>8, <2>2, <2>3 DEF d, e
<1>9. ASSUME NEW h \in Headers, Schedule(p, <<SendLSUCall(h)>>)
      PROVE  Lone(due'[p])
  <2>1. <<SendLSUCall(h)>> \in Seq(DueCall)
    BY <1>1, ScheduledQueues
  <2>2. due'[p] = <<SendLSUCall(h)>>
    BY <1>2, <1>9, <2>1
  <2>3. Len(<<SendLSUCall(h)>>) = 1
    OBVIOUS
  <2>4. QED
    BY <2>2, <2>3 DEF Lone
<1>10. QED
  BY <1>1, <1>4, <1>5, <1>6, <1>7, <1>8, <1>9

\* The headers h of an update are those of the database or newer, or not older than
\* those of an update that was scheduled.
UpToDate(p, h) ==
  \A k \in Listed(h) :
    \/ lsdb[p][k] <= h[k]
    \/ \E c \in Elements(due[p]) : c.call = "SendLSU" /\ c.headers[k] \in 1..h[k]

\* p may take or lose the first packet on its way to it, and sends one at most; it
\* describes nothing while it has an update to send.
SendStep(p) ==
  /\ chan'[p] = chan[p] \/ (chan[p] # <<>> /\ chan'[p] = Tail(chan[p]))
  /\ \/ chan'[Peer(p)] = chan[Peer(p)]
     \/ \E m \in Message :
          /\ chan'[Peer(p)] = Append(chan[Peer(p)], m)
          /\ m.type = "LSU" => UpToDate(p, m.headers)
          /\ m.type = "DD" => NoUpdates(due'[p])

\* The update that floods one LSA in a newer instance.
LEMMA FloodsNewer ==
  ASSUME TypeOK, NEW p \in Router, NEW k \in Lsas, NEW v \in Nat, v > lsdb[p][k]
  PROVE  /\ FloodPacket(k, v) \in Message /\ FloodPacket(k, v).type = "LSU"
         /\ UpToDate(p, FloodPacket(k, v).headers)
<1>1. FloodPacket(k, v) \in Message /\ FloodPacket(k, v).type = "LSU"
  BY HeadersTypes, MessageTypes DEF FloodPacket
<1>2. FloodPacket(k, v).headers = [NoHeaders EXCEPT ![k] = v]
  BY DEF FloodPacket
<1>3. lsdb[p][k] \in Nat
  BY DEF TypeOK, Headers
<1>4. \A j \in Listed([NoHeaders EXCEPT ![k] = v]) : j = k /\ [NoHeaders EXCEPT ![k] = v][j] = v
  BY DEF Listed, NoHeaders
<1> DEFINE h == [NoHeaders EXCEPT ![k] = v]
<1> HIDE DEF h
<1>5. UpToDate(p, h)
  <2>1. \A j \in Listed(h) : j = k /\ h[j] = v
    BY <1>4 DEF h
  <2>2. QED
    BY <1>3, <2>1 DEF UpToDate
<1>6. QED
  BY <1>1, <1>2, <1>5 DEF h

\* The update that retransmits, whatever is on the list.
LEMMA RetransmitsCurrent ==
  ASSUME TypeOK, NEW p \in Router, SendRxmtList(p)
  PROVE  /\ chan'[p] = chan[p]
         /\ \/ chan'[Peer(p)] = chan[Peer(p)]
            \/ \E m \in Message : /\ chan'[Peer(p)] = Append(chan[Peer(p)], m)
                                  /\ m.type = "LSU" /\ UpToDate(p, m.headers)
<1> DEFINE h == Pick(lsdb[p], nbr[p].rxmt)
           m == [type |-> "LSU", headers |-> h]
<1>1. lsdb[p] \in Headers /\ h \in Headers
  BY HeadersTypes DEF TypeOK
<1>2. m \in Message /\ m.type = "LSU" /\ m.headers = h
  BY <1>1, MessageTypes
<1>3. UpToDate(p, h)
  <2>1. \A k \in Listed(h) : h[k] = lsdb[p][k] /\ lsdb[p][k] \in Nat
    BY <1>1 DEF Listed, Pick, Headers
  <2>2. QED
    BY <2>1 DEF UpToDate
<1>4. chan' = chan \/ Send(p, m)
  BY DEF SendRxmtList
<1> HIDE DEF m, h
<1>5. QED
  BY <1>2, <1>3, <1>4, ChannelSteps

\* Every step of a router is such a step, and leaves updates to send alone.
LEMMA ActorUpdates ==
  ASSUME CoreInv, NEW p \in Router, Acts(p), TidyCalls(p), Lone(due[p])
  PROVE  SendStep(p) /\ Lone(due'[p])
<1> DEFINE q == Peer(p)
<1>1. /\ TypeOK /\ nbr[p] \in Neighbor /\ lsdb[p] \in Headers /\ hand[p] \in Headers
      /\ due[p] \in Seq(DueCall)
  BY DEF CoreInv, TypeOK
<1>2. due' = due => Lone(due'[p])
  OBVIOUS
<1>3. ASSUME chan' = chan PROVE SendStep(p)
  BY <1>3 DEF SendStep
<1>4. ASSUME NEW m \in Message, Send(p, m), m.type = "LSU" => UpToDate(p, m.headers),
             m.type = "DD" => NoUpdates(due'[p])
      PROVE  SendStep(p)
  <2>1. chan'[p] = chan[p] /\ chan'[q] = Append(chan[q], m)
    BY <1>1, <1>4, ChannelSteps
  <2>2. QED
    BY <1>4, <2>1 DEF SendStep
<1>5. ASSUME chan[p] # <<>>, Consume(p) PROVE SendStep(p)
  <2>1. chan'[p] = Tail(chan[p]) /\ chan'[q] = chan[q]
    BY <1>1, <1>5, ChannelSteps
  <2>2. QED
    BY <1>5, <2>1 DEF SendStep
<1>6. SendRxmtList(p) => SendStep(p)
  BY <1>1, RetransmitsCurrent DEF SendStep
<1>7. CASE Receive(p)
  <2>1. chan[p] # <<>> /\ Consume(p) /\ due[p] = <<>>
    BY <1>7 DEF Receive, Arrives, Idle, ReceiveHelloPacket, ReceiveDDIgnored,
       ReceiveDDNegotiate, ReceiveDDMismatch, ReceiveDDAsMaster, ReceiveDDAsSlave,
       ReceiveLinkStateRequestPacket, ReceiveLinkStateUpdatePacket,
       ReceiveLinkStateAckPacket
  <2>2. \/ due' = due
        \/ \E n, r : Schedule(p, EventCalls(n, r))
        \/ \E n, r : Schedule(p, Append(EventCalls(n, r), EntryPointCall))
        \/ Schedule(p, <<SendDDCall(FALSE)>>)
        \/ \E n, r : Schedule(p, <<SendDDCall(FALSE)>> \o EventCalls(n, r))
        \/ \E ks : Schedule(p, <<SendLSUCall(Pick(lsdb[p], ks))>>)
    <3>1. CASE ReceiveHelloPacket(p)
      BY <3>1, Zenon DEF ReceiveHelloPacket
    <3>2. CASE ReceiveDDIgnored(p) \/ ReceiveLinkStateUpdatePacket(p)
               \/ ReceiveLinkStateAckPacket(p)
      BY <3>2, Zenon DEF ReceiveDDIgnored, ReceiveLinkStateUpdatePacket,
         ReceiveLinkStateAckPacket
    <3>3. CASE ReceiveDDNegotiate(p)
      BY <3>3, Zenon DEF ReceiveDDNegotiate
    <3>4. CASE ReceiveDDMismatch(p)
      BY <3>4, Zenon DEF ReceiveDDMismatch
    <3>5. CASE ReceiveDDAsMaster(p)
      BY <3>5, Zenon DEF ReceiveDDAsMaster
    <3>6. CASE ReceiveDDAsSlave(p)
      BY <3>6, Zenon DEF ReceiveDDAsSlave
    <3>7. CASE ReceiveLinkStateRequestPacket(p)
      BY <3>7, Zenon DEF ReceiveLinkStateRequestPacket
    <3>8. QED
      BY <1>7, <3>1, <3>2, <3>3, <3>4, <3>5, <3>6, <3>7 DEF Receive
  <2>3. \A ks : Pick(lsdb[p], ks) \in Headers
    BY <1>1, HeadersTypes
  <2>4. Lone(due'[p])
    BY <1>1, <1>2, <2>1, <2>2, <2>3, LoneSchedules
  <2>5. QED
    BY <1>5, <2>1, <2>4
<1>8. CASE RunDue(p)
  <2>1. due[p] # <<>> /\ due'[p] = Tail(due[p])
    BY <1>1, <1>8 DEF RunDue, SendInitialDD, SendDD, SendLSR, SendLSUDirect, EntryPoint, TypeOK
  <2>2. Lone(due'[p]) /\ (Head(due[p]).call # "SendLSU" => NoUpdates(due'[p]))
    BY <1>1, <2>1, LoneQueues
  <2>3. CASE SendInitialDD(p) \/ SendDD(p)
    <3>1. Head(due[p]) = SendDDCall(TRUE) \/ Head(due[p]) = SendDDCall(FALSE)
      BY <2>3 DEF SendInitialDD, SendDD
    <3>2. NoUpdates(due'[p])
      BY <2>2, <3>1 DEF SendDDCall
    <3>3. \E more, master, init \in BOOLEAN : \E h \in Headers :
            Send(p, [type |-> "DD", init |-> init, more |-> more, master |-> master,
                     seq |-> nbr[p].seq, headers |-> h])
      <4>1. CASE SendInitialDD(p)
        BY <4>1, HeadersTypes DEF SendInitialDD
      <4>2. CASE SendDD(p)
        <5>1. \A ks, shared : Described(p, ks, shared) \in Headers
          BY <1>1 DEF Described, Neighbor, Headers
        <5>2. /\ (nbr[p].summary # NoHeaders) \in BOOLEAN
              /\ nbr[p].last.more \in BOOLEAN /\ nbr[p].master \in BOOLEAN
          BY <1>1 DEF Neighbor, LastDD
        <5>3. (IF nbr[p].master THEN nbr[p].summary # NoHeaders ELSE nbr[p].last.more) \in BOOLEAN
          BY <5>2
        <5>4. QED
          BY <4>2, <5>1, <5>2, <5>3, Zenon DEF SendDD
      <4>3. QED
        BY <2>3, <4>1, <4>2
    <3>4. PICK m \in Message : Send(p, m) /\ m.type = "DD"
      <4>1. nbr[p].seq \in Nat
        BY <1>1 DEF Neighbor
      <4>2. QED
        BY <3>3, <4>1, MessageTypes
    <3>5. QED
      BY <1>4, <2>2, <3>2, <3>4
  <2>4. CASE SendLSR(p)
    <3> DEFINE m == [type |-> "LSR", ids |-> Listed(nbr[p].req)]
    <3>1. m \in Message /\ m.type = "LSR"
      BY <1>1, HeadersTypes, MessageTypes DEF Neighbor
    <3>2. chan' = chan \/ Send(p, m)
      BY <2>4 DEF SendLSR
    <3> HIDE DEF m
    <3>3. QED
      BY <1>3, <1>4, <2>2, <3>1, <3>2
  <2>5. CASE SendLSUDirect(p)
    <3> DEFINE c == Head(due[p])
               h == Current(p, c.headers)
               m == [type |-> "LSU", headers |-> h]
    <3>1. c \in DueCall /\ c \in Elements(due[p]) /\ c.call = "SendLSU" /\ c.headers \in Headers
      <4>1. c.call = "SendLSU"
        BY <2>5 DEF SendLSUDirect
      <4>2. c \in DueCall /\ c \in Elements(due[p])
        BY <1>1, <2>1, HeadCall
      <4>3. QED
        BY <4>1, <4>2, DueCallTypes
    <3>2. Send(p, m)
      BY <2>5 DEF SendLSUDirect
    <3> HIDE DEF c
    <3>3. h \in Headers
      BY <1>1, <3>1 DEF Current, Headers
    <3>4. m \in Message /\ m.type = "LSU" /\ m.headers = h
      BY <3>3, MessageTypes
    <3>5. ASSUME NEW k \in Listed(h)
          PROVE  lsdb[p][k] <= h[k] \/ c.headers[k] \in 1..h[k]
      BY <1>1, <3>1 DEF Listed, Current, Headers
    <3>6. UpToDate(p, h)
      BY <3>1, <3>5 DEF UpToDate
    <3> HIDE DEF m, h
    <3>7. QED
      BY <1>4, <2>2, <3>2, <3>4, <3>6
  <2>6. CASE EntryPoint(p)
    BY <1>6, <2>2, <2>6 DEF EntryPoint
  <2>7. QED
    BY <1>8, <2>3, <2>4, <2>5, <2>6 DEF RunDue
<1>9. CASE HandleLSA(p)
  <2>1. PICK j \in Listed(hand[p]) :
          \/ InstallLSA(p, j) \/ DropEarlyLSA(p, j) \/ BadLSRequest(p, j)
          \/ AnswerOldLSA(p, j) \/ SameLSA(p, j)
    BY <1>9 DEF HandleLSA
  <2>2. /\ j \in Lsas /\ hand[p][j] \in Nat /\ hand[p] # NoHeaders
        /\ due[p] = <<>>
    BY <1>1, <2>1 DEF Listed, Headers, NoHeaders, TidyCalls
  <2>3. CASE InstallLSA(p, j)
    <3> DEFINE m == FloodPacket(j, hand[p][j])
    <3>1. due' = due /\ hand[p][j] > lsdb[p][j]
          /\ chan' = [chan EXCEPT ![q] =
               @ \o <<m>> \o (IF j \in OwnLsas(p) THEN <<FloodPacket(j, hand[p][j] + 1)>> ELSE <<>>)]
      BY <2>3 DEF InstallLSA, MoreRecent
    <3>2. j \notin OwnLsas(p)
      BY <3>1, ConfirmedHolds
    <3>3. m \in Message /\ m.type = "LSU" /\ UpToDate(p, m.headers)
      BY <1>1, <2>2, <3>1, FloodsNewer
    <3> HIDE DEF m
    <3>4. chan' = [chan EXCEPT ![q] = @ \o <<m>> \o <<>>]
      BY <3>1, <3>2
    <3>5. chan[q] \in Seq(Message) /\ q \in Router /\ q # p
      BY <1>1, PeerProperties DEF TypeOK
    <3>6. chan[q] \o <<m>> \o <<>> = Append(chan[q], m)
      <4>1. Append(chan[q], m) \in Seq(Message) /\ chan[q] \o <<m>> = Append(chan[q], m)
        BY <3>3, <3>5, QueueElements, AppendIsConcat
      <4>2. QED
        BY <4>1, ConcatEmptySeq
    <3>7. chan'[p] = chan[p] /\ chan'[q] = Append(chan[q], m)
      BY <1>1, <3>4, <3>5, <3>6 DEF TypeOK
    <3>8. QED
      BY <1>2, <3>1, <3>3, <3>7 DEF SendStep
  <2>4. CASE BadLSRequest(p, j)
    <3>1. chan' = chan /\ \E n, r : Schedule(p, EventCalls(n, r))
      BY <2>4 DEF BadLSRequest
    <3>2. QED
      BY <1>1, <1>3, <2>2, <3>1, LoneSchedules
  <2>5. CASE DropEarlyLSA(p, j) \/ AnswerOldLSA(p, j) \/ SameLSA(p, j)
    <3> DEFINE m == [type |-> "Ack", headers |-> Pick(lsdb[p], {j})]
    <3>1. due' = due /\ (chan' = chan \/ Send(p, m))
      BY <2>5 DEF DropEarlyLSA, AnswerOldLSA, SameLSA
    <3>2. m \in Message /\ m.type = "Ack"
      BY <1>1, HeadersTypes, MessageTypes
    <3> HIDE DEF m
    <3>3. QED
      BY <1>2, <1>3, <1>4, <3>1, <3>2
  <2>6. QED
    BY <2>1, <2>3, <2>4, <2>5
<1>10. CASE SendHelloPacket(p) \/ LSRTimer(p)
  <2>1. /\ due' = due
        /\ \/ chan' = chan
           \/ \E b \in BOOLEAN : Send(p, [type |-> "Hello", seen |-> b])
           \/ Send(p, [type |-> "LSR", ids |-> Listed(nbr[p].req)])
    <3>1. (nbr[p].state \in Active) \in BOOLEAN
      OBVIOUS
    <3>2. QED
      BY <1>10, <3>1, Zenon DEF SendHelloPacket, LSRTimer
  <2>2. \A b \in BOOLEAN : LET m == [type |-> "Hello", seen |-> b]
                           IN  m \in Message /\ m.type = "Hello"
    BY MessageTypes
  <2>3. LET m == [type |-> "LSR", ids |-> Listed(nbr[p].req)]
        IN  m \in Message /\ m.type = "LSR"
    BY <1>1, HeadersTypes, MessageTypes DEF Neighbor
  <2>4. CASE \E b \in BOOLEAN : Send(p, [type |-> "Hello", seen |-> b])
    <3>1. PICK b \in BOOLEAN : Send(p, [type |-> "Hello", seen |-> b])
      BY <2>4
    <3> DEFINE m == [type |-> "Hello", seen |-> b]
    <3>2. m \in Message /\ m.type = "Hello" /\ Send(p, m)
      BY <2>2, <3>1
    <3> HIDE DEF m
    <3>3. QED
      BY <1>2, <1>4, <2>1, <3>2
  <2>5. CASE Send(p, [type |-> "LSR", ids |-> Listed(nbr[p].req)])
    <3> DEFINE m == [type |-> "LSR", ids |-> Listed(nbr[p].req)]
    <3>1. m \in Message /\ m.type = "LSR" /\ Send(p, m)
      BY <2>3, <2>5
    <3> HIDE DEF m
    <3>2. QED
      BY <1>2, <1>4, <2>1, <3>1
  <2>6. QED
    BY <1>2, <1>3, <2>1, <2>4, <2>5
<1>11. CASE EntryPointTimer(p)
  BY <1>2, <1>6, <1>11 DEF EntryPointTimer
<1>12. CASE ClearLastPacket(p) \/ InactivityTimer(p) \/ OriginateElsewhere(p)
  BY <1>2, <1>3, <1>12 DEF ClearLastPacket, InactivityTimer, OriginateElsewhere
<1>13. CASE Lose(p)
  BY <1>2, <1>5, <1>13 DEF Lose
<1>14. CASE ForeignUpdate(p)
  <2>1. PICK k \in Foreign, v \in 1..MaxForeign :
          /\ v > lsdb[p][k] /\ due' = due
          /\ chan' = chan \/ Send(p, FloodPacket(k, v))
    BY <1>14 DEF ForeignUpdate, MoreRecent
  <2>2. k \in Lsas /\ v \in Nat
    BY <2>1 DEF Lsas
  <2>3. /\ FloodPacket(k, v) \in Message /\ FloodPacket(k, v).type = "LSU"
        /\ UpToDate(p, FloodPacket(k, v).headers)
    BY <1>1, <2>1, <2>2, FloodsNewer
  <2>4. QED
    BY <1>2, <1>3, <1>4, <2>1, <2>3
<1>15. QED
  BY <1>7, <1>8, <1>9, <1>10, <1>11, <1>12, <1>13, <1>14 DEF Acts

-----------------------------------------------------------------------------
(* No request is answered by an older instance                              *)

\* A channel whose first packet is taken off, and the updates that were behind it.
LEMMA FreshTail ==
  ASSUME NEW c \in Seq(Message), c # <<>>, FreshChannel(c)
  PROVE  /\ FreshChannel(Tail(c))
         /\ Head(c).type = "DD" => \A m \in Elements(Tail(c)) :
              m.type = "LSU" => NotOlder(Head(c).headers, m.headers)
<1>1. /\ Tail(c) \in Seq(Message)
      /\ Len(c) \in Nat \ {0} /\ Len(Tail(c)) = Len(c) - 1
      /\ \A i \in 1..Len(Tail(c)) : Tail(c)[i] = c[i + 1]
      /\ DOMAIN c = 1..Len(c) /\ Head(c) = c[1]
  BY HeadTailProperties, EmptySeq, LenProperties
<1>2. \A i \in DOMAIN Tail(c) :
        i \in Nat \ {0} /\ i + 1 \in DOMAIN c /\ Tail(c)[i] = c[i + 1]
  BY <1>1, LenProperties
<1>3. ASSUME NEW i \in DOMAIN Tail(c), NEW j \in DOMAIN Tail(c), i < j,
             Tail(c)[i].type = "DD", Tail(c)[j].type = "LSU"
      PROVE  NotOlder(Tail(c)[i].headers, Tail(c)[j].headers)
  <2>1. i + 1 < j + 1
    BY <1>2, <1>3
  <2>2. QED
    BY <1>2, <1>3, <2>1 DEF FreshChannel
<1>4. ASSUME Head(c).type = "DD", NEW m \in Elements(Tail(c)), m.type = "LSU"
      PROVE  NotOlder(Head(c).headers, m.headers)
  <2>1. PICK i \in DOMAIN Tail(c) : m = Tail(c)[i]
    BY <1>4 DEF Elements
  <2>2. 1 \in DOMAIN c /\ 1 < i + 1 /\ i + 1 \in DOMAIN c /\ m = c[i + 1]
    BY <1>1, <1>2, <2>1
  <2>3. QED
    BY <1>1, <1>4, <2>2 DEF FreshChannel
<1>5. QED
  BY <1>3, <1>4 DEF FreshChannel

\* An update may join a channel if it is not older than the descriptions there.
LEMMA FreshAppend ==
  ASSUME NEW c \in Seq(Message), NEW m \in Message, FreshChannel(c),
         m.type = "LSU" =>
           \A e \in Elements(c) : e.type = "DD" => NotOlder(e.headers, m.headers)
  PROVE  FreshChannel(Append(c, m))
<1>1. /\ Len(c) \in Nat /\ Len(Append(c, m)) = Len(c) + 1
      /\ DOMAIN c = 1..Len(c)
      /\ \A i \in 1..Len(c) : Append(c, m)[i] = c[i]
      /\ Append(c, m)[Len(c) + 1] = m
  BY AppendProperties, LenProperties
<1>2. DOMAIN Append(c, m) = 1..Len(c) + 1
  BY <1>1, AppendProperties, LenProperties
<1> SUFFICES ASSUME NEW i \in DOMAIN Append(c, m), NEW j \in DOMAIN Append(c, m), i < j,
                    Append(c, m)[i].type = "DD", Append(c, m)[j].type = "LSU"
             PROVE  NotOlder(Append(c, m)[i].headers, Append(c, m)[j].headers)
  BY DEF FreshChannel
<1>3. i \in DOMAIN c /\ Append(c, m)[i] = c[i]
  BY <1>1, <1>2
<1>4. CASE j \in DOMAIN c
  BY <1>1, <1>3, <1>4 DEF FreshChannel
<1>5. CASE j = Len(c) + 1
  BY <1>1, <1>3, <1>5 DEF Elements
<1>6. QED
  BY <1>1, <1>2, <1>4, <1>5

\* No header of p is ahead of what the other router has.
LEMMA BackedHeaders ==
  ASSUME CoreInv, NEW p \in Router
  PROVE  /\ nbr[p].req \in Headers /\ lsdb[Peer(p)] \in Headers
         /\ AtMost(nbr[p].req, lsdb[Peer(p)])
         /\ \A m \in Elements(chan[p]) : m \in Message
         /\ \A m \in Elements(chan[p]) :
              m.type \in {"DD", "LSU"} => m.headers \in Headers /\ AtMost(m.headers, lsdb[Peer(p)])
         /\ \A c \in Elements(due[p]) : c.call = "SendLSU" => c.headers \in Headers
<1>1. /\ TypeOK /\ Peer(p) \in Router /\ Peer(Peer(p)) = p
      /\ BackedBy(p) /\ BackedBy(Peer(p))
  BY PeerProperties, BackedForms DEF CoreInv
<1>2. chan[p] \in Seq(Message) /\ due[p] \in Seq(DueCall)
  BY <1>1 DEF TypeOK
<1>3. /\ \A m \in Elements(chan[p]) : m \in Message
      /\ \A c \in Elements(due[p]) : c \in DueCall
  BY <1>2, QueueElements
<1>4. /\ \A m \in Elements(chan[p]) : m.type \in {"DD", "LSU"} => m.headers \in Headers
      /\ \A c \in Elements(due[p]) : c.call = "SendLSU" => c.headers \in Headers
  BY <1>3, MessageTypes, DueCallTypes
<1>5. nbr[p].req \in Headers /\ lsdb[Peer(p)] \in Headers
  BY <1>1 DEF TypeOK, Neighbor
<1>6. QED
  BY <1>1, <1>3, <1>4, <1>5 DEF BackedBy

\* A step of p keeps its requests answerable by what is on its way.
LEMMA OwnFresh ==
  ASSUME CoreInv, CoreInv', NEW p \in Router, OnlyActor(p), Effects(p), SendStep(p),
         RequestStep(p) \/ AcceptStep(p), Fresh(p)
  PROVE  Fresh(p)'
<1> DEFINE q == Peer(p)
<1>1. q \in Router /\ Peer(q) = p /\ due'[q] = due[q]
  BY PeerProperties DEF OnlyActor
<1>2. /\ TypeOK /\ lsdb[p] \in Headers /\ lsdb'[p] \in Headers /\ nbr[p].req \in Headers
      /\ nbr'[p].req \in Headers /\ hand[p] \in Headers /\ hand'[p] \in Headers
      /\ chan[p] \in Seq(Message)
  BY DEF CoreInv, TypeOK, Neighbor
<1>3. Elements(chan'[p]) \subseteq Elements(chan[p]) /\ Descriptions(p)' \subseteq Descriptions(p)
  BY DEF OnlyActor, Descriptions
<1>4. FreshChannel(chan'[p])
  <2>1. CASE chan'[p] = chan[p]
    BY <2>1 DEF Fresh
  <2>2. CASE chan[p] # <<>> /\ chan'[p] = Tail(chan[p])
    BY <1>2, <2>2, FreshTail DEF Fresh
  <2>3. QED
    BY <2>1, <2>2 DEF SendStep
<1>5. CASE RequestStep(p)
  <2>1. \A k \in Lsas : nbr'[p].req[k] # 0 =>
          /\ nbr'[p].req[k] = nbr[p].req[k]
          /\ lsdb'[p][k] = lsdb[p][k] \/ lsdb'[p][k] < nbr[p].req[k]
    BY <1>5 DEF RequestStep
  <2>2. \A k \in Lsas : nbr'[p].req[k] # 0 => lsdb'[p][k] < nbr'[p].req[k]
    BY <2>1 DEF Fresh
  <2>3. ASSUME NEW h \in Headers, NotOlder(nbr[p].req, h) PROVE NotOlder(nbr'[p].req, h)
    <3>1. ASSUME NEW k \in Lsas, h[k] # 0 PROVE nbr'[p].req[k] <= h[k]
      <4>1. nbr[p].req[k] <= h[k] /\ h[k] \in Nat /\ nbr'[p].req[k] \in Nat
        BY <1>2, <2>3, <3>1 DEF NotOlder, Headers
      <4>2. nbr'[p].req[k] = 0 \/ nbr'[p].req[k] = nbr[p].req[k]
        BY <2>1
      <4>3. QED
        BY <4>1, <4>2
    <3>2. QED
      BY <3>1 DEF NotOlder
  <2>4. NotOlder(nbr'[p].req, hand'[p])
    <3>1. ASSUME NEW k \in Lsas, hand'[p][k] # 0 PROVE nbr[p].req[k] <= hand'[p][k]
      <4>1. \/ hand'[p][k] = hand[p][k]
            \/ \E m \in Elements(chan[p]) : m.type = "LSU" /\ hand'[p][k] = m.headers[k]
        BY <3>1 DEF Effects, HandEffect
      <4>2. QED
        BY <3>1, <4>1 DEF Fresh, NotOlder
    <3>2. QED
      BY <1>2, <2>3, <3>1 DEF NotOlder
  <2>5. \A m \in Elements(chan'[p]) : m.type = "LSU" => NotOlder(nbr'[p].req, m.headers)
    BY <1>3, <2>3, BackedHeaders DEF Fresh
  <2>6. \A c \in Elements(due[q]) : c.call = "SendLSU" =>
          /\ NotOlder(nbr'[p].req, c.headers)
          /\ \A m \in Descriptions(p)' : NotOlder(m.headers, c.headers)
    <3>1. \A c \in Elements(due[q]) : c.call = "SendLSU" => c.headers \in Headers
      BY <1>1, BackedHeaders
    <3>2. QED
      BY <1>3, <2>3, <3>1 DEF Fresh
  <2>7. QED
    BY <1>1, <1>4, <2>2, <2>4, <2>5, <2>6 DEF Fresh
<1>6. CASE AcceptStep(p)
  <2> DEFINE m == Head(chan[p])
             h == m.headers
  <2>1. Takes(p, m) /\ Accepts(p, m)
    BY <1>6 DEF AcceptStep
  <2>2. /\ m \in Descriptions(p) /\ m.type = "DD" /\ chan[p] # <<>> /\ chan'[p] = Tail(chan[p])
        /\ h \in Headers
    <3>1. m \in Descriptions(p) /\ m.type = "DD" /\ chan[p] # <<>> /\ chan'[p] = Tail(chan[p])
      BY <1>2, <2>1, DescriptionSteps DEF Takes
    <3>2. QED
      BY <3>1, BackedHeaders DEF Descriptions
  <2> HIDE DEF m
  <2>3. \A k \in Lsas : nbr'[p].req[k] # 0 =>
          \/ nbr'[p].req[k] = nbr[p].req[k]
          \/ nbr'[p].req[k] = h[k] /\ h[k] > lsdb[p][k]
    BY <2>1 DEF Accepts, Wanted, MoreRecent
  <2>4. \A k \in Lsas : nbr'[p].req[k] # 0 => lsdb'[p][k] < nbr'[p].req[k]
    <3>1. \A k \in OwnLsas(p) : nbr'[p].req[k] = 0
      BY DEF CoreInv, OwnNeverRequested
    <3>2. \A k \in Lsas \ OwnLsas(p) : lsdb'[p][k] = lsdb[p][k]
      BY <2>1 DEF Accepts
    <3>3. QED
      BY <2>3, <3>1, <3>2 DEF Fresh
  <2>5. ASSUME NEW g \in Headers, NotOlder(nbr[p].req, g), NotOlder(h, g)
        PROVE  NotOlder(nbr'[p].req, g)
    <3>1. ASSUME NEW k \in Lsas, g[k] # 0 PROVE nbr'[p].req[k] <= g[k]
      <4>1. nbr[p].req[k] <= g[k] /\ h[k] <= g[k] /\ g[k] \in Nat /\ nbr'[p].req[k] \in Nat
        BY <1>2, <2>5, <3>1 DEF NotOlder, Headers
      <4>2. \/ nbr'[p].req[k] = 0
            \/ nbr'[p].req[k] = nbr[p].req[k]
            \/ nbr'[p].req[k] = h[k]
        BY <2>3
      <4>3. QED
        BY <4>1, <4>2
    <3>2. QED
      BY <3>1 DEF NotOlder
  <2>6. NotOlder(nbr'[p].req, hand'[p])
    <3>1. hand'[p] = NoHeaders
      BY <2>1 DEF Accepts
    <3>2. QED
      BY <3>1 DEF NotOlder, NoHeaders
  <2>7. \A a \in Elements(chan'[p]) : a.type = "LSU" => NotOlder(nbr'[p].req, a.headers)
    <3>1. \A a \in Elements(chan'[p]) : a.type = "LSU" => NotOlder(h, a.headers)
      BY <1>2, <2>2, FreshTail DEF m, Fresh
    <3>2. QED
      BY <1>3, <2>5, <3>1, BackedHeaders DEF Fresh
  <2>8. \A c \in Elements(due[q]) : c.call = "SendLSU" =>
          /\ NotOlder(nbr'[p].req, c.headers)
          /\ \A a \in Descriptions(p)' : NotOlder(a.headers, c.headers)
    <3>1. \A c \in Elements(due[q]) : c.call = "SendLSU" => c.headers \in Headers
      BY <1>1, BackedHeaders
    <3>2. QED
      BY <1>3, <2>2, <2>5, <3>1 DEF Fresh
  <2>9. QED
    BY <1>1, <1>4, <2>4, <2>6, <2>7, <2>8 DEF Fresh
<1>7. QED
  BY <1>5, <1>6

\* What p sends is not older than the other router's requests.
LEMMA PeerFresh ==
  ASSUME CoreInv, NEW p \in Router, OnlyActor(p), Effects(p), SendStep(p), Fresh(Peer(p))
  PROVE  Fresh(Peer(p))'
<1> DEFINE q == Peer(p)
<1>1. /\ q \in Router /\ Peer(q) = p
      /\ nbr'[q] = nbr[q] /\ lsdb'[q] = lsdb[q] /\ hand'[q] = hand[q]
  BY PeerProperties DEF OnlyActor
<1>2. /\ nbr[q].req \in Headers /\ lsdb[p] \in Headers /\ AtMost(nbr[q].req, lsdb[p])
      /\ \A m \in Descriptions(q) : m.headers \in Headers /\ AtMost(m.headers, lsdb[p])
      /\ \A c \in Elements(due[p]) : c.call = "SendLSU" => c.headers \in Headers
  <2>1. /\ nbr[q].req \in Headers /\ lsdb[p] \in Headers /\ AtMost(nbr[q].req, lsdb[p])
        /\ \A m \in Elements(chan[q]) :
             m.type \in {"DD", "LSU"} => m.headers \in Headers /\ AtMost(m.headers, lsdb[p])
    BY <1>1, BackedHeaders
  <2>2. \A c \in Elements(due[p]) : c.call = "SendLSU" => c.headers \in Headers
    BY BackedHeaders
  <2>3. QED
    BY <2>1, <2>2 DEF Descriptions
<1>3. chan[q] \in Seq(Message)
  BY <1>1 DEF CoreInv, TypeOK
<1>4. \A c \in Elements(due[p]) : c.call = "SendLSU" =>
        NotOlder(nbr[q].req, c.headers) /\ \A m \in Descriptions(q) : NotOlder(m.headers, c.headers)
  BY <1>1 DEF Fresh
<1>5. ASSUME NEW h \in Headers, UpToDate(p, h), NEW g \in Headers, AtMost(g, lsdb[p]),
             \A c \in Elements(due[p]) : c.call = "SendLSU" => NotOlder(g, c.headers)
      PROVE  NotOlder(g, h)
  <2>1. SUFFICES ASSUME NEW k \in Lsas, h[k] # 0 PROVE g[k] <= h[k]
    BY DEF NotOlder
  <2>2. g[k] \in Nat /\ h[k] \in Nat /\ lsdb[p][k] \in Nat /\ g[k] <= lsdb[p][k]
    BY <1>2, <1>5 DEF Headers, AtMost
  <2>3. \/ lsdb[p][k] <= h[k]
        \/ \E c \in Elements(due[p]) : c.call = "SendLSU" /\ c.headers[k] \in 1..h[k]
    BY <1>5, <2>1 DEF UpToDate, Listed
  <2>4. CASE lsdb[p][k] <= h[k]
    BY <2>2, <2>4
  <2>5. ASSUME NEW c \in Elements(due[p]), c.call = "SendLSU", c.headers[k] \in 1..h[k]
        PROVE  g[k] <= h[k]
    <3>1. g[k] <= c.headers[k]
      BY <1>5, <2>5 DEF NotOlder
    <3>2. QED
      BY <2>2, <2>5, <3>1
  <2>6. QED
    BY <2>3, <2>4, <2>5
<1>6. ASSUME NEW c \in Elements(due'[p]), c.call = "SendLSU", NEW g \in Headers, AtMost(g, lsdb[p]),
             c \in Elements(due[p]) => NotOlder(g, c.headers)
      PROVE  NotOlder(g, c.headers)
  <2>1. c \in Elements(due[p]) \/ \A k \in Lsas : c.headers[k] \in {0, lsdb[p][k]}
    BY <1>6 DEF Effects, CallEffect
  <2>2. QED
    BY <1>2, <1>6, <2>1 DEF NotOlder, AtMost
<1>7. \A c \in Elements(due'[p]) : c.call = "SendLSU" => NotOlder(nbr[q].req, c.headers)
  BY <1>2, <1>4, <1>6
<1>8. \A c \in Elements(due'[p]) : c.call = "SendLSU" =>
        \A m \in Descriptions(q) : NotOlder(m.headers, c.headers)
  BY <1>2, <1>4, <1>6
<1>9. CASE chan'[q] = chan[q]
  <2>1. Descriptions(q)' = Descriptions(q)
    BY <1>9 DEF Descriptions
  <2>2. QED
    BY <1>1, <1>7, <1>8, <1>9, <2>1 DEF Fresh
<1>10. ASSUME NEW m \in Message, chan'[q] = Append(chan[q], m),
              m.type = "LSU" => UpToDate(p, m.headers), m.type = "DD" => NoUpdates(due'[p])
       PROVE  Fresh(q)'
  <2>1. Elements(chan'[q]) = Elements(chan[q]) \cup {m}
    BY <1>3, <1>10, QueueElements
  <2>2. m.type = "LSU" => /\ NotOlder(nbr[q].req, m.headers)
                          /\ \A e \in Descriptions(q) : NotOlder(e.headers, m.headers)
    <3>1. m.type = "LSU" => m.headers \in Headers
      BY MessageTypes
    <3>2. m.type = "LSU" => NotOlder(nbr[q].req, m.headers)
      BY <1>2, <1>4, <1>5, <1>10, <3>1
    <3>3. m.type = "LSU" => \A e \in Descriptions(q) : NotOlder(e.headers, m.headers)
      BY <1>2, <1>4, <1>5, <1>10, <3>1
    <3>4. QED
      BY <3>2, <3>3
  <2>3. FreshChannel(chan'[q])
    BY <1>3, <1>10, <2>2, FreshAppend DEF Fresh, Descriptions
  <2>4. \A a \in Elements(chan'[q]) : a.type = "LSU" => NotOlder(nbr[q].req, a.headers)
    BY <2>1, <2>2 DEF Fresh
  <2>5. \A c \in Elements(due'[p]) : c.call = "SendLSU" =>
          \A a \in Descriptions(q)' : NotOlder(a.headers, c.headers)
    BY <1>8, <1>10, <2>1 DEF Descriptions, NoUpdates
  <2>6. QED
    BY <1>1, <1>7, <2>3, <2>4, <2>5 DEF Fresh
<1>11. QED
  BY <1>9, <1>10 DEF SendStep

\* Requests are open until they are answered or FULL is reached.
LEMMA OwnOpen ==
  ASSUME CoreInv, NEW p \in Router, AtMost(lsdb[p], lsdb'[p]), RequestsOpen(p),
         RequestStep(p) \/ (AcceptStep(p) /\ nbr[p].state = "EXCHANGE")
  PROVE  RequestsOpen(p)'
<1>1. lsdb[p] \in Headers
  BY DEF CoreInv, TypeOK
<1>2. OwnLsas(p) \subseteq Listed(lsdb'[p])
  BY <1>1, HeadersTypes DEF RequestsOpen, Listed, AtMost, Headers
<1>3. nbr'[p].state \notin {"EXCHANGE", "LOADING"} => nbr'[p].req = NoHeaders
  <2>1. CASE RequestStep(p)
    BY <2>1 DEF RequestStep, RequestsOpen, Requesting
  <2>2. CASE AcceptStep(p) /\ nbr[p].state = "EXCHANGE"
    BY <2>2 DEF AcceptStep, Accepts
  <2>3. QED
    BY <2>1, <2>2
<1>4. QED
  BY <1>2, <1>3 DEF RequestsOpen

-----------------------------------------------------------------------------
(* Turns stay turns                                                         *)

\* Without an expired timer no router has cause to begin an exchange again: its requests
\* are answerable and up to date, and the description that arrives is the next one.
LEMMA NoSurprise ==
  ASSUME CoreInv, NEW p \in Router, Fresh(p),
         nbr[p].state = "EXCHANGE" => \A m \in Descriptions(p) :
           ~m.init /\ IF nbr[p].master THEN m.seq = nbr[p].seq ELSE m.seq > nbr[p].seq
  PROVE  ~Surprised(p)
<1>1. TypeOK /\ nbr[p] \in Neighbor /\ nbr[p].seq \in Nat
  BY DEF CoreInv, TypeOK, Neighbor
<1>2. ASSUME Arrives(p, "DD"), Mismatch(NoteDD(p, Head(chan[p])), Head(chan[p]))
      PROVE  FALSE
  <2> DEFINE dd == Head(chan[p])
             n == NoteDD(p, dd)
  <2>1. dd \in Descriptions(p) /\ dd.seq \in Nat
    <3>1. chan[p] # <<>> /\ dd.type = "DD"
      BY <1>2 DEF Arrives
    <3>2. dd \in Descriptions(p)
      BY <1>1, <3>1, HeadPacket DEF Descriptions
    <3>3. QED
      BY <1>1, <3>2, DescriptionTypes
  <2>2. /\ n.state = nbr[p].state /\ n.seq = nbr[p].seq /\ n.master = nbr[p].master
        /\ n.last.master = dd.master
    BY <1>1 DEF NoteDD, Known, Neighbor
  <2> HIDE DEF dd, n
  <2>3. Mismatch(n, dd)
    BY <1>2 DEF dd, n
  <2>4. QED
    BY <1>1, <2>1, <2>2, <2>3 DEF Mismatch
<1>3. ASSUME Arrives(p, "LSR"), ~(Head(chan[p]).ids \subseteq Listed(lsdb[p]))
      PROVE  FALSE
  <2>1. Head(chan[p]) \in Elements(chan[p]) /\ Head(chan[p]).type = "LSR"
    BY <1>1, <1>3, HeadPacket DEF Arrives
  <2>2. QED
    BY <1>3, <2>1, RequestsForms DEF CoreInv
<1>4. ASSUME NEW k \in Listed(hand[p]), hand[p][k] < lsdb[p][k], nbr[p].req[k] # 0
      PROVE  FALSE
  <2>1. k \in Lsas /\ hand[p][k] # 0
    BY <1>4 DEF Listed
  <2>2. hand[p][k] \in Nat /\ lsdb[p][k] \in Nat /\ nbr[p].req[k] \in Nat
    BY <1>1, <2>1 DEF TypeOK, Neighbor, Headers
  <2>3. lsdb[p][k] < nbr[p].req[k] /\ nbr[p].req[k] <= hand[p][k]
    BY <1>4, <2>1 DEF Fresh, NotOlder
  <2>4. QED
    BY <1>4, <2>2, <2>3
<1>5. QED
  BY <1>2, <1>3, <1>4 DEF Surprised

\* The descriptions on a channel, by their places.
LEMMA Places ==
  ASSUME NEW p \in Router
  PROVE  /\ Descriptions(p) = {chan[p][i] : i \in DDAt(chan[p])}
         /\ Descriptions(p) = {} <=> DDAt(chan[p]) = {}
         /\ Answers(p) = {} => \A i \in DDAt(chan[p]) : chan[p][i].init
<1>1. Descriptions(p) = {chan[p][i] : i \in DDAt(chan[p])}
  BY DEF Descriptions, DDAt, Elements
<1>2. QED
  BY <1>1 DEF Answers

\* A description joins those on the channel to p.
LEMMA DescriptionSent ==
  ASSUME TypeOK, NEW p \in Router, NEW m \in Message, m.type = "DD",
         chan'[p] = Append(chan[p], m)
  PROVE  /\ Descriptions(p)' = Descriptions(p) \cup {m}
         /\ Descriptions(p) = {} => OneDescription(chan'[p]) /\ AnswerLast(chan'[p])
         /\ Answers(p) = {} => AnswerLast(chan'[p])
<1>1. chan[p] \in Seq(Message)
  BY DEF TypeOK
<1>2. Elements(chan'[p]) = Elements(chan[p]) \cup {m}
  BY <1>1, QueueElements
<1>3. Descriptions(p)' = Descriptions(p) \cup {m}
  BY <1>2 DEF Descriptions
<1>4. /\ DDAt(chan[p]) = {} => OneDescription(chan'[p]) /\ AnswerLast(chan'[p])
      /\ (\A i \in DDAt(chan[p]) : chan[p][i].init) => AnswerLast(chan'[p])
  BY <1>1, PlacesAppend
<1>5. /\ Descriptions(p) = {} => DDAt(chan[p]) = {}
      /\ Answers(p) = {} => \A i \in DDAt(chan[p]) : chan[p][i].init
  BY Places
<1>6. QED
  BY <1>3, <1>4, <1>5

\* The only description is taken, or the last one.
LEMMA TakenLast ==
  ASSUME TypeOK, NEW p \in Router, Takes(p, Head(chan[p])),
         OneDescription(chan[p]) \/ (AnswerLast(chan[p]) /\ ~Head(chan[p]).init)
  PROVE  /\ Head(chan[p]) \in Descriptions(p)
         /\ Descriptions(p)' = {}
<1>1. chan[p] \in Seq(Message) /\ chan[p] # <<>> /\ Head(chan[p]).type = "DD"
      /\ chan'[p] = Tail(chan[p])
  BY DEF TypeOK, Takes
<1>2. DDAt(chan'[p]) = {}
  BY <1>1, PlacesTail
<1>3. Descriptions(p)' = {}
  BY <1>2 DEF Descriptions, DDAt, Elements
<1>4. QED
  BY <1>3, DescriptionSteps

\* A step that neither sends nor answers a description.
LEMMA TurnsKept ==
  ASSUME NEW p \in Router, ExchangeTurns(p), NoNewDDs(p), SameDue(p), SameDue(Peer(p)),
         nbr'[p].seq = nbr[p].seq, nbr'[Peer(p)].seq = nbr[Peer(p)].seq,
         nbr'[p].summary = nbr[p].summary,
         \A r \in {p, Peer(p)} :
           \/ nbr'[r].state = nbr[r].state
           \/ nbr[r].state = "LOADING" /\ nbr'[r].state = "FULL",
         NextDue(Peer(p)) => nbr'[Peer(p)].last = nbr[Peer(p)].last
  PROVE  ExchangeTurns(p)'
<1> DEFINE q == Peer(p)
<1>1. \A r \in {p, q} :
        /\ Descriptions(r)' \subseteq Descriptions(r) /\ Answers(r)' \subseteq Answers(r)
        /\ Exchanging(r)' <=> Exchanging(r)
        /\ Finished(r)' <=> Finished(r)
        /\ nbr'[r].state = "DOWN" <=> nbr[r].state = "DOWN"
  BY DEF NoNewDDs, NoNewDD, Answers, Exchanging, Finished, Synchronizing
<1>2. /\ OneDescription(chan'[q]) /\ AnswerLast(chan'[p])
  BY DEF NoNewDDs, NoNewDD, NoMore, ExchangeTurns
<1>3. Opening(p)'
  <2>1. \A m \in Answers(p)' : ~m.init
    BY DEF Answers
  <2>2. Exchanging(p) => Descriptions(p)' = Answers(p)'
    BY <1>1 DEF ExchangeTurns, Opening, Answers
  <2>3. QED
    BY <1>1, <2>2 DEF ExchangeTurns, Opening, SameDue
<1>4. Turns(p)'
  BY <1>1 DEF ExchangeTurns, Turns, SameDue
<1>5. Ending(p)'
  BY <1>1 DEF ExchangeTurns, Ending, SameDue
<1>6. QED
  BY <1>2, <1>3, <1>4, <1>5 DEF ExchangeTurns

\* A step of the master keeps the turns.
LEMMA MasterTurns ==
  ASSUME TypeOK, TypeOK', NEW p \in Router, p > Peer(p), ControlInv(p), ControlInv(Peer(p)),
         ExchangeTurns(p), ExchangeStep(p), OnlyActor(p), ~Surprised(p), ~KillStep(p)
  PROVE  ExchangeTurns(p)'
<1> DEFINE q == Peer(p)
<1>1. /\ q \in Router /\ q # p /\ Peer(q) = p /\ nbr'[q] = nbr[q] /\ due'[q] = due[q]
      /\ SameDue(q) /\ (Exchanging(q)' <=> Exchanging(q)) /\ (Finished(q)' <=> Finished(q))
      /\ (NextDue(q)' <=> NextDue(q))
  BY PeerProperties DEF OnlyActor, SameDue, InitialDue, NextDue, Exchanging, Finished
<1>2. /\ nbr[p].seq \in Nat /\ nbr[q].seq \in Nat
      /\ nbr[p].summary \in Headers /\ nbr'[p].summary \in Headers
  BY <1>1 DEF TypeOK, Neighbor
<1>3. /\ InitialDue(p) => nbr[p].state = "EXSTART"
      /\ NextDue(p) => Exchanging(p)
      /\ NextDue(q) => Exchanging(q)
      /\ Exchanging(p) => nbr[p].master
      /\ Finished(p) => Exchanging(p)
      /\ Finished(q) => Exchanging(q)
  BY <1>1 DEF ControlInv, Exchanging, Finished, Synchronizing
<1>4. \A r \in {p, q} : NoNewDD(r) =>
        Descriptions(r)' \subseteq Descriptions(r) /\ Answers(r)' \subseteq Answers(r)
  BY DEF NoNewDD, Answers
<1>5. /\ NoNewDD(q) => OneDescription(chan'[q])
      /\ NoNewDD(p) => AnswerLast(chan'[p])
  BY DEF NoNewDD, NoMore, ExchangeTurns
<1>6. CASE CalmStep(p)
  <2>1. /\ NoNewDDs(p) /\ SameDue(p) /\ nbr'[p].seq = nbr[p].seq
        /\ nbr'[p].summary = nbr[p].summary
        /\ \/ nbr'[p].state = nbr[p].state
           \/ nbr[p].state = "LOADING" /\ nbr'[p].state = "FULL"
    BY <1>6 DEF CalmStep
  <2>2. QED
    BY <1>1, <2>1, TurnsKept
<1>7. CASE RestartStep(p)
  <2>1. /\ nbr[p].state = "DOWN" /\ nbr'[p].state = "EXSTART" /\ ~NextDue(p)' /\ NoNewDDs(p)
        /\ ~Exchanging(p)' /\ ~Finished(p)'
    BY <1>7 DEF RestartStep, Exchanging, Finished, Synchronizing
  <2>2. Descriptions(q) = {} /\ ~Exchanging(q) /\ Answers(p) = {}
    BY <2>1 DEF ExchangeTurns, Opening
  <2>3. /\ Descriptions(q)' = {} /\ Answers(q)' = {} /\ Answers(p)' = {}
        /\ OneDescription(chan'[q]) /\ AnswerLast(chan'[p])
    BY <1>4, <1>5, <2>1, <2>2 DEF NoNewDDs, Answers
  <2>4. Opening(p)'
    BY <1>1, <1>3, <2>1, <2>2, <2>3 DEF Opening
  <2>5. Turns(p)'
    BY <1>1, <1>3, <2>1, <2>2, <2>3 DEF Turns
  <2>6. Ending(p)'
    BY <1>1, <1>3, <2>1, <2>2, <2>3 DEF Ending
  <2>7. QED
    BY <2>3, <2>4, <2>5, <2>6 DEF ExchangeTurns
<1>8. CASE SendInitialStep(p)
  <2>1. PICK m \in Message : /\ m.type = "DD" /\ m.init /\ m.seq = nbr[p].seq
                             /\ chan'[q] = Append(chan[q], m)
    BY <1>8 DEF SendInitialStep
  <2>2. /\ InitialDue(p) /\ ~InitialDue(p)' /\ ~NextDue(p)' /\ NoNewDD(p)
        /\ nbr'[p].state = "EXSTART" /\ nbr'[p].seq = nbr[p].seq
        /\ ~Exchanging(p)' /\ ~Finished(p)'
    BY <1>3, <1>8 DEF SendInitialStep, NoneDue, SameControl, SameRole, Exchanging, Finished,
                      Synchronizing
  <2>3. Descriptions(q) = {} /\ ~Exchanging(q) /\ Answers(p) = {}
    BY <2>2 DEF ExchangeTurns, Opening
  <2>4. /\ Descriptions(q)' = {m} /\ Answers(q)' = {}
        /\ OneDescription(chan'[q])
    <3>1. Descriptions(q)' = {m} /\ OneDescription(chan'[q])
      BY <1>1, <2>1, <2>3, DescriptionSent
    <3>2. QED
      BY <2>1, <3>1 DEF Answers
  <2>5. Answers(p)' = {} /\ AnswerLast(chan'[p])
    BY <1>4, <1>5, <2>2, <2>3
  <2>6. Opening(p)'
    BY <1>1, <1>3, <2>1, <2>2, <2>3, <2>4, <2>5 DEF Opening
  <2>7. Turns(p)'
    BY <1>1, <1>3, <2>2, <2>3, <2>4, <2>5 DEF Turns
  <2>8. Ending(p)'
    BY <1>1, <1>3, <2>2, <2>3, <2>4, <2>5 DEF Ending
  <2>9. QED
    BY <2>4, <2>5, <2>6, <2>7, <2>8 DEF ExchangeTurns
<1>9. CASE SendNextStep(p)
  <2>1. PICK m \in Message : /\ m.type = "DD" /\ ~m.init /\ m.seq = nbr[p].seq
                             /\ Says(p, m) /\ chan'[q] = Append(chan[q], m)
    BY <1>9 DEF SendNextStep
  <2>2. /\ NextDue(p) /\ ~InitialDue(p)' /\ ~NextDue(p)' /\ NoNewDD(p)
        /\ nbr'[p].state = nbr[p].state /\ nbr'[p].seq = nbr[p].seq
        /\ Exchanging(p) /\ Exchanging(p)' /\ (Finished(p)' <=> Finished(p))
    BY <1>3, <1>9 DEF SendNextStep, NoneDue, SameControl, SameRole, Exchanging, Finished
  <2>3. /\ Exchanging(q) /\ Descriptions(q) = {} /\ Answers(p) = {} /\ ~NextDue(q)
        /\ nbr[q].seq = nbr[p].seq - 1 /\ ~Finished(q) /\ ~Finished(p)
    <3>1. Exchanging(q) /\ Descriptions(q) = Answers(q)
      BY <2>2 DEF ExchangeTurns, Opening, Answers
    <3>2. QED
      BY <2>2, <3>1 DEF ExchangeTurns, Turns, Ending
  <2>4. Descriptions(q)' = {m} /\ OneDescription(chan'[q])
    BY <1>1, <2>1, <2>3, DescriptionSent
  <2>5. /\ Answers(p)' = {} /\ AnswerLast(chan'[p])
        /\ Descriptions(p)' = Answers(p)'
    <3>1. Descriptions(p) = Answers(p)
      BY <2>2 DEF ExchangeTurns, Opening
    <3>2. QED
      BY <1>4, <1>5, <2>2, <2>3, <3>1
  <2>6. nbr'[p].state # "DOWN"
    BY <2>2 DEF Exchanging, Synchronizing
  <2>7. ~m.more => nbr'[p].summary = NoHeaders
    <3>1. ~m.more => nbr[p].summary = NoHeaders
      BY <1>3, <2>1, <2>2 DEF Says
    <3>2. nbr[p].summary = NoHeaders => \A k \in Lsas : nbr'[p].summary[k] = 0
      BY <2>1 DEF Says, Listed, NoHeaders
    <3>3. QED
      BY <1>2, <3>1, <3>2 DEF Headers, NoHeaders
  <2>8. Opening(p)'
    BY <1>1, <2>1, <2>2, <2>3, <2>4, <2>5, <2>6 DEF Opening
  <2>9. Turns(p)'
    BY <1>1, <2>1, <2>2, <2>3, <2>4, <2>5 DEF Turns, Answers
  <2>10. Ending(p)'
    BY <1>1, <2>2, <2>3, <2>4, <2>5, <2>7 DEF Ending, Answers
  <2>11. QED
    BY <2>4, <2>5, <2>8, <2>9, <2>10 DEF ExchangeTurns
<1>10. CASE NegotiateStep(p)
  <2> DEFINE m == Head(chan[p])
  <2>1. /\ nbr[p].state = "EXSTART" /\ nbr'[p].state = "EXCHANGE"
        /\ Takes(p, m) /\ NextDue(p)' /\ ~InitialDue(p)' /\ NoNewDDs(p)
        /\ ~m.init /\ m.seq = nbr[p].seq /\ nbr'[p].seq = nbr[p].seq + 1
    <3>1. ~(p < q)
      BY <1>1, RouterAssumption
    <3>2. QED
      BY <1>2, <1>10, <3>1 DEF NegotiateStep, Takes
  <2>2. m \in Descriptions(p) /\ Descriptions(p)' = {}
    BY <2>1, TakenLast DEF ExchangeTurns
  <2> HIDE DEF m
  <2>3. m \in Answers(p) /\ ~Exchanging(p) /\ Exchanging(p)' /\ ~Finished(p)'
    BY <2>1, <2>2 DEF Answers, Exchanging, Finished, Synchronizing
  <2>4. /\ Exchanging(q) /\ Descriptions(q) = {} /\ ~NextDue(q)
        /\ nbr[q].seq = nbr[p].seq /\ ~Finished(q)
    BY <2>3 DEF ExchangeTurns, Opening, Turns, Ending
  <2>5. /\ Descriptions(q)' = {} /\ Answers(q)' = {} /\ Answers(p)' = {}
        /\ OneDescription(chan'[q]) /\ AnswerLast(chan'[p])
    BY <1>4, <1>5, <2>1, <2>2, <2>4 DEF NoNewDDs, Answers
  <2>6. Opening(p)'
    BY <1>1, <2>1, <2>2, <2>3, <2>4, <2>5 DEF Opening
  <2>7. Turns(p)'
    BY <1>1, <1>2, <2>1, <2>2, <2>3, <2>4, <2>5 DEF Turns
  <2>8. Ending(p)'
    BY <1>1, <2>1, <2>3, <2>4, <2>5 DEF Ending
  <2>9. QED
    BY <2>5, <2>6, <2>7, <2>8 DEF ExchangeTurns
<1>11. CASE AcceptStep(p)
  <2> DEFINE m == Head(chan[p])
  <2>1. /\ Exchanging(p) /\ Takes(p, m) /\ ~InitialDue(p)' /\ NoNewDDs(p) /\ Accepts(p, m)
        /\ nbr'[p].seq = nbr[p].seq + 1
        /\ nbr'[p].state = nbr[p].state \/ nbr'[p].state \in {"LOADING", "FULL"}
    BY <1>3, <1>11 DEF AcceptStep, Takes, Exchanging
  <2>2. m \in Descriptions(p)
    BY <2>1, DescriptionSteps
  <2>3. m \in Answers(p) /\ ~m.init
    BY <2>1, <2>2 DEF ExchangeTurns, Opening, Answers
  <2>4. Descriptions(p)' = {}
    BY <2>1, <2>3, TakenLast DEF ExchangeTurns
  <2> HIDE DEF m
  <2>5. /\ Exchanging(q) /\ Descriptions(q) = {} /\ ~NextDue(q)
        /\ nbr[q].seq = nbr[p].seq /\ (m.more <=> ~Finished(q)) /\ ~Finished(p)
    BY <2>1, <2>3 DEF ExchangeTurns, Opening, Turns, Ending
  <2>6. /\ nbr[p].state = "EXCHANGE" /\ Exchanging(p)' /\ nbr'[p].state # "DOWN"
        /\ Finished(p)' <=> ~m.more
    <3>1. nbr[p].state = "EXCHANGE"
      BY <2>1, <2>5 DEF Exchanging, Finished, Synchronizing
    <3>2. nbr'[p].state \in {"EXCHANGE", "LOADING", "FULL"} /\ (nbr'[p].state = "EXCHANGE" <=> m.more)
      BY <2>1, <3>1 DEF Accepts
    <3>3. QED
      BY <3>1, <3>2 DEF Exchanging, Finished, Synchronizing
  <2>7. (NextDue(p)' => m.more) /\ nbr'[p].summary = nbr[p].summary
    BY <1>3, <2>1 DEF Accepts
  <2>8. /\ Descriptions(q)' = {} /\ Answers(q)' = {} /\ Answers(p)' = {}
        /\ OneDescription(chan'[q]) /\ AnswerLast(chan'[p])
    BY <1>4, <1>5, <2>1, <2>4, <2>5 DEF NoNewDDs, Answers
  <2>9. Opening(p)'
    BY <1>1, <2>1, <2>4, <2>5, <2>6, <2>8 DEF Opening
  <2>10. Turns(p)'
    BY <1>1, <1>2, <2>1, <2>5, <2>6, <2>8 DEF Turns
  <2>11. Ending(p)'
    <3>1. Finished(q) => nbr[p].summary = NoHeaders
      BY DEF ExchangeTurns, Ending
    <3>2. nbr'[q].seq = nbr'[p].seq - 1
      BY <1>1, <1>2, <2>1, <2>5
    <3>3. QED
      BY <1>1, <2>5, <2>6, <2>7, <2>8, <3>1, <3>2 DEF Ending
  <2>12. QED
    BY <2>8, <2>9, <2>10, <2>11 DEF ExchangeTurns
<1>12. QED
  BY <1>6, <1>7, <1>8, <1>9, <1>10, <1>11 DEF ExchangeStep

\* A step of the slave keeps the turns.
LEMMA SlaveTurns ==
  ASSUME TypeOK, TypeOK', NEW p \in Router, p > Peer(p), ControlInv(p), ControlInv(Peer(p)),
         ExchangeTurns(p), ExchangeStep(Peer(p)), OnlyActor(Peer(p)),
         ~Surprised(Peer(p)), ~KillStep(Peer(p))
  PROVE  ExchangeTurns(p)'
<1> DEFINE q == Peer(p)
<1>1. /\ q \in Router /\ q # p /\ Peer(q) = p /\ nbr'[p] = nbr[p] /\ due'[p] = due[p]
      /\ SameDue(p) /\ (Exchanging(p)' <=> Exchanging(p)) /\ (Finished(p)' <=> Finished(p))
      /\ (NextDue(p)' <=> NextDue(p)) /\ (InitialDue(p)' <=> InitialDue(p))
  BY PeerProperties DEF OnlyActor, SameDue, InitialDue, NextDue, Exchanging, Finished
<1>2. /\ nbr[p].seq \in Nat /\ nbr[q].seq \in Nat
  BY <1>1 DEF TypeOK, Neighbor
<1>3. /\ InitialDue(p) => nbr[p].state = "EXSTART"
      /\ InitialDue(q) => nbr[q].state = "EXSTART"
      /\ NextDue(p) => Exchanging(p)
      /\ NextDue(q) => Exchanging(q)
      /\ Exchanging(q) => ~nbr[q].master
      /\ Finished(p) => Exchanging(p)
      /\ Finished(q) => Exchanging(q)
  <2>1. ~(q > p)
    BY <1>1, RouterAssumption
  <2>2. QED
    BY <1>1, <2>1 DEF ControlInv, Exchanging, Finished, Synchronizing
<1>4. \A r \in {p, q} : NoNewDD(r) =>
        Descriptions(r)' \subseteq Descriptions(r) /\ Answers(r)' \subseteq Answers(r)
  BY DEF NoNewDD, Answers
<1>5. /\ NoNewDD(q) => OneDescription(chan'[q])
      /\ NoNewDD(p) => AnswerLast(chan'[p])
  BY DEF NoNewDD, NoMore, ExchangeTurns
<1>6. ~Exchanging(q) =>
        /\ ~Exchanging(p) /\ ~NextDue(p) /\ ~NextDue(q) /\ ~Finished(p) /\ ~Finished(q)
        /\ Answers(p) = {} /\ Answers(q) = {}
        /\ \A a \in Descriptions(q) : a.init /\ a.seq = nbr[p].seq
  BY <1>3 DEF ExchangeTurns, Opening, Answers
<1>7. CASE CalmStep(q)
  <2>1. /\ NoNewDDs(p) /\ SameDue(q) /\ nbr'[q].seq = nbr[q].seq
        /\ \/ nbr'[q].state = nbr[q].state
           \/ nbr[q].state = "LOADING" /\ nbr'[q].state = "FULL"
        /\ nbr'[q].last = nbr[q].last \/ due[q] = <<>>
    BY <1>1, <1>7 DEF CalmStep, NoNewDDs
  <2>2. NextDue(q) => due[q] # <<>>
    BY ScheduledQueues DEF NextDue
  <2>3. nbr'[p].seq = nbr[p].seq /\ nbr'[p].summary = nbr[p].summary /\ nbr'[p].state = nbr[p].state
    BY <1>1
  <2>4. \A r \in {p, q} :
          \/ nbr'[r].state = nbr[r].state
          \/ nbr[r].state = "LOADING" /\ nbr'[r].state = "FULL"
    BY <2>1, <2>3
  <2>5. NextDue(q) => nbr'[q].last = nbr[q].last
    BY <2>1, <2>2
  <2>6. SameDue(p)
    BY <1>1
  <2>7. QED
    BY <2>1, <2>3, <2>4, <2>5, <2>6, TurnsKept
<1>8. CASE RestartStep(q)
  <2>1. /\ ~Exchanging(q) /\ ~NextDue(q)' /\ NoNewDD(p) /\ NoNewDD(q)
        /\ ~Exchanging(q)' /\ ~Finished(q)'
    BY <1>1, <1>8 DEF RestartStep, NoNewDDs, Exchanging, Finished, Synchronizing
  <2>2. /\ Descriptions(q)' \subseteq Descriptions(q) /\ Answers(q)' = {} /\ Answers(p)' = {}
        /\ OneDescription(chan'[q]) /\ AnswerLast(chan'[p])
    BY <1>4, <1>5, <1>6, <2>1
  <2>3. Opening(p)'
    BY <1>1, <1>6, <2>1, <2>2 DEF ExchangeTurns, Opening
  <2>4. Turns(p)'
    BY <1>1, <1>6, <2>1, <2>2 DEF Turns
  <2>5. Ending(p)'
    BY <1>1, <1>6, <2>1, <2>2 DEF Ending
  <2>6. QED
    BY <2>2, <2>3, <2>4, <2>5 DEF ExchangeTurns
<1>9. CASE SendInitialStep(q)
  <2>1. PICK m \in Message : m.type = "DD" /\ m.init /\ chan'[p] = Append(chan[p], m)
    BY <1>1, <1>9 DEF SendInitialStep
  <2>2. /\ ~Exchanging(q) /\ ~NextDue(q)' /\ NoNewDD(q)
        /\ ~Exchanging(q)' /\ ~Finished(q)'
    BY <1>3, <1>9 DEF SendInitialStep, NoneDue, SameControl, SameRole, Exchanging, Finished,
                      Synchronizing
  <2>3. Descriptions(p)' = Descriptions(p) \cup {m} /\ AnswerLast(chan'[p])
    BY <1>6, <2>1, <2>2, DescriptionSent
  <2>4. /\ Descriptions(q)' \subseteq Descriptions(q) /\ Answers(q)' = {} /\ Answers(p)' = {}
        /\ OneDescription(chan'[q])
    <3>1. Answers(p)' = {}
      BY <1>6, <2>1, <2>2, <2>3 DEF Answers
    <3>2. QED
      BY <1>4, <1>5, <1>6, <2>2, <3>1
  <2>5. Opening(p)'
    BY <1>1, <1>6, <2>2, <2>4 DEF ExchangeTurns, Opening
  <2>6. Turns(p)'
    BY <1>1, <1>6, <2>2, <2>4 DEF Turns
  <2>7. Ending(p)'
    BY <1>1, <1>6, <2>2, <2>4 DEF Ending
  <2>8. QED
    BY <2>3, <2>4, <2>5, <2>6, <2>7 DEF ExchangeTurns
<1>10. CASE SendNextStep(q)
  <2>1. PICK m \in Message : /\ m.type = "DD" /\ ~m.init /\ m.seq = nbr[q].seq
                             /\ Says(q, m) /\ chan'[p] = Append(chan[p], m)
    BY <1>1, <1>10 DEF SendNextStep
  <2>2. /\ NextDue(q) /\ ~NextDue(q)' /\ NoNewDD(q)
        /\ nbr'[q].seq = nbr[q].seq
        /\ Exchanging(q) /\ Exchanging(q)' /\ (Finished(q)' <=> Finished(q))
    BY <1>3, <1>10 DEF SendNextStep, NoneDue, SameControl, SameRole, Exchanging, Finished
  <2>3. /\ Descriptions(q) = {} /\ Answers(p) = {} /\ nbr[q].seq = nbr[p].seq
        /\ ~NextDue(p) /\ ~Finished(p) /\ nbr[p].state # "DOWN" /\ ~InitialDue(p)
    BY <2>2 DEF ExchangeTurns, Opening, Turns, Ending
  <2>4. Descriptions(p)' = Descriptions(p) \cup {m} /\ AnswerLast(chan'[p])
    BY <2>1, <2>3, DescriptionSent
  <2>5. Answers(p)' = {m} /\ (Exchanging(p) => Descriptions(p)' = {m})
    <3>1. Exchanging(p) => Descriptions(p) = {}
      BY <2>3 DEF ExchangeTurns, Opening
    <3>2. QED
      BY <2>1, <2>3, <2>4, <3>1 DEF Answers
  <2>6. Descriptions(q)' = {} /\ Answers(q)' = {} /\ OneDescription(chan'[q])
    BY <1>4, <1>5, <2>2, <2>3 DEF Answers
  <2>7. /\ m.more <=> ~Finished(q)
        /\ ~Exchanging(p) => m.headers = NoHeaders
    <3>1. /\ nbr[q].last.more <=> ~Finished(q)
          /\ ~Exchanging(p) => nbr[q].last.init
      BY <2>2 DEF ExchangeTurns, Opening, Ending
    <3>2. QED
      BY <1>3, <2>1, <2>2, <3>1 DEF Says
  <2>8. Opening(p)'
    BY <1>1, <2>1, <2>2, <2>3, <2>5, <2>6, <2>7 DEF Opening
  <2>9. Turns(p)'
    BY <1>1, <1>2, <2>1, <2>2, <2>3, <2>5, <2>6 DEF Turns
  <2>10. Ending(p)'
    BY <1>1, <2>2, <2>3, <2>5, <2>6, <2>7 DEF ExchangeTurns, Ending
  <2>11. QED
    BY <2>4, <2>6, <2>8, <2>9, <2>10 DEF ExchangeTurns
<1>11. CASE NegotiateStep(q)
  <2> DEFINE m == Head(chan[q])
  <2>1. /\ ~Exchanging(q) /\ nbr'[q].state = "EXCHANGE" /\ Exchanging(q)' /\ ~Finished(q)'
        /\ Takes(q, m) /\ NoNewDD(p) /\ NoNewDD(q)
        /\ m.init /\ nbr'[q].seq = m.seq /\ nbr'[q].last.init /\ nbr'[q].last.more
    <3>1. ~(q > p)
      BY <1>1, RouterAssumption
    <3>2. QED
      BY <1>1, <1>11, <3>1 DEF NegotiateStep, Takes, NoNewDDs, Exchanging, Finished, Synchronizing
  <2>2. m \in Descriptions(q) /\ Descriptions(q)' = {}
    BY <1>1, <2>1, TakenLast DEF ExchangeTurns
  <2> HIDE DEF m
  <2>3. m.seq = nbr[p].seq /\ nbr[p].state # "DOWN" /\ ~InitialDue(p)
    BY <1>6, <2>1, <2>2 DEF ExchangeTurns, Opening
  <2>4. /\ Answers(q)' = {} /\ Answers(p)' = {}
        /\ OneDescription(chan'[q]) /\ AnswerLast(chan'[p])
    BY <1>4, <1>5, <1>6, <2>1, <2>2 DEF Answers
  <2>5. Opening(p)'
    BY <1>1, <1>6, <2>1, <2>2, <2>3, <2>4 DEF Opening
  <2>6. Turns(p)'
    BY <1>1, <1>6, <2>1, <2>2, <2>3, <2>4 DEF Turns
  <2>7. Ending(p)'
    BY <1>1, <1>6, <2>1, <2>2, <2>4 DEF Ending
  <2>8. QED
    BY <2>4, <2>5, <2>6, <2>7 DEF ExchangeTurns
<1>12. CASE AcceptStep(q)
  <2> DEFINE m == Head(chan[q])
  <2>1. /\ Exchanging(q) /\ Takes(q, m) /\ NoNewDD(p) /\ NoNewDD(q) /\ Accepts(q, m)
        /\ nbr'[q].seq = m.seq
        /\ nbr'[q].state = nbr[q].state \/ nbr'[q].state \in {"LOADING", "FULL"}
    BY <1>1, <1>3, <1>12 DEF AcceptStep, Takes, NoNewDDs, Exchanging
  <2>2. m \in Descriptions(q) /\ Descriptions(q)' = {}
    BY <1>1, <2>1, TakenLast DEF ExchangeTurns
  <2> HIDE DEF m
  <2>3. m \in Answers(q) /\ Exchanging(p)
    BY <2>1, <2>2 DEF ExchangeTurns, Opening, Answers
  <2>4. /\ Answers(p) = {} /\ nbr[q].seq = nbr[p].seq - 1 /\ m.seq = nbr[p].seq
        /\ ~NextDue(p) /\ ~Finished(q) /\ ~Finished(p) /\ ~InitialDue(p)
        /\ ~m.more => nbr[p].summary = NoHeaders
    <3>1. ~InitialDue(p)
      BY <1>3, <2>3 DEF Exchanging, Synchronizing
    <3>2. QED
      BY <2>3, <3>1 DEF ExchangeTurns, Turns, Ending
  <2>5. Exchanging(q)' /\ (Finished(q)' <=> ~m.more)
    <3>1. nbr[q].state = "EXCHANGE"
      BY <2>1, <2>4 DEF Exchanging, Finished, Synchronizing
    <3>2. nbr'[q].state \in {"EXCHANGE", "LOADING", "FULL"} /\ (nbr'[q].state = "EXCHANGE" <=> m.more)
      BY <2>1, <3>1 DEF Accepts
    <3>3. QED
      BY <3>2 DEF Exchanging, Finished, Synchronizing
  <2>6. NextDue(q)' /\ nbr'[q].last.more = m.more
    BY <1>3, <2>1 DEF Accepts
  <2>7. /\ Answers(q)' = {} /\ Answers(p)' = {} /\ Descriptions(p)' = Answers(p)'
        /\ OneDescription(chan'[q]) /\ AnswerLast(chan'[p])
    <3>1. Descriptions(p) = Answers(p)
      BY <2>3 DEF ExchangeTurns, Opening
    <3>2. QED
      BY <1>4, <1>5, <2>1, <2>2, <2>4, <3>1 DEF Answers
  <2>8. Opening(p)'
    BY <1>1, <2>2, <2>3, <2>4, <2>5, <2>7 DEF ExchangeTurns, Opening, Exchanging, Synchronizing
  <2>9. Turns(p)'
    BY <1>1, <2>1, <2>2, <2>3, <2>4, <2>7 DEF Turns
  <2>10. Ending(p)'
    BY <1>1, <2>3, <2>4, <2>5, <2>6, <2>7 DEF Ending
  <2>11. QED
    BY <2>7, <2>8, <2>9, <2>10 DEF ExchangeTurns
<1>13. QED
  BY <1>7, <1>8, <1>9, <1>10, <1>11, <1>12 DEF ExchangeStep

-----------------------------------------------------------------------------
(* What is described arrives                                                *)

\* A router keeps what it has or has asked for, and asks for what is described.
LEMMA HasGrows ==
  ASSUME CoreInv, NEW p \in Router, AtMost(lsdb[p], lsdb'[p]), lsdb'[p] \in Headers,
         RequestStep(p) \/ AcceptStep(p)
  PROVE  /\ Has(p) \subseteq Has(p)'
         /\ AcceptStep(p) => Listed(Head(chan[p]).headers) \subseteq Has(p)'
<1>1. lsdb[p] \in Headers /\ nbr[p].req \in Headers /\ TypeOK
  BY DEF CoreInv, TypeOK, Neighbor
<1>2. \A k \in Lsas : lsdb[p][k] # 0 => lsdb'[p][k] # 0
  <2>1. \A k \in Lsas : lsdb[p][k] \in Nat /\ lsdb'[p][k] \in Nat /\ lsdb[p][k] <= lsdb'[p][k]
    BY <1>1 DEF Headers, AtMost
  <2>2. QED
    BY <2>1
<1>3. ASSUME RequestStep(p) PROVE Has(p) \subseteq Has(p)'
  <2>1. \A k \in Lsas : nbr[p].req[k] # 0 => nbr'[p].req[k] # 0 \/ lsdb'[p][k] # 0
    BY <1>3 DEF RequestStep
  <2>2. QED
    BY <1>2, <2>1 DEF Has, Listed
<1>4. CASE AcceptStep(p)
  <2> DEFINE h == Head(chan[p]).headers
  <2>1. nbr'[p].req = [k \in Lsas |-> IF nbr[p].req[k] = 0 THEN Wanted(p, h)[k] ELSE nbr[p].req[k]]
    BY <1>4 DEF AcceptStep, Accepts
  <2>2. h \in Headers
    <3>1. Head(chan[p]) \in Descriptions(p)
      BY <1>1, <1>4, DescriptionSteps DEF AcceptStep
    <3>2. QED
      BY <3>1, BackedHeaders DEF Descriptions
  <2> HIDE DEF h
  <2>3. ASSUME NEW k \in Lsas, h[k] # 0 PROVE lsdb[p][k] # 0 \/ Wanted(p, h)[k] # 0
    <3>1. h[k] \in Nat /\ lsdb[p][k] \in Nat
      BY <1>1, <2>2 DEF Headers
    <3>2. QED
      BY <2>3, <3>1 DEF Wanted, MoreRecent
  <2>4. \A k \in Lsas : /\ nbr[p].req[k] # 0 => nbr'[p].req[k] # 0
                        /\ h[k] # 0 => lsdb[p][k] # 0 \/ nbr'[p].req[k] # 0
    BY <2>1, <2>3
  <2>5. Has(p) \subseteq Has(p)' /\ Listed(h) \subseteq Has(p)'
    BY <1>2, <2>4 DEF Has, Listed
  <2>6. QED
    BY <2>5 DEF h
<1>5. QED
  BY <1>3, <1>4

\* A description says what it takes off the summary list.
LEMMA SaysTaken ==
  ASSUME CoreInv, NEW p \in Router, NEW m, Says(p, m)
  PROVE  Listed(nbr[p].summary) \subseteq Listed(nbr'[p].summary) \cup Listed(m.headers)
<1>1. /\ lsdb[p] \in Headers /\ nbr[p].summary \in Headers
      /\ AtMost(nbr[p].summary, lsdb[p])
  BY BackedForms DEF CoreInv, TypeOK, Neighbor, BackedBy
<1>2. \A k \in Listed(nbr[p].summary) : nbr[p].summary[k] # 0 /\ lsdb[p][k] # 0
  <2>1. \A k \in Lsas : lsdb[p][k] \in Nat /\ nbr[p].summary[k] \in Nat
                        /\ nbr[p].summary[k] <= lsdb[p][k]
    BY <1>1 DEF Headers, AtMost
  <2>2. QED
    BY <2>1 DEF Listed
<1>3. QED
  BY <1>2 DEF Says, Listed

\* The summary list begins with all the LSAs of the router's own.
LEMMA SummarisesOwn ==
  ASSUME NEW p \in Router, OwnLsas(p) \subseteq Listed(lsdb[p])
  PROVE  OwnLsas(p) \subseteq Listed(Pick(lsdb[p], Describable))
<1>1. OwnLsas(p) \subseteq Describable
  BY FreeLists, HeadersTypes DEF Describable
<1>2. QED
  BY <1>1 DEF Listed, Pick

\* The master's next step leaves nothing out.
LEMMA MasterTransfers ==
  ASSUME CoreInv, TypeOK', NEW p \in Router, p > Peer(p), ControlInv(p), ControlInv(Peer(p)),
         ExchangeTurns(p), Transferred(p), RequestsOpen(p),
         ExchangeStep(p), OnlyActor(p), ~Surprised(p), ~KillStep(p),
         AtMost(lsdb[p], lsdb'[p]), RequestStep(p) \/ AcceptStep(p)
  PROVE  Transferred(p)'
<1> DEFINE q == Peer(p)
<1>1. /\ TypeOK /\ q \in Router /\ q # p /\ Peer(q) = p /\ nbr'[q] = nbr[q]
      /\ Has(q)' = Has(q) /\ (Exchanging(q)' <=> Exchanging(q)) /\ (Finished(q)' <=> Finished(q))
      /\ (NextDue(q)' <=> NextDue(q))
  BY PeerProperties DEF CoreInv, OnlyActor, NextDue, Exchanging, Finished, Has
<1>2. nbr[p].seq \in Nat /\ nbr[q].seq \in Nat
  BY <1>1 DEF TypeOK, Neighbor
<1>3. /\ NextDue(p) => Exchanging(p)
      /\ NextDue(q) => Exchanging(q)
      /\ Exchanging(p) => nbr[p].master
      /\ Finished(p) => Exchanging(p)
      /\ Finished(q) => Exchanging(q)
      /\ InitialDue(p) => nbr[p].state = "EXSTART"
  BY <1>1 DEF ControlInv, Exchanging, Finished, Synchronizing
<1>4. \A r \in {p, q} : NoNewDD(r) =>
        Descriptions(r)' \subseteq Descriptions(r) /\ Answers(r)' \subseteq Answers(r)
  BY DEF NoNewDD, Answers
<1>5. /\ Has(p) \subseteq Has(p)'
      /\ AcceptStep(p) => Listed(Head(chan[p]).headers) \subseteq Has(p)'
  <2>1. lsdb'[p] \in Headers
    BY DEF TypeOK
  <2>2. QED
    BY <2>1, HasGrows
<1>6. /\ Finished(q)' => OwnLsas(p) \subseteq Has(q)'
      /\ \A h : Brought(p, h) => Brought(p, h)'
  BY <1>1, <1>5 DEF Transferred, Brought
<1>7. CASE CalmStep(p)
  <2>1. /\ \A h : Brought(q, h) => Brought(q, h)'
        /\ Answers(p)' \subseteq Answers(p) /\ Answers(q)' \subseteq Answers(q)
        /\ nbr'[p].seq = nbr[p].seq /\ (NextDue(p)' <=> NextDue(p))
        /\ Exchanging(p)' <=> Exchanging(p)
    BY <1>1, <1>4, <1>7 DEF CalmStep, NoNewDDs, SameDue, Brought, Exchanging, Synchronizing
  <2>2. QED
    BY <1>1, <1>6, <2>1 DEF Transferred
<1>8. CASE RestartStep(p) \/ SendInitialStep(p)
  <2>1. /\ nbr[p].state = "DOWN" \/ InitialDue(p)
        /\ ~Exchanging(p)' /\ NoNewDD(p)
    BY <1>3, <1>8 DEF RestartStep, SendInitialStep, SameControl, NoNewDDs, Exchanging, Synchronizing
  <2>2. ~Exchanging(q) /\ Descriptions(q) = {} /\ Answers(p) = {}
    BY <2>1 DEF ExchangeTurns, Opening
  <2>3. Answers(p)' = {}
    BY <1>4, <2>1, <2>2
  <2>4. Answers(q)' = {}
    <3>1. CASE RestartStep(p)
      BY <1>4, <2>2, <3>1 DEF RestartStep, NoNewDDs, Answers
    <3>2. CASE SendInitialStep(p)
      <4>1. PICK m \in Message : /\ m.type = "DD" /\ m.init
                                 /\ chan'[q] = Append(chan[q], m)
        BY <3>2 DEF SendInitialStep
      <4>2. Descriptions(q)' = Descriptions(q) \cup {m}
        BY <1>1, <4>1, DescriptionSent
      <4>3. QED
        BY <2>2, <4>1, <4>2 DEF Answers
    <3>3. QED
      BY <1>8, <3>1, <3>2
  <2>5. QED
    BY <1>1, <1>3, <1>6, <2>1, <2>2, <2>3, <2>4 DEF Transferred
<1>9. CASE SendNextStep(p)
  <2>1. PICK m \in Message : /\ m.type = "DD" /\ Says(p, m)
                             /\ chan'[q] = Append(chan[q], m)
    BY <1>9 DEF SendNextStep
  <2>2. /\ NextDue(p) /\ ~NextDue(p)' /\ NoNewDD(p) /\ Exchanging(p) /\ nbr'[p].seq = nbr[p].seq
    BY <1>3, <1>9 DEF SendNextStep, NoneDue, SameControl, SameRole
  <2>3. nbr[q].seq = nbr[p].seq - 1 /\ Answers(q) = {} /\ Answers(p)' \subseteq Answers(p)
    BY <1>4, <2>2 DEF ExchangeTurns, Turns
  <2>4. Answers(q)' \subseteq {m}
    <3>1. Descriptions(q)' = Descriptions(q) \cup {m}
      BY <1>1, <2>1, DescriptionSent
    <3>2. QED
      BY <2>3, <3>1 DEF Answers
  <2>5. Brought(q, m.headers)'
    <3>1. Brought(q, NoHeaders) /\ Listed(NoHeaders) = {}
      BY <2>2 DEF Transferred, Listed, NoHeaders
    <3>2. Listed(nbr[p].summary) \subseteq Listed(nbr'[p].summary) \cup Listed(m.headers)
      BY <2>1, SaysTaken
    <3>3. QED
      BY <1>1, <3>1, <3>2 DEF Brought
  <2>6. QED
    BY <1>1, <1>2, <1>6, <2>2, <2>3, <2>4, <2>5 DEF Transferred
<1>10. CASE NegotiateStep(p)
  <2> DEFINE m == Head(chan[p])
  <2>1. /\ ~Exchanging(p) /\ nbr'[p].summary = Pick(lsdb[p], Describable)
        /\ Takes(p, m) /\ NoNewDD(q) /\ ~m.init
    <3>1. ~(p < q)
      BY <1>1, RouterAssumption
    <3>2. QED
      BY <1>2, <1>10, <3>1 DEF NegotiateStep, Takes, NoNewDDs, Exchanging, Synchronizing
  <2>2. m \in Answers(p) /\ Answers(p)' = {}
    BY <1>1, <2>1, TakenLast DEF ExchangeTurns, Answers
  <2> HIDE DEF m
  <2>3. Answers(q)' = {} /\ m.headers = NoHeaders
    BY <1>4, <2>1, <2>2 DEF ExchangeTurns, Opening, Turns, Answers
  <2>4. Brought(p, NoHeaders)'
    BY <1>6, <2>2, <2>3 DEF Transferred
  <2>5. Brought(q, NoHeaders)'
    BY <1>1, <2>1, SummarisesOwn DEF Brought, RequestsOpen
  <2>6. QED
    BY <1>6, <2>2, <2>3, <2>4, <2>5 DEF Transferred
<1>11. CASE AcceptStep(p)
  <2> DEFINE m == Head(chan[p])
  <2>1. /\ Exchanging(p) /\ Takes(p, m) /\ NoNewDDs(p) /\ nbr'[p].summary = nbr[p].summary
    BY <1>11 DEF AcceptStep, Accepts, Takes, Exchanging
  <2>2. m \in Descriptions(p)
    BY <1>1, <2>1, DescriptionSteps
  <2>3. m \in Answers(p) /\ ~m.init
    BY <2>1, <2>2 DEF ExchangeTurns, Opening, Answers
  <2>4. Answers(p)' = {} /\ Answers(q)' = {} /\ nbr[q].seq = nbr[p].seq
    <3>1. Descriptions(p)' = {}
      BY <1>1, <2>1, <2>3, TakenLast DEF ExchangeTurns
    <3>2. Descriptions(q) = {} /\ nbr[q].seq = nbr[p].seq
      BY <2>3 DEF ExchangeTurns, Turns
    <3>3. QED
      BY <1>4, <2>1, <3>1, <3>2 DEF NoNewDDs, Answers
  <2>5. Listed(m.headers) \subseteq Has(p)'
    BY <1>5, <1>11
  <2> HIDE DEF m
  <2>6. Brought(p, NoHeaders)'
    <3>1. Brought(p, m.headers)
      BY <2>3 DEF Transferred
    <3>2. QED
      BY <1>1, <1>5, <2>5, <3>1 DEF Brought
  <2>7. Brought(q, NoHeaders)'
    <3>1. Brought(q, NoHeaders)
      BY <2>1, <2>4 DEF Transferred
    <3>2. QED
      BY <1>1, <2>1, <3>1 DEF Brought
  <2>8. QED
    BY <1>6, <2>4, <2>6, <2>7 DEF Transferred
<1>12. QED
  BY <1>7, <1>8, <1>9, <1>10, <1>11 DEF ExchangeStep

\* The slave's next step leaves nothing out.
LEMMA SlaveTransfers ==
  ASSUME CoreInv, TypeOK', NEW p \in Router, p > Peer(p), ControlInv(p), ControlInv(Peer(p)),
         ExchangeTurns(p), Transferred(p), RequestsOpen(Peer(p)),
         ExchangeStep(Peer(p)), OnlyActor(Peer(p)), ~Surprised(Peer(p)), ~KillStep(Peer(p)),
         AtMost(lsdb[Peer(p)], lsdb'[Peer(p)]), RequestStep(Peer(p)) \/ AcceptStep(Peer(p))
  PROVE  Transferred(p)'
<1> DEFINE q == Peer(p)
<1>1. /\ TypeOK /\ q \in Router /\ q # p /\ Peer(q) = p /\ nbr'[p] = nbr[p]
      /\ Has(p)' = Has(p) /\ (Exchanging(p)' <=> Exchanging(p)) /\ (Finished(p)' <=> Finished(p))
      /\ (NextDue(p)' <=> NextDue(p))
  BY PeerProperties DEF CoreInv, OnlyActor, NextDue, Exchanging, Finished, Has
<1>2. nbr[p].seq \in Nat /\ nbr[q].seq \in Nat
  BY <1>1 DEF TypeOK, Neighbor
<1>3. /\ NextDue(p) => Exchanging(p)
      /\ NextDue(q) => Exchanging(q)
      /\ Exchanging(q) => ~nbr[q].master
      /\ Finished(p) => Exchanging(p)
      /\ Finished(q) => Exchanging(q)
      /\ InitialDue(q) => nbr[q].state = "EXSTART"
  <2>1. ~(q > p)
    BY <1>1, RouterAssumption
  <2>2. QED
    BY <1>1, <2>1 DEF ControlInv, Exchanging, Finished, Synchronizing
<1>4. \A r \in {p, q} : NoNewDD(r) =>
        Descriptions(r)' \subseteq Descriptions(r) /\ Answers(r)' \subseteq Answers(r)
  BY DEF NoNewDD, Answers
<1>5. /\ Has(q) \subseteq Has(q)'
      /\ AcceptStep(q) => Listed(Head(chan[q]).headers) \subseteq Has(q)'
  <2>1. lsdb'[q] \in Headers
    BY <1>1 DEF TypeOK
  <2>2. QED
    BY <1>1, <2>1, HasGrows
<1>6. /\ Finished(q) => OwnLsas(p) \subseteq Has(q)'
      /\ \A h : Brought(q, h) => Brought(q, h)'
  BY <1>1, <1>5 DEF Transferred, Brought
<1>7. ~Exchanging(q) =>
        /\ ~Exchanging(p) /\ Answers(p) = {} /\ Answers(q) = {} /\ ~Finished(q)
  BY <1>3 DEF ExchangeTurns, Opening, Answers
<1>8. CASE CalmStep(q)
  <2>1. /\ \A h : Brought(p, h) => Brought(p, h)'
        /\ Answers(p)' \subseteq Answers(p) /\ Answers(q)' \subseteq Answers(q)
        /\ nbr'[q].seq = nbr[q].seq /\ (NextDue(q)' <=> NextDue(q))
        /\ Exchanging(q)' <=> Exchanging(q)
        /\ Finished(q)' <=> Finished(q)
    BY <1>1, <1>4, <1>8 DEF CalmStep, NoNewDDs, SameDue, Brought, Exchanging, Finished,
                            Synchronizing
  <2>2. QED
    BY <1>1, <1>6, <2>1 DEF Transferred
<1>9. CASE RestartStep(q) \/ SendInitialStep(q)
  <2>1. /\ ~Exchanging(q) /\ ~Exchanging(q)' /\ ~Finished(q)' /\ NoNewDD(q)
    BY <1>3, <1>9 DEF RestartStep, SendInitialStep, SameControl, NoNewDDs, Exchanging,
                      Finished, Synchronizing
  <2>2. Answers(q)' = {}
    BY <1>4, <1>7, <2>1
  <2>3. Answers(p)' = {}
    <3>1. CASE RestartStep(q)
      BY <1>1, <1>4, <1>7, <2>1, <3>1 DEF RestartStep, NoNewDDs
    <3>2. CASE SendInitialStep(q)
      <4>1. PICK m \in Message : /\ m.type = "DD" /\ m.init
                                 /\ chan'[p] = Append(chan[p], m)
        BY <1>1, <3>2 DEF SendInitialStep
      <4>2. Descriptions(p)' = Descriptions(p) \cup {m}
        BY <1>1, <4>1, DescriptionSent
      <4>3. QED
        BY <1>7, <2>1, <4>1, <4>2 DEF Answers
    <3>3. QED
      BY <1>9, <3>1, <3>2
  <2>4. QED
    BY <1>1, <1>7, <2>1, <2>2, <2>3 DEF Transferred
<1>10. CASE SendNextStep(q)
  <2>1. PICK m \in Message : /\ m.type = "DD" /\ Says(q, m)
                             /\ chan'[p] = Append(chan[p], m)
    BY <1>1, <1>10 DEF SendNextStep
  <2>2. /\ NextDue(q) /\ ~NextDue(q)' /\ NoNewDD(q) /\ Exchanging(q) /\ nbr'[q].seq = nbr[q].seq
        /\ (Finished(q)' <=> Finished(q))
    BY <1>3, <1>10 DEF SendNextStep, NoneDue, SameControl, SameRole, Finished
  <2>3. nbr[q].seq = nbr[p].seq /\ Answers(p) = {} /\ Answers(q)' \subseteq Answers(q)
    BY <1>4, <2>2 DEF ExchangeTurns, Turns
  <2>4. Answers(p)' \subseteq {m}
    <3>1. Descriptions(p)' = Descriptions(p) \cup {m}
      BY <1>1, <2>1, DescriptionSent
    <3>2. QED
      BY <2>3, <3>1 DEF Answers
  <2>5. Brought(p, m.headers)'
    <3>1. Brought(p, NoHeaders) /\ Listed(NoHeaders) = {}
      BY <2>2 DEF Transferred, Listed, NoHeaders
    <3>2. Listed(nbr[q].summary) \subseteq Listed(nbr'[q].summary) \cup Listed(m.headers)
      BY <1>1, <2>1, SaysTaken
    <3>3. QED
      BY <1>1, <3>1, <3>2 DEF Brought
  <2>6. QED
    BY <1>1, <1>2, <1>6, <2>2, <2>3, <2>4, <2>5 DEF Transferred
<1>11. CASE NegotiateStep(q)
  <2> DEFINE m == Head(chan[q])
  <2>1. /\ ~Exchanging(q) /\ ~Finished(q)' /\ nbr'[q].summary = Pick(lsdb[q], Describable)
        /\ NoNewDD(p) /\ NoNewDD(q)
    BY <1>1, <1>11 DEF NegotiateStep, Takes, NoNewDDs, Exchanging, Finished, Synchronizing
  <2>2. Answers(p)' = {} /\ Answers(q)' = {}
    BY <1>4, <1>7, <2>1
  <2>3. Brought(p, NoHeaders)'
    BY <1>1, <2>1, SummarisesOwn DEF Brought, RequestsOpen
  <2>4. QED
    BY <1>1, <1>7, <2>1, <2>2, <2>3 DEF Transferred
<1>12. CASE AcceptStep(q)
  <2> DEFINE m == Head(chan[q])
  <2>1. /\ Exchanging(q) /\ Takes(q, m) /\ NoNewDD(p) /\ NoNewDD(q)
        /\ nbr'[q].summary = nbr[q].summary /\ nbr'[q].seq = m.seq
        /\ nbr'[q].state = nbr[q].state \/ nbr'[q].state \in {"LOADING", "FULL"}
        /\ nbr[q].state = "EXCHANGE" => (nbr'[q].state = "EXCHANGE" <=> m.more)
    BY <1>1, <1>3, <1>12 DEF AcceptStep, Accepts, Takes, NoNewDDs, Exchanging
  <2>2. m \in Descriptions(q) /\ Descriptions(q)' = {}
    BY <1>1, <2>1, TakenLast DEF ExchangeTurns
  <2>3. Listed(m.headers) \subseteq Has(q)'
    BY <1>5, <1>12
  <2> HIDE DEF m
  <2>4. m \in Answers(q)
    BY <2>1, <2>2 DEF ExchangeTurns, Opening, Answers
  <2>5. /\ nbr[q].seq = nbr[p].seq - 1 /\ nbr'[q].seq = nbr[p].seq
        /\ Answers(p) = {} /\ ~Finished(q)
        /\ ~m.more => nbr[p].summary = NoHeaders
    BY <2>1, <2>4 DEF ExchangeTurns, Turns, Ending
  <2>6. Answers(p)' = {} /\ Answers(q)' = {}
    BY <1>4, <2>1, <2>2, <2>5 DEF Answers
  <2>7. Finished(q)' => ~m.more
    BY <2>1, <2>5 DEF Exchanging, Finished, Synchronizing
  <2>8. OwnLsas(p) \subseteq Has(q)' \cup Listed(nbr[p].summary)
    <3>1. Brought(q, m.headers)
      BY <2>4 DEF Transferred
    <3>2. QED
      BY <1>1, <1>5, <2>3, <3>1 DEF Brought
  <2>9. Brought(q, NoHeaders)'
    BY <1>1, <2>8 DEF Brought
  <2>10. Finished(q)' => OwnLsas(p) \subseteq Has(q)'
    BY <2>5, <2>7, <2>8 DEF Listed, NoHeaders
  <2>11. Brought(p, NoHeaders)'
    <3>1. Brought(p, NoHeaders)
      BY <1>2, <2>1, <2>5 DEF Transferred
    <3>2. QED
      BY <1>1, <2>1, <3>1 DEF Brought
  <2>12. QED
    BY <2>6, <2>9, <2>10, <2>11 DEF Transferred
<1>13. QED
  BY <1>8, <1>9, <1>10, <1>11, <1>12 DEF ExchangeStep

-----------------------------------------------------------------------------
(* The invariant                                                            *)

\* Whoever is past the negotiation takes descriptions in EXCHANGE only, and they are
\* the next ones.
LEMMA NextDescription ==
  ASSUME TypeOK, NEW p \in Router, p > Peer(p), ControlInv(p), ControlInv(Peer(p)),
         ExchangeTurns(p), NEW r \in {p, Peer(p)}, Exchanging(r), NEW m \in Descriptions(r)
  PROVE  /\ ~m.init /\ nbr[r].state = "EXCHANGE"
         /\ IF nbr[r].master THEN m.seq = nbr[r].seq ELSE m.seq > nbr[r].seq
<1> DEFINE q == Peer(p)
<1>1. /\ p \in Nat /\ q \in Nat /\ q \in Router /\ Peer(q) = p
      /\ nbr[p].seq \in Nat /\ nbr[q].seq \in Nat
  BY PeerProperties, RouterAssumption DEF TypeOK, Neighbor
<1>2. m \in Answers(r) /\ ~m.init
  BY DEF ExchangeTurns, Opening, Answers
<1>3. nbr[r].state = "EXCHANGE"
  <2>1. ~Finished(r)
    BY <1>2 DEF ExchangeTurns, Ending
  <2>2. QED
    BY <2>1 DEF Exchanging, Finished, Synchronizing
<1>4. CASE r = p
  <2>1. nbr[r].master
    BY <1>4 DEF ControlInv, Exchanging
  <2>2. m.seq = nbr[r].seq
    BY <1>2, <1>4 DEF ExchangeTurns, Turns
  <2>3. QED
    BY <1>2, <1>3, <2>1, <2>2
<1>5. CASE r = q
  <2>1. ~nbr[r].master
    BY <1>1, <1>5 DEF ControlInv, Exchanging
  <2>2. m.seq = nbr[p].seq /\ nbr[r].seq = nbr[p].seq - 1
    BY <1>2, <1>5 DEF ExchangeTurns, Turns
  <2>3. QED
    BY <1>1, <1>2, <1>3, <2>1, <2>2
<1>6. QED
  BY <1>4, <1>5

\* Expired inactivity timers are counted and never forgotten.
LEMMA InactiveCounted ==
  ASSUME TypeOK, NEW p \in Router, Acts(p)
  PROVE  faults'.inactive \in {faults.inactive, faults.inactive + 1}
<1>1. faults \in [loss : Nat, inactive : Nat]
  BY DEF TypeOK
<1>2. CASE Receive(p)
  <2>1. UNCHANGED faults
    BY <1>2, Zenon DEF Receive, ReceiveHelloPacket, ReceiveDDIgnored, ReceiveDDNegotiate,
         ReceiveDDMismatch, ReceiveDDAsMaster, ReceiveDDAsSlave,
         ReceiveLinkStateRequestPacket, ReceiveLinkStateUpdatePacket,
         ReceiveLinkStateAckPacket
  <2>2. QED
    BY <2>1
<1>3. CASE RunDue(p)
  <2>1. UNCHANGED faults
    BY <1>3, Zenon DEF RunDue, SendInitialDD, SendDD, SendLSR, SendLSUDirect, EntryPoint
  <2>2. QED
    BY <2>1
<1>4. CASE HandleLSA(p)
  <2>1. UNCHANGED faults
    BY <1>4, Zenon DEF HandleLSA, InstallLSA, DropEarlyLSA, BadLSRequest, AnswerOldLSA, SameLSA
  <2>2. QED
    BY <2>1
<1>5. CASE \/ SendHelloPacket(p) \/ LSRTimer(p) \/ ClearLastPacket(p) \/ EntryPointTimer(p)
           \/ ForeignUpdate(p) \/ OriginateElsewhere(p)
  <2>1. UNCHANGED faults
    BY <1>5, Zenon DEF SendHelloPacket, LSRTimer, ClearLastPacket, EntryPointTimer,
         ForeignUpdate, OriginateElsewhere
  <2>2. QED
    BY <2>1
<1>6. CASE InactivityTimer(p) \/ Lose(p)
  BY <1>1, <1>6 DEF InactivityTimer, Lose
<1>7. QED
  BY <1>2, <1>3, <1>4, <1>5, <1>6 DEF Acts

\* The invariant holds initially: the channels hold one Hello each.
LEMMA InitTransfer == Init => LoneUpdates /\ TransferInv
<1> SUFFICES ASSUME Init PROVE LoneUpdates /\ TransferInv
  OBVIOUS
<1> DEFINE hello == [type |-> "Hello", seen |-> FALSE]
<1>1. TypeOK
  BY InitTypes
<1>2. ASSUME NEW p \in Router
      PROVE  /\ nbr[p].state = "DOWN" /\ nbr[p].req = NoHeaders
             /\ due[p] = <<>> /\ hand[p] = NoHeaders /\ chan[p] = <<hello>>
             /\ OwnLsas(p) \subseteq Listed(lsdb[p])
  <2>1. PICK b \in [Router -> BOOLEAN] : nbr = [r \in Router |-> FreshNeighbor(b[r])]
    BY DEF Init
  <2>2. nbr[p] = FreshNeighbor(b[p])
    BY <2>1
  <2>3. nbr[p].state = "DOWN" /\ nbr[p].req = NoHeaders
    BY <2>2 DEF FreshNeighbor
  <2>4. OwnLsas(p) \subseteq Listed(lsdb[p])
    BY HeadersTypes DEF Init, Listed
  <2>5. QED
    BY <2>3, <2>4 DEF Init
<1>3. ASSUME NEW p \in Router
      PROVE  /\ Elements(chan[p]) = {hello} /\ Descriptions(p) = {} /\ Answers(p) = {}
             /\ OneDescription(chan[p]) /\ AnswerLast(chan[p]) /\ FreshChannel(chan[p])
             /\ ~InitialDue(p) /\ ~NextDue(p) /\ Elements(due[p]) = {} /\ Lone(due[p])
             /\ ~Exchanging(p) /\ ~Finished(p)
  <2>1. hello \in Message /\ hello.type = "Hello"
    BY MessageTypes
  <2>2. chan[p] = <<hello>> /\ Elements(<<hello>>) = {hello}
    BY <1>2, <2>1, OneElement
  <2>3. DOMAIN chan[p] = {1} /\ chan[p][1].type = "Hello"
    BY <2>1, <2>2
  <2> HIDE DEF hello
  <2>4. OneDescription(chan[p]) /\ AnswerLast(chan[p])
    BY <2>3 DEF OneDescription, AnswerLast, DDAt
  <2>5. FreshChannel(chan[p])
    BY <2>3 DEF FreshChannel
  <2>6. Elements(chan[p]) = {hello} /\ Descriptions(p) = {} /\ Answers(p) = {}
    BY <2>1, <2>2 DEF Descriptions, Answers
  <2>7. Elements(due[p]) = {} /\ Lone(due[p])
    BY <1>2, ScheduledQueues DEF Lone
  <2>8. ~Exchanging(p) /\ ~Finished(p)
    BY <1>2 DEF Exchanging, Finished, Synchronizing
  <2>9. QED
    BY <2>4, <2>5, <2>6, <2>7, <2>8 DEF InitialDue, NextDue
<1>4. LoneUpdates
  BY <1>3 DEF LoneUpdates
<1>5. ASSUME NEW p \in Router PROVE ExchangeTurns(p) /\ Transferred(p)
  <2>1. Peer(p) \in Router
    BY PeerProperties
  <2>2. Opening(p) /\ Turns(p) /\ Ending(p)
    BY <1>3, <2>1 DEF Opening, Turns, Ending
  <2>3. Transferred(p)
    BY <1>3, <2>1 DEF Transferred
  <2>4. QED
    BY <1>3, <2>1, <2>2, <2>3 DEF ExchangeTurns
<1>6. ASSUME NEW p \in Router PROVE RequestsOpen(p) /\ Fresh(p)
  <2>1. Peer(p) \in Router
    BY PeerProperties
  <2>2. RequestsOpen(p)
    BY <1>2 DEF RequestsOpen
  <2>3. nbr[p].req = NoHeaders /\ hand[p] = NoHeaders /\ Elements(chan[p]) = {hello}
        /\ FreshChannel(chan[p]) /\ Elements(due[Peer(p)]) = {} /\ hello.type # "LSU"
    BY <1>2, <1>3, <2>1
  <2> HIDE DEF hello
  <2>4. Fresh(p)
    BY <2>3 DEF Fresh, NotOlder, NoHeaders
  <2>5. QED
    BY <2>2, <2>4
<1>7. QED
  BY <1>4, <1>5, <1>6 DEF TransferInv

\* The parts of the invariant that a step of the router r uses.
BothWays == CoreInv /\ ScopeInv /\ ExchangeInv /\ LoneUpdates /\ TransferInv

\* Until an inactivity timer expires, a step of r meets no surprise and leaves the
\* exchange only by finishing it.
LEMMA ActorUnsurprised ==
  ASSUME BothWays, NEW r \in Router, Acts(r), OnlyActor(r), faults'.inactive = 0
  PROVE  /\ faults.inactive = 0 /\ ExchangeStep(r) /\ ~Surprised(r) /\ ~KillStep(r)
         /\ RequestStep(r) \/ (AcceptStep(r) /\ nbr[r].state = "EXCHANGE")
<1> DEFINE p == IF r > Peer(r) THEN r ELSE Peer(r)
<1>1. /\ p \in Router /\ Peer(p) \in Router /\ p > Peer(p) /\ r \in {p, Peer(p)}
  BY PeerProperties, RouterAssumption
<1> HIDE DEF p
<1>2. /\ CoreInv /\ ScopeInv /\ TypeOK /\ ControlInv(p) /\ ControlInv(Peer(p)) /\ ControlInv(r)
  BY <1>1 DEF BothWays, CoreInv, ExchangeInv
<1>3. faults.inactive = 0 /\ faults.inactive + 1 # 0
  <2>1. faults.inactive \in Nat
    BY <1>2 DEF TypeOK
  <2>2. QED
    BY <1>2, <2>1, InactiveCounted
<1>4. ExchangeTurns(p) /\ RequestsOpen(r) /\ Fresh(r)
  BY <1>1, <1>3 DEF BothWays, TransferInv
<1>5. ASSUME NEW m \in Descriptions(r), Exchanging(r)
      PROVE  /\ ~m.init /\ nbr[r].state = "EXCHANGE"
             /\ IF nbr[r].master THEN m.seq = nbr[r].seq ELSE m.seq > nbr[r].seq
  BY <1>1, <1>2, <1>4, <1>5, NextDescription
<1>6. ~Surprised(r)
  <2>1. nbr[r].state = "EXCHANGE" => Exchanging(r)
    BY DEF Exchanging, Synchronizing
  <2>2. QED
    BY <1>2, <1>4, <1>5, <2>1, NoSurprise
<1>7. ExchangeStep(r) /\ ~KillStep(r)
  <2>1. ExchangeStep(r)
    BY <1>2, ActorExchange DEF ControlInv
  <2>2. QED
    BY <1>3, <2>1 DEF KillStep
<1>8. RequestStep(r) \/ AcceptStep(r)
  <2>1. nbr[r].state \notin Requesting => nbr[r].req = NoHeaders
    BY <1>4 DEF RequestsOpen, Requesting
  <2>2. QED
    BY <1>2, <1>3, <1>6, <2>1, ActorRequest
<1>9. AcceptStep(r) => nbr[r].state = "EXCHANGE"
  <2> SUFFICES ASSUME AcceptStep(r) PROVE nbr[r].state = "EXCHANGE"
    OBVIOUS
  <2>1. Takes(r, Head(chan[r])) /\ Exchanging(r)
    BY DEF AcceptStep, Exchanging
  <2>2. Head(chan[r]) \in Descriptions(r)
    BY <1>2, <2>1, DescriptionSteps
  <2>3. QED
    BY <1>5, <2>1, <2>2
<1>10. QED
  BY <1>3, <1>6, <1>7, <1>8, <1>9

\* A step of a router keeps the invariant.
LEMMA ActorTransfer ==
  ASSUME BothWays, CoreInv', NEW r \in Router, Acts(r), OnlyActor(r), Effects(r),
         AtMost(lsdb[r], lsdb'[r])
  PROVE  LoneUpdates' /\ TransferInv'
<1> DEFINE q == Peer(r)
<1>1. /\ q \in Router /\ Peer(q) = r /\ r \in Nat /\ q \in Nat /\ r # q
      /\ \A s \in Router : s = r \/ s = q
  BY PeerProperties, RouterAssumption
<1>2. /\ CoreInv /\ TypeOK /\ TypeOK' /\ ControlInv(r) /\ ControlInv(q)
      /\ Lone(due[r]) /\ Lone(due[q])
  BY <1>1 DEF BothWays, CoreInv, ExchangeInv, LoneUpdates
<1>3. SendStep(r) /\ Lone(due'[r])
  BY <1>2, ActorUpdates DEF ControlInv
<1>4. LoneUpdates'
  <2>1. Lone(due'[q])
    BY <1>2 DEF OnlyActor
  <2>2. QED
    BY <1>1, <1>3, <2>1 DEF LoneUpdates
<1>5. ASSUME faults'.inactive = 0
      PROVE  \A s \in Router : /\ s > Peer(s) => ExchangeTurns(s)' /\ Transferred(s)'
                               /\ RequestsOpen(s)' /\ Fresh(s)'
  <2>1. /\ faults.inactive = 0 /\ ExchangeStep(r) /\ ~Surprised(r) /\ ~KillStep(r)
        /\ RequestStep(r) \/ (AcceptStep(r) /\ nbr[r].state = "EXCHANGE")
    BY <1>5, ActorUnsurprised
  <2>2. /\ RequestsOpen(r) /\ Fresh(r) /\ RequestsOpen(q) /\ Fresh(q)
        /\ r > q => ExchangeTurns(r) /\ Transferred(r)
        /\ q > r => ExchangeTurns(q) /\ Transferred(q)
    BY <1>1, <2>1 DEF BothWays, TransferInv
  <2>3. RequestsOpen(r)' /\ Fresh(r)'
    BY <1>2, <1>3, <2>1, <2>2, OwnOpen, OwnFresh
  <2>4. Fresh(q)'
    BY <1>2, <1>3, <2>2, PeerFresh
  <2>5. RequestsOpen(q)'
    BY <2>2 DEF OnlyActor, RequestsOpen
  <2>6. r > q => ExchangeTurns(r)' /\ Transferred(r)'
    <3> SUFFICES ASSUME r > q PROVE ExchangeTurns(r)' /\ Transferred(r)'
      OBVIOUS
    <3>1. ExchangeTurns(r)'
      BY <1>2, <2>1, <2>2, MasterTurns
    <3>2. Transferred(r)'
      BY <1>2, <2>1, <2>2, MasterTransfers
    <3>3. QED
      BY <3>1, <3>2
  <2>7. q > r => ExchangeTurns(q)' /\ Transferred(q)'
    <3> SUFFICES ASSUME q > r PROVE ExchangeTurns(q)' /\ Transferred(q)'
      OBVIOUS
    <3>1. ExchangeTurns(q)'
      BY <1>1, <1>2, <2>1, <2>2, SlaveTurns
    <3>2. Transferred(q)'
      BY <1>1, <1>2, <2>1, <2>2, SlaveTransfers
    <3>3. QED
      BY <3>1, <3>2
  <2>8. QED
    BY <1>1, <2>3, <2>4, <2>5, <2>6, <2>7
<1>6. TransferInv'
  BY <1>5 DEF TransferInv
<1>7. QED
  BY <1>4, <1>6

\* Time that passes keeps it.
LEMMA IdleTransfer ==
  ASSUME LoneUpdates, TransferInv, UNCHANGED <<nbr, lsdb, due, hand, chan, faults>>
  PROVE  LoneUpdates' /\ TransferInv'
<1>1. ASSUME NEW p \in Router
      PROVE  /\ Descriptions(p)' = Descriptions(p) /\ Answers(p)' = Answers(p)
             /\ (Exchanging(p)' <=> Exchanging(p)) /\ (Finished(p)' <=> Finished(p))
             /\ (InitialDue(p)' <=> InitialDue(p)) /\ (NextDue(p)' <=> NextDue(p))
             /\ Has(p)' = Has(p)
  BY DEF Descriptions, Answers, Exchanging, Finished, InitialDue, NextDue, Has
<1>2. ASSUME NEW p \in Router
      PROVE  /\ ExchangeTurns(p) => ExchangeTurns(p)'
             /\ Transferred(p) => Transferred(p)'
             /\ RequestsOpen(p) => RequestsOpen(p)'
             /\ Fresh(p) => Fresh(p)'
  <2>1. Peer(p) \in Router /\ Peer(Peer(p)) = p
    BY PeerProperties
  <2>2. (Opening(p) => Opening(p)') /\ (Turns(p) => Turns(p)') /\ (Ending(p) => Ending(p)')
    BY <1>1, <2>1 DEF Opening, Turns, Ending
  <2>3. ExchangeTurns(p) => ExchangeTurns(p)'
    BY <2>2 DEF ExchangeTurns
  <2>4. Transferred(p) => Transferred(p)'
    <3>1. \A h : /\ Brought(p, h) => Brought(p, h)'
                 /\ Brought(Peer(p), h) => Brought(Peer(p), h)'
      BY <1>1, <2>1 DEF Brought
    <3>2. QED
      BY <1>1, <2>1, <3>1 DEF Transferred
  <2>5. (RequestsOpen(p) => RequestsOpen(p)') /\ (Fresh(p) => Fresh(p)')
    BY <1>1 DEF RequestsOpen, Fresh
  <2>6. QED
    BY <2>3, <2>4, <2>5
<1>3. LoneUpdates'
  BY DEF LoneUpdates
<1>4. TransferInv'
  BY <1>2 DEF TransferInv
<1>5. QED
  BY <1>3, <1>4

\* The invariant is inductive.
LEMMA StepTransfer == BothWays /\ [Next]_vars => BothWays'
<1> SUFFICES ASSUME BothWays, [Next]_vars PROVE BothWays'
  OBVIOUS
<1>1. CoreInv' /\ ScopeInv' /\ ExchangeInv' /\ TypeOK
  BY StepCore, StepScope, StepExchange DEF BothWays, CoreInv
<1>2. CASE UNCHANGED vars \/ MinLSArrivalPasses
  <2>1. UNCHANGED <<nbr, lsdb, due, hand, chan, faults>>
    BY <1>2 DEF vars, MinLSArrivalPasses
  <2>2. LoneUpdates' /\ TransferInv'
    BY <2>1, IdleTransfer DEF BothWays
  <2>3. QED
    BY <1>1, <2>2 DEF BothWays
<1>3. ASSUME NEW r \in Router, Acts(r), OnlyActor(r), Effects(r) PROVE BothWays'
  <2>1. AtMost(lsdb[r], lsdb'[r])
    BY <1>1, DatabaseGrows
  <2>2. LoneUpdates' /\ TransferInv'
    BY <1>1, <1>3, <2>1, ActorTransfer
  <2>3. QED
    BY <1>1, <2>2 DEF BothWays
<1>4. QED
  BY <1>1, <1>2, <1>3, StepEffects

\* The invariant holds always.
THEOREM TransferInvariant == Spec => []BothWays
<1>1. Init => BothWays
  BY InitCore, InitScope, InitExchange, InitTransfer DEF BothWays
<1>2. QED
  BY <1>1, StepTransfer, PTL DEF Spec

-----------------------------------------------------------------------------
(* What follows                                                             *)

\* Until an inactivity timer expires, a router that is FULL has every LSA that the
\* neighbour originates, except those that a slave has not described yet
\* (ReceiveDatabaseDescriptionPacket, SendDatabaseDescriptionPacket), whatever is
\* lost, flooded or reoriginated meanwhile.
THEOREM DescribedIsKnown == Spec => [](faults.inactive = 0 => FullKnowsDescribed)
<1>1. ASSUME BothWays, faults.inactive = 0, NEW r \in Router, nbr[r].state = "FULL"
      PROVE  OwnLsas(Peer(r)) \subseteq Listed(lsdb[r]) \cup
               (IF r > Peer(r) THEN Listed(nbr[Peer(r)].summary) ELSE {})
  <2> DEFINE q == Peer(r)
  <2>1. /\ q \in Router /\ Peer(q) = r /\ (r > q \/ q > r) /\ ~(r > q /\ q > r)
        /\ nbr[r].seq \in Nat /\ nbr[q].seq \in Nat
    BY <1>1, PeerProperties, RouterAssumption DEF BothWays, CoreInv, TypeOK, Neighbor
  <2>2. Finished(r) /\ Has(r) = Listed(lsdb[r]) /\ Listed(NoHeaders) = {}
    <3>1. nbr[r].req = NoHeaders
      BY <1>1 DEF BothWays, TransferInv, RequestsOpen
    <3>2. QED
      BY <1>1, <3>1 DEF Finished, Has, Listed, NoHeaders
  <2>3. CASE r > q
    <3>1. ExchangeTurns(r) /\ Transferred(r)
      BY <1>1, <2>3 DEF BothWays, TransferInv
    <3>2. Finished(q) /\ nbr[q].seq = nbr[r].seq - 1
      BY <2>2, <3>1 DEF ExchangeTurns, Ending
    <3>3. Exchanging(q)
      BY <3>2 DEF Exchanging, Finished, Synchronizing
    <3>4. Brought(r, NoHeaders)
      BY <2>1, <3>1, <3>2, <3>3 DEF Transferred
    <3>5. QED
      BY <2>2, <2>3, <3>4 DEF Brought
  <2>4. CASE q > r
    <3>1. Transferred(q)
      BY <1>1, <2>1, <2>4 DEF BothWays, TransferInv
    <3>2. OwnLsas(q) \subseteq Has(r)
      BY <2>1, <2>2, <3>1 DEF Transferred
    <3>3. QED
      BY <2>2, <3>2
  <2>5. QED
    BY <2>1, <2>3, <2>4
<1>2. BothWays => (faults.inactive = 0 => FullKnowsDescribed)
  BY <1>1 DEF FullKnowsDescribed
<1>3. QED
  BY <1>2, TransferInvariant, PTL

\* Until an inactivity timer expires, no router goes back from the exchange, from LOADING
\* or from FULL: neither SEQ_NUM_MISMATCH nor BAD_LS_REQ is ever raised.
THEOREM NeverStartsAgain == Spec => SynchronizesOnce
<1> DEFINE Stays == faults'.inactive = 0 => \A p \in Router :
                      nbr[p].state \in Synchronizing => nbr'[p].state \in Synchronizing
<1>1. ASSUME BothWays, [Next]_vars, faults'.inactive = 0, NEW p \in Router,
             nbr[p].state \in Synchronizing
      PROVE  nbr'[p].state \in Synchronizing
  <2>1. CASE UNCHANGED vars \/ MinLSArrivalPasses
    BY <1>1, <2>1 DEF vars, MinLSArrivalPasses
  <2>2. ASSUME NEW r \in Router, Acts(r), OnlyActor(r) PROVE nbr'[p].state \in Synchronizing
    <3>1. CASE p = r
      <4>1. ExchangeStep(p) /\ ~Surprised(p) /\ ~KillStep(p)
        BY <1>1, <2>2, <3>1, ActorUnsurprised
      <4>2. ControlInv(p)
        BY <1>1 DEF BothWays, ExchangeInv
      <4>3. QED
        BY <1>1, <4>1, <4>2 DEF ExchangeStep, CalmStep, RestartStep, SendInitialStep, SameControl,
             SendNextStep, NegotiateStep, AcceptStep, Synchronizing
    <3>2. CASE p = Peer(r)
      BY <1>1, <2>2, <3>2 DEF OnlyActor
    <3>3. QED
      BY <3>1, <3>2, PeerProperties
  <2>3. TypeOK
    BY <1>1 DEF BothWays, CoreInv
  <2>4. QED
    BY <1>1, <2>1, <2>2, <2>3, StepEffects
<1>2. BothWays /\ [Next]_vars => [Stays]_vars
  BY <1>1
<1>3. QED
  BY <1>2, TransferInvariant, PTL DEF SynchronizesOnce, Spec
=============================================================================
