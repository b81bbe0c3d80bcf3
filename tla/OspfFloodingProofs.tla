------------------------- MODULE OspfFloodingProofs -------------------------
(***************************************************************************)
(* Proofs about the flooding procedure of OspfAdjacency over the link: what *)
(* the retransmission list covers, where the Link-LSAs of other links may   *)
(* go, and that the databases of the two routers replicate the LSAs of      *)
(* their originators.                                                       *)
(***************************************************************************)
EXTENDS OspfAdjacencyProofs

-----------------------------------------------------------------------------
(* The retransmission list                                                  *)

\* From n to m a neighbour that is FULL keeps its retransmission list, and one that
\* becomes FULL has all of p's own LSAs on it.
Fills(n, m, p) ==
  m.state = "FULL" => \/ OwnLsas(p) \subseteq m.rxmt
                      \/ n.state = "FULL" /\ n.rxmt \subseteq m.rxmt

\* From n to m the neighbour does not leave DOWN.
StaysDown(n, m) == m.known = n.known /\ (n.state = "DOWN" => m.state = "DOWN")

\* What is true of two events one after the other.
LEMMA FillsTwice ==
  ASSUME NEW p, NEW n, NEW m, NEW r
  PROVE  /\ Fills(n, m, p) /\ Fills(m, r, p) => Fills(n, r, p)
         /\ StaysDown(n, m) /\ StaysDown(m, r) => StaysDown(n, r)
BY DEF Fills, StaysDown

\* What each event does to the retransmission list.
LEMMA FillEvents ==
  ASSUME NEW n \in Neighbor, NEW p \in Router
  PROVE  /\ Fills(n, n, p) /\ StaysDown(n, n)
         /\ LET m == TwoWayReceived(HelloReceived(n)) IN Fills(n, m, p) /\ m.known = n.known
         /\ LET m == IncrementSequenceNumber(n)
            IN  Fills(n, m, p) /\ StaysDown(n, m) /\ m.state = n.state
         /\ LET m == ExchangeDone(n, p) IN Fills(n, m, p) /\ StaysDown(n, m)
         /\ LET m == RestartExchange(n) IN Fills(n, m, p) /\ StaysDown(n, m)
         /\ LET m == KillNbr(n) IN Fills(n, m, p) /\ StaysDown(n, m)
         /\ \A h : LET m == AddRequestList(n, h)
                  IN  Fills(n, m, p) /\ StaysDown(n, m) /\ m.state = n.state
         /\ \A ks : LET m == AddRxmtList(n, ks) IN Fills(n, m, p) /\ StaysDown(n, m)
         /\ \A ks : /\ StaysDown(n, RemoveFromRxmtList(n, ks))
                    /\ RemoveFromRxmtList(n, ks).state = n.state
                    /\ RemoveFromRxmtList(n, ks).rxmt = n.rxmt \ ks
         /\ \A k, v : LET m == AnswerRequest(n, p, k, v)
                      IN  Fills(n, m, p) /\ StaysDown(n, m)
<1>1. /\ Fills(n, n, p) /\ StaysDown(n, n)
      /\ LET m == IncrementSequenceNumber(n)
         IN  Fills(n, m, p) /\ StaysDown(n, m) /\ m.state = n.state
      /\ \A h : LET m == AddRequestList(n, h)
               IN  Fills(n, m, p) /\ StaysDown(n, m) /\ m.state = n.state
      /\ \A ks : LET m == AddRxmtList(n, ks) IN Fills(n, m, p) /\ StaysDown(n, m)
  BY DEF Fills, StaysDown, IncrementSequenceNumber, AddRequestList, AddRxmtList, Neighbor
<1>2. LET m == TwoWayReceived(HelloReceived(n)) IN Fills(n, m, p) /\ m.known = n.known
  BY DEF Fills, TwoWayReceived, HelloReceived, StartExchange, IncrementSequenceNumber,
         Neighbor, NeighborState
<1>3. ASSUME NEW r \in Neighbor, r.state # "DOWN"
      PROVE  Fills(r, EnterFull(r, p), p) /\ StaysDown(r, EnterFull(r, p))
  BY <1>3 DEF Fills, StaysDown, EnterFull, AddRxmtList, Neighbor
<1>4. LET m == ExchangeDone(n, p) IN Fills(n, m, p) /\ StaysDown(n, m)
  <2>1. CASE ExchangeDone(n, p) = n
    BY <1>1, <2>1
  <2>2. CASE n.state = "EXCHANGE" /\ ExchangeDone(n, p) = EnterFull(n, p)
    BY <1>3, <2>2
  <2>3. CASE n.state = "EXCHANGE" /\ ExchangeDone(n, p) = [n EXCEPT !.state = "LOADING"]
    BY <2>3 DEF Fills, StaysDown, Neighbor
  <2>4. QED
    BY <2>1, <2>2, <2>3 DEF ExchangeDone
<1>5. LET m == RestartExchange(n) IN Fills(n, m, p) /\ StaysDown(n, m)
  BY <1>1 DEF Fills, StaysDown, RestartExchange, StartExchange, IncrementSequenceNumber,
              ClearList, Synchronizing, Neighbor
<1>6. LET m == KillNbr(n) IN Fills(n, m, p) /\ StaysDown(n, m)
  BY DEF Fills, StaysDown, KillNbr, ClearList, Neighbor
<1>7. \A ks : /\ StaysDown(n, RemoveFromRxmtList(n, ks))
              /\ RemoveFromRxmtList(n, ks).state = n.state
              /\ RemoveFromRxmtList(n, ks).rxmt = n.rxmt \ ks
  BY DEF StaysDown, RemoveFromRxmtList, Neighbor
<1>8. ASSUME NEW k, NEW v
      PROVE  LET m == AnswerRequest(n, p, k, v) IN Fills(n, m, p) /\ StaysDown(n, m)
  <2> DEFINE r == RemoveFromRequestList(n, k)
  <2>1. r \in [known : BOOLEAN, state : NeighborState, master : BOOLEAN, seq : Nat,
               last : LastDD, rxmt : SUBSET Lsas, req : {r.req}, summary : Headers]
        /\ Fills(n, r, p) /\ StaysDown(n, r) /\ r.state = n.state
    BY DEF RemoveFromRequestList, Fills, StaysDown, Neighbor
  <2> HIDE DEF r
  <2>2. r.state = "LOADING" => Fills(r, EnterFull(r, p), p) /\ StaysDown(r, EnterFull(r, p))
    BY <2>1 DEF Fills, StaysDown, EnterFull, AddRxmtList
  <2>3. \/ AnswerRequest(n, p, k, v) = n
        \/ AnswerRequest(n, p, k, v) = r
        \/ r.state = "LOADING" /\ AnswerRequest(n, p, k, v) = EnterFull(r, p)
    <3>1. LoadingDone(r, p) = r \/ (r.state = "LOADING" /\ LoadingDone(r, p) = EnterFull(r, p))
      BY DEF LoadingDone
    <3>2. AnswerRequest(n, p, k, v) = n \/ AnswerRequest(n, p, k, v) = LoadingDone(r, p)
      BY Zenon DEF AnswerRequest, r
    <3>3. QED
      BY <3>1, <3>2
  <2>4. CASE AnswerRequest(n, p, k, v) = n
    BY <1>1, <2>4
  <2>5. CASE AnswerRequest(n, p, k, v) = r
    BY <2>1, <2>5
  <2>6. CASE r.state = "LOADING" /\ AnswerRequest(n, p, k, v) = EnterFull(r, p)
    BY <2>1, <2>2, <2>6, FillsTwice
  <2>7. QED
    BY <2>3, <2>4, <2>5, <2>6
<1>9. QED
  BY <1>1, <1>2, <1>4, <1>5, <1>6, <1>7, <1>8

\* The neighbour has said that it has p's instance of k.
Confirmed(p, k) ==
  \/ hand[p][k] = lsdb[p][k]
  \/ \E m \in Elements(chan[p]) : m.type = "Ack" /\ m.headers[k] = lsdb[p][k]

\* What a step of p leaves off the retransmission list was off it before and has not
\* changed since, or has been confirmed.
CoverStep(p) ==
  /\ nbr'[p].state # "DOWN" => nbr'[p].known
  /\ nbr'[p].state = "FULL" =>
       \A k \in OwnLsas(p) :
         \/ k \in nbr'[p].rxmt
         \/ /\ lsdb'[p][k] = lsdb[p][k]
            /\ (nbr[p].state = "FULL" /\ k \notin nbr[p].rxmt) \/ Confirmed(p, k)
         \/ hand[p][k] > lsdb[p][k]

KnownInv == \A p \in Router : nbr[p].state # "DOWN" => nbr[p].known

\* A step that fills the list and, while FULL, originates only what is on it.
LEMMA CoverIfFills ==
  ASSUME NEW p \in Router, KnownInv, Fills(nbr[p], nbr'[p], p),
         nbr'[p].known \/ StaysDown(nbr[p], nbr'[p]),
         nbr[p].state = "FULL" => \A k \in OwnLsas(p) :
           lsdb'[p][k] = lsdb[p][k] \/ k \in nbr'[p].rxmt
  PROVE  CoverStep(p)
BY DEF CoverStep, Fills, StaysDown, KnownInv

\* The instances that joining FULL originates, and one more re-origination.
LEMMA OriginatesIfFull ==
  ASSUME TypeOK, NEW p \in Router, NEW os, NEW js,
         lsdb' = [lsdb EXCEPT ![p] = Reoriginate(Reoriginate(lsdb[p], os), js)]
  PROVE  os = {} => \A k \in OwnLsas(p) \ js : lsdb'[p][k] = lsdb[p][k]
<1>1. OwnLsas(p) \subseteq Lsas
  BY HeadersTypes
<1>2. lsdb'[p] = Reoriginate(Reoriginate(lsdb[p], os), js)
  BY DEF TypeOK
<1>3. QED
  BY <1>1, <1>2 DEF Reoriginate

\* What handling a packet does to the retransmission list.
LEMMA ReceiveCover ==
  ASSUME TypeOK, KnownInv, NEW p \in Router, Receive(p)
  PROVE  CoverStep(p)
<1> DEFINE m == Head(chan[p])
<1>1. chan[p] # <<>>
  BY DEF Receive, Arrives, ReceiveHelloPacket, ReceiveDDIgnored, ReceiveDDNegotiate,
         ReceiveDDMismatch, ReceiveDDAsMaster, ReceiveDDAsSlave,
         ReceiveLinkStateRequestPacket, ReceiveLinkStateUpdatePacket,
         ReceiveLinkStateAckPacket
<1>2. m \in Message /\ m \in Elements(chan[p])
  BY <1>1, HeadPacket
<1>3. /\ nbr[p] \in Neighbor /\ Known(p) \in Neighbor
      /\ m.type = "DD" => NoteDD(p, m) \in Neighbor /\ Wanted(p, m.headers) \in Headers
      /\ lsdb[p] \in Headers
  BY <1>2, NoteDDTypes DEF TypeOK
<1>4. /\ Known(p).known = TRUE /\ Known(p).state = nbr[p].state /\ Known(p).rxmt = nbr[p].rxmt
      /\ NoteDD(p, m).known = TRUE /\ NoteDD(p, m).state = nbr[p].state
      /\ NoteDD(p, m).rxmt = nbr[p].rxmt
  BY NotedLists
<1>5. \A n : SetNbr(p, n) => nbr'[p] = n
  BY DEF SetNbr, TypeOK
<1>6. Fills(nbr[p], Known(p), p) /\ Fills(nbr[p], NoteDD(p, m), p)
  BY <1>4 DEF Fills
<1>7. ASSUME NEW n \in Neighbor, SetNbr(p, n), n.known = TRUE, Fills(nbr[p], n, p), lsdb' = lsdb
      PROVE  CoverStep(p)
  BY <1>5, <1>7, CoverIfFills
<1> HIDE DEF m
<1>8. CASE ReceiveHelloPacket(p)
  <2> DEFINE n == TwoWayReceived(HelloReceived(Known(p)))
  <2>1. SetNbr(p, n) /\ lsdb' = lsdb
    BY <1>8 DEF ReceiveHelloPacket
  <2>2. n \in Neighbor /\ Fills(Known(p), n, p) /\ n.known = TRUE
    BY <1>3, <1>4, NeighborTypes, FillEvents
  <2> HIDE DEF n
  <2>3. Fills(nbr[p], n, p)
    BY <1>6, <2>2, FillsTwice
  <2>4. QED
    BY <1>7, <2>1, <2>2, <2>3
<1>9. CASE ReceiveDDIgnored(p)
  <2>1. SetNbr(p, NoteDD(p, m)) /\ lsdb' = lsdb /\ m.type = "DD"
    BY <1>9 DEF ReceiveDDIgnored, Arrives, m
  <2>2. QED
    BY <1>3, <1>4, <1>6, <1>7, <2>1
<1>10. CASE ReceiveDDNegotiate(p)
  <2> DEFINE n == NoteDD(p, m)
             s == [n EXCEPT !.master = FALSE, !.seq = m.seq]
             t == [n EXCEPT !.master = TRUE]
  <2>1. m.type = "DD" /\ lsdb' = lsdb
    BY <1>10 DEF ReceiveDDNegotiate, Arrives, m
  <2>2. \/ SetNbr(p, NegotDone(s, p)) /\ n.state = "EXSTART"
        \/ SetNbr(p, IncrementSequenceNumber(NegotDone(t, p))) /\ n.state = "EXSTART"
    BY <1>10 DEF ReceiveDDNegotiate, AsSlave, AsMaster, m
  <2>3. /\ s \in Neighbor /\ s.state = n.state /\ s.known = n.known
        /\ t \in Neighbor /\ t.state = n.state /\ t.known = n.known
    BY <1>2, <1>3, <2>1, MessageTypes DEF Neighbor
  <2> HIDE DEF n, s, t
  <2>4. \A r \in Neighbor : r.state = "EXSTART" =>
          NegotDone(r, p).state = "EXCHANGE" /\ NegotDone(r, p).known = r.known
    BY DEF NegotDone, Neighbor
  <2>5. IncrementSequenceNumber(NegotDone(t, p)).state = NegotDone(t, p).state
        /\ IncrementSequenceNumber(NegotDone(t, p)).known = NegotDone(t, p).known
    <3>1. NegotDone(t, p) \in Neighbor
      BY <1>3, <2>3, NeighborTypes
    <3>2. QED
      BY <3>1 DEF IncrementSequenceNumber, Neighbor
  <2>6. nbr'[p].state = "EXCHANGE" /\ nbr'[p].known = n.known
    BY <1>5, <2>2, <2>3, <2>4, <2>5
  <2>7. QED
    BY <1>4, <2>6 DEF CoverStep, n
<1>11. CASE ReceiveDDMismatch(p)
  <2> DEFINE n == NoteDD(p, m)
             r == RestartExchange(n)
  <2>1. m.type = "DD" /\ lsdb' = lsdb /\ SetNbr(p, r)
    BY <1>11 DEF ReceiveDDMismatch, Arrives, m
  <2>2. n \in Neighbor /\ r \in Neighbor /\ Fills(n, r, p) /\ r.known = n.known
    BY <1>3, <2>1, NeighborTypes, FillEvents DEF StaysDown
  <2> HIDE DEF r
  <2>3. Fills(nbr[p], r, p) /\ r.known = TRUE
    BY <1>4, <1>6, <2>2, FillsTwice
  <2>4. QED
    BY <1>7, <2>1, <2>2, <2>3
<1>12. CASE ReceiveDDAsMaster(p)
  <2> DEFINE d == NoteDD(p, m)
             a == AddRequestList(d, Wanted(p, m.headers))
             n == IncrementSequenceNumber(a)
             r == IF m.more THEN n ELSE ExchangeDone(n, p)
  <2>1. /\ m.type = "DD" /\ SetNbr(p, r)
        /\ lsdb' = [lsdb EXCEPT ![p] = Reoriginate(@, OriginatedBy(n, r, p))]
    BY <1>12 DEF ReceiveDDAsMaster, Arrives, m
  <2>2. d \in Neighbor /\ a \in Neighbor /\ Fills(d, a, p) /\ a.known = d.known /\ a.state = d.state
    <3>1. d \in Neighbor /\ a \in Neighbor
      BY <1>3, <2>1, NeighborTypes
    <3> HIDE DEF d
    <3>2. QED
      BY <3>1, FillEvents DEF StaysDown
  <2> HIDE DEF d, a
  <2>3. n \in Neighbor /\ Fills(a, n, p) /\ n.known = a.known /\ n.state = a.state
    BY <1>3, <2>2, NeighborTypes, FillEvents DEF StaysDown
  <2> HIDE DEF n
  <2>4. Fills(n, r, p) /\ r.known = n.known
    BY <2>3, FillEvents DEF StaysDown
  <2> HIDE DEF r
  <2>5. nbr'[p] = r /\ r.known = TRUE /\ n.state = nbr[p].state
    BY <1>4, <1>5, <2>1, <2>2, <2>3, <2>4 DEF d
  <2>6. Fills(nbr[p], r, p)
    BY <1>6, <2>2, <2>3, <2>4, FillsTwice DEF d
  <2>7. nbr[p].state = "FULL" => OriginatedBy(n, r, p) = {}
    BY <2>5 DEF OriginatedBy, BecomesFull
  <2>8. nbr[p].state = "FULL" => \A k \in OwnLsas(p) : lsdb'[p][k] = lsdb[p][k]
    BY <2>1, <2>7, HeadersTypes DEF TypeOK, Reoriginate
  <2>9. QED
    BY <2>5, <2>6, <2>8, CoverIfFills
<1>13. CASE ReceiveDDAsSlave(p)
  <2> DEFINE d == NoteDD(p, m)
             a == AddRequestList(d, Wanted(p, m.headers))
             n == [a EXCEPT !.seq = m.seq]
             r == ExchangeDone(n, p)
             own == {RouterLsa(p)}
  <2>1. /\ m.type = "DD"
        /\ \/ SetNbr(p, n) /\ lsdb' = lsdb
           \/ /\ SetNbr(p, AddRxmtList(r, own))
              /\ lsdb' = [lsdb EXCEPT ![p] =
                            Reoriginate(Reoriginate(@, OriginatedBy(n, r, p)), own)]
    BY <1>13 DEF ReceiveDDAsSlave, Arrives, m
  <2>2. d \in Neighbor /\ a \in Neighbor /\ Fills(d, a, p) /\ a.known = d.known /\ a.state = d.state
    <3>1. d \in Neighbor /\ a \in Neighbor
      BY <1>3, <2>1, NeighborTypes
    <3> HIDE DEF d
    <3>2. QED
      BY <3>1, FillEvents DEF StaysDown
  <2> HIDE DEF d, a
  <2>3. n \in Neighbor /\ Fills(a, n, p) /\ n.known = a.known /\ n.state = a.state
    BY <1>2, <2>1, <2>2, MessageTypes DEF Fills, Neighbor
  <2> HIDE DEF n
  <2>4. r \in Neighbor /\ Fills(n, r, p) /\ r.known = n.known
    BY <1>3, <2>3, NeighborTypes, FillEvents DEF StaysDown
  <2>5. n.known = TRUE /\ n.state = nbr[p].state /\ Fills(nbr[p], n, p) /\ Fills(nbr[p], r, p)
    BY <1>4, <1>6, <2>2, <2>3, <2>4, FillsTwice DEF d
  <2>6. CASE SetNbr(p, n) /\ lsdb' = lsdb
    BY <1>7, <2>3, <2>5, <2>6
  <2>7. CASE /\ SetNbr(p, AddRxmtList(r, own))
             /\ lsdb' = [lsdb EXCEPT ![p] =
                           Reoriginate(Reoriginate(@, OriginatedBy(n, r, p)), own)]
    <3> HIDE DEF r
    <3>1. /\ nbr'[p] = AddRxmtList(r, own) /\ Fills(r, nbr'[p], p) /\ nbr'[p].known = TRUE
          /\ own \subseteq nbr'[p].rxmt
      BY <1>5, <2>4, <2>5, <2>7, FillEvents DEF StaysDown, AddRxmtList, Neighbor
    <3>2. Fills(nbr[p], nbr'[p], p)
      BY <2>5, <3>1, FillsTwice
    <3>3. nbr[p].state = "FULL" => \A k \in OwnLsas(p) \ own : lsdb'[p][k] = lsdb[p][k]
      <4> DEFINE os == OriginatedBy(n, r, p)
      <4>1. nbr[p].state = "FULL" => os = {}
        BY <2>5 DEF OriginatedBy, BecomesFull
      <4>2. lsdb' = [lsdb EXCEPT ![p] = Reoriginate(Reoriginate(lsdb[p], os), own)]
        BY <2>7
      <4> HIDE DEF own, os
      <4>3. os = {} => \A k \in OwnLsas(p) \ own : lsdb'[p][k] = lsdb[p][k]
        BY <4>2, OriginatesIfFull
      <4>4. QED
        BY <4>1, <4>3
    <3>4. QED
      BY <3>1, <3>2, <3>3, CoverIfFills
  <2>8. QED
    BY <2>1, <2>6, <2>7
<1>14. CASE ReceiveLinkStateRequestPacket(p)
  <2> DEFINE r == RestartExchange(Known(p))
  <2>1. lsdb' = lsdb /\ (SetNbr(p, Known(p)) \/ SetNbr(p, r))
    BY <1>14, Zenon DEF ReceiveLinkStateRequestPacket
  <2>2. r \in Neighbor /\ Fills(Known(p), r, p) /\ r.known = TRUE
    BY <1>3, <1>4, NeighborTypes, FillEvents DEF StaysDown
  <2> HIDE DEF r
  <2>3. Fills(nbr[p], r, p)
    BY <1>6, <2>2, FillsTwice
  <2>4. QED
    BY <1>3, <1>4, <1>6, <1>7, <2>1, <2>2, <2>3
<1>15. CASE ReceiveLinkStateUpdatePacket(p)
  <2>1. lsdb' = lsdb /\ SetNbr(p, Known(p))
    BY <1>15 DEF ReceiveLinkStateUpdatePacket
  <2>2. QED
    BY <1>3, <1>4, <1>6, <1>7, <2>1
<1>16. CASE ReceiveLinkStateAckPacket(p)
  <2> DEFINE h == m.headers
             r == RemoveFromRxmtList(Known(p), Acked(p, h))
  <2>1. lsdb' = lsdb /\ m.type = "Ack" /\ (SetNbr(p, Known(p)) \/ SetNbr(p, r))
    BY <1>16, Zenon DEF ReceiveLinkStateAckPacket, Arrives, m
  <2>2. CASE SetNbr(p, Known(p))
    BY <1>3, <1>4, <1>6, <1>7, <2>1, <2>2
  <2>3. CASE SetNbr(p, r)
    <3>1. /\ nbr'[p] = r /\ r.known = TRUE /\ r.state = nbr[p].state
          /\ r.rxmt = nbr[p].rxmt \ Acked(p, h)
      BY <1>3, <1>4, <1>5, <2>3, FillEvents DEF StaysDown
    <3>2. \A k \in Acked(p, h) : Confirmed(p, k)
      BY <1>2, <2>1 DEF Acked, Confirmed
    <3>3. QED
      BY <2>1, <3>1, <3>2 DEF CoverStep
  <2>4. QED
    BY <2>1, <2>2, <2>3
<1>17. QED
  BY <1>8, <1>9, <1>10, <1>11, <1>12, <1>13, <1>14, <1>15, <1>16 DEF Receive

\* An LSA k that p installs in version v, and takes off the retransmission list, is not
\* p's own unless v is newer than p's own instance.
LEMMA InstallCover ==
  ASSUME TypeOK, KnownInv, NEW p \in Router, NEW m \in Neighbor, NEW k \in Lsas, NEW v,
         Fills(nbr[p], m, p), StaysDown(nbr[p], m),
         SetNbr(p, RemoveFromRxmtList(m, {k})),
         lsdb' = [lsdb EXCEPT ![p] =
                    [Reoriginate(lsdb[p], OriginatedBy(nbr[p], m, p)) EXCEPT ![k] = v]],
         k \in OwnLsas(p) => hand[p][k] > lsdb[p][k]
  PROVE  CoverStep(p)
<1> DEFINE r == RemoveFromRxmtList(m, {k})
           os == OriginatedBy(nbr[p], m, p)
<1>1. nbr'[p] = r
  BY DEF SetNbr, TypeOK
<1>2. StaysDown(m, r) /\ r.state = m.state /\ r.rxmt = m.rxmt \ {k}
  BY FillEvents
<1>3. nbr[p].state = "FULL" => os = {}
  BY DEF OriginatedBy, BecomesFull
<1>4. lsdb'[p] = [Reoriginate(lsdb[p], os) EXCEPT ![k] = v]
  BY DEF TypeOK
<1> HIDE DEF r, os
<1>5. \A j \in Lsas \ {k} : os = {} => lsdb'[p][j] = lsdb[p][j]
  BY <1>4 DEF Reoriginate
<1>6. nbr'[p].state # "DOWN" => nbr'[p].known
  BY <1>1, <1>2 DEF StaysDown, KnownInv
<1>7. OwnLsas(p) \subseteq Lsas
  BY HeadersTypes
<1>8. QED
  BY <1>1, <1>2, <1>3, <1>5, <1>6, <1>7 DEF CoverStep, Fills

\* What handling an LSA of an update does to the retransmission list.
LEMMA HandleLSACover ==
  ASSUME TypeOK, KnownInv, NEW p \in Router, HandleLSA(p)
  PROVE  CoverStep(p)
<1>1. nbr[p] \in Neighbor /\ hand[p] \in Headers
  BY DEF TypeOK
<1>2. PICK k \in Listed(hand[p]) :
        \/ InstallLSA(p, k) \/ DropEarlyLSA(p, k) \/ BadLSRequest(p, k)
        \/ AnswerOldLSA(p, k) \/ SameLSA(p, k)
  BY DEF HandleLSA
<1>3. k \in Lsas
  BY <1>1 DEF Listed
<1>4. \A n : SetNbr(p, n) => nbr'[p] = n
  BY DEF SetNbr, TypeOK
<1>5. CASE InstallLSA(p, k)
  <2> DEFINE m == AnswerRequest(nbr[p], p, k, hand[p][k])
  <2>1. /\ SetNbr(p, RemoveFromRxmtList(m, {k})) /\ hand[p][k] > lsdb[p][k]
        /\ lsdb' = [lsdb EXCEPT ![p] =
             [Reoriginate(lsdb[p], OriginatedBy(nbr[p], m, p)) EXCEPT ![k] = hand[p][k]]]
    BY <1>5 DEF InstallLSA, MoreRecent
  <2>2. m \in Neighbor /\ Fills(nbr[p], m, p) /\ StaysDown(nbr[p], m)
    BY <1>1, <1>3, NoteDDTypes, FillEvents
  <2> HIDE DEF m
  <2>3. QED
    BY <1>3, <2>1, <2>2, InstallCover
<1>6. CASE DropEarlyLSA(p, k) \/ BadLSRequest(p, k) \/ AnswerOldLSA(p, k)
  <2>1. /\ lsdb' = lsdb
        /\ \/ nbr' = nbr
           \/ SetNbr(p, RestartExchange(nbr[p]))
           \/ SetNbr(p, AddRxmtList(nbr[p], {k}))
           \/ SetNbr(p, nbr[p])
    BY <1>6 DEF DropEarlyLSA, BadLSRequest, AnswerOldLSA
  <2>2. Fills(nbr[p], nbr'[p], p) /\ StaysDown(nbr[p], nbr'[p])
    BY <1>1, <1>4, <2>1, FillEvents
  <2>3. QED
    BY <2>1, <2>2, CoverIfFills
<1>7. CASE SameLSA(p, k)
  <2>1. /\ lsdb' = lsdb /\ Confirmed(p, k)
        /\ nbr' = nbr \/ SetNbr(p, RemoveFromRxmtList(nbr[p], {k}))
    BY <1>7 DEF SameLSA, Confirmed
  <2>2. CASE nbr' = nbr
    <3>1. Fills(nbr[p], nbr'[p], p) /\ StaysDown(nbr[p], nbr'[p])
      BY <1>1, <2>2, FillEvents
    <3>2. QED
      BY <2>1, <3>1, CoverIfFills
  <2>3. CASE SetNbr(p, RemoveFromRxmtList(nbr[p], {k}))
    <3>1. /\ StaysDown(nbr[p], nbr'[p]) /\ nbr'[p].state = nbr[p].state
          /\ nbr'[p].rxmt = nbr[p].rxmt \ {k}
      BY <1>1, <1>4, <2>3, FillEvents
    <3>2. QED
      BY <2>1, <3>1 DEF CoverStep, StaysDown, KnownInv
  <2>4. QED
    BY <2>1, <2>2, <2>3
<1>8. QED
  BY <1>2, <1>5, <1>6, <1>7

\* What the scheduled calls, the timers, the losses and the other links do to it.
LEMMA OtherCover ==
  ASSUME TypeOK, KnownInv, NEW p \in Router,
         \/ RunDue(p)
         \/ SendHelloPacket(p) \/ LSRTimer(p) \/ ClearLastPacket(p) \/ EntryPointTimer(p)
         \/ InactivityTimer(p) \/ Lose(p) \/ ForeignUpdate(p) \/ OriginateElsewhere(p)
  PROVE  CoverStep(p)
<1>1. nbr[p] \in Neighbor
  BY DEF TypeOK
<1>2. \A n : SetNbr(p, n) => nbr'[p] = n
  BY DEF SetNbr, TypeOK
<1>3. ASSUME Fills(nbr[p], nbr'[p], p), StaysDown(nbr[p], nbr'[p]), lsdb' = lsdb
      PROVE  CoverStep(p)
  BY <1>3, CoverIfFills
<1>4. CASE RunDue(p)
  <2>1. /\ lsdb' = lsdb
        /\ nbr' = nbr \/ \E h : SetNbr(p, [nbr[p] EXCEPT !.summary = h])
    BY <1>4, Zenon DEF RunDue, SendInitialDD, SendDD, SendLSR, SendLSUDirect, EntryPoint
  <2>2. \A h : LET m == [nbr[p] EXCEPT !.summary = h]
               IN  Fills(nbr[p], m, p) /\ StaysDown(nbr[p], m)
    BY <1>1 DEF Fills, StaysDown, Neighbor
  <2>3. Fills(nbr[p], nbr[p], p) /\ StaysDown(nbr[p], nbr[p])
    BY <1>1, FillEvents
  <2>4. QED
    BY <1>2, <1>3, <2>1, <2>2, <2>3
<1>5. CASE \/ SendHelloPacket(p) \/ LSRTimer(p) \/ EntryPointTimer(p) \/ Lose(p)
           \/ ClearLastPacket(p) \/ InactivityTimer(p)
  <2>1. /\ lsdb' = lsdb
        /\ \/ nbr' = nbr
           \/ SetNbr(p, [nbr[p] EXCEPT !.last = NoDD])
           \/ SetNbr(p, KillNbr(nbr[p]))
    BY <1>5, Zenon DEF SendHelloPacket, LSRTimer, EntryPointTimer, Lose, ClearLastPacket,
         InactivityTimer
  <2>2. LET m == [nbr[p] EXCEPT !.last = NoDD] IN Fills(nbr[p], m, p) /\ StaysDown(nbr[p], m)
    BY <1>1 DEF Fills, StaysDown, Neighbor
  <2>3. /\ Fills(nbr[p], nbr[p], p) /\ StaysDown(nbr[p], nbr[p])
        /\ Fills(nbr[p], KillNbr(nbr[p]), p) /\ StaysDown(nbr[p], KillNbr(nbr[p]))
    BY <1>1, FillEvents
  <2>4. QED
    BY <1>2, <1>3, <2>1, <2>2, <2>3
<1>6. CASE ForeignUpdate(p)
  <2>1. PICK k, v, m :
          /\ k \in Foreign
          /\ m = nbr[p] \/ m = AnswerRequest(nbr[p], p, k, v)
          /\ SetNbr(p, RemoveFromRxmtList(m, {k}))
          /\ lsdb' = [lsdb EXCEPT ![p] =
               [Reoriginate(lsdb[p], OriginatedBy(nbr[p], m, p)) EXCEPT ![k] = v]]
    BY <1>6 DEF ForeignUpdate
  <2>2. k \in Lsas /\ k \notin OwnLsas(p)
    BY <2>1, OwnLsasDisjoint DEF Lsas
  <2>3. m \in Neighbor /\ Fills(nbr[p], m, p) /\ StaysDown(nbr[p], m)
    BY <1>1, <2>1, <2>2, NoteDDTypes, FillEvents
  <2>4. QED
    BY <2>1, <2>2, <2>3, InstallCover
<1>7. CASE OriginateElsewhere(p)
  <2> DEFINE ks == OwnLsas(p) \ {<<"link", p>>}
  <2>1. /\ SetNbr(p, IF nbr[p].known THEN AddRxmtList(nbr[p], ks) ELSE nbr[p])
        /\ lsdb' = [lsdb EXCEPT ![p] = Reoriginate(@, ks)]
    BY <1>7 DEF OriginateElsewhere
  <2> HIDE DEF ks
  <2>2. lsdb'[p] = Reoriginate(lsdb[p], ks)
    BY <2>1 DEF TypeOK
  <2>3. \A k \in OwnLsas(p) \ ks : lsdb'[p][k] = lsdb[p][k]
    BY <2>2, HeadersTypes DEF Reoriginate
  <2>4. CASE nbr[p].known
    <3>1. nbr'[p] = AddRxmtList(nbr[p], ks)
      BY <1>2, <2>1, <2>4
    <3>2. /\ Fills(nbr[p], nbr'[p], p) /\ StaysDown(nbr[p], nbr'[p]) /\ ks \subseteq nbr'[p].rxmt
      BY <1>1, <3>1, FillEvents DEF AddRxmtList, Neighbor
    <3>3. QED
      BY <2>3, <3>2, CoverIfFills
  <2>5. CASE ~nbr[p].known
    <3>1. nbr'[p] = nbr[p] /\ nbr[p].state = "DOWN"
      BY <1>2, <2>1, <2>5 DEF KnownInv
    <3>2. QED
      BY <3>1 DEF CoverStep
  <2>6. QED
    BY <2>4, <2>5
<1>8. QED
  BY <1>4, <1>5, <1>6, <1>7

\* The invariant of the retransmission list: what the neighbour record says of its lists
\* counts only for neighbours that have been heard of.
CoverInv == CoreInv /\ KnownInv /\ OwnLsaCovered

\* No router has a neighbour at the start.
LEMMA InitCover == Init => CoverInv
<1> SUFFICES ASSUME Init PROVE KnownInv /\ OwnLsaCovered
  BY InitCore DEF CoverInv
<1>1. ASSUME NEW p \in Router PROVE nbr[p].state = "DOWN"
  BY DEF Init, FreshNeighbor
<1>2. QED
  BY <1>1 DEF KnownInv, OwnLsaCovered

\* What has been confirmed to p is in the neighbour's database.
LEMMA ConfirmedHolds ==
  ASSUME CoreInv, NEW p \in Router, NEW k \in OwnLsas(p)
  PROVE  /\ Confirmed(p, k) => lsdb[Peer(p)][k] = lsdb[p][k]
         /\ ~(hand[p][k] > lsdb[p][k])
<1> DEFINE q == Peer(p)
<1>1. q \in Router /\ Peer(q) = p /\ k \in Lsas
  BY PeerProperties, HeadersTypes
<1>2. lsdb[p][k] \in Nat /\ lsdb[q][k] \in Nat /\ hand[p][k] \in Nat
  BY <1>1 DEF CoreInv, TypeOK, Headers
<1>3. lsdb[q][k] <= lsdb[p][k]
  BY DEF CoreInv, CopiesNotAhead
<1>4. /\ hand[p][k] <= lsdb[q][k]
      /\ \A m \in Elements(chan[p]) : m.type = "Ack" => m.headers[k] <= lsdb[q][k]
  BY <1>1, BackedForms DEF CoreInv, BackedBy, AtMost
<1>5. QED
  BY <1>2, <1>3, <1>4 DEF Confirmed

\* Every step preserves the invariant.
LEMMA StepCover == CoverInv /\ [Next]_vars => CoverInv'
<1> SUFFICES ASSUME CoverInv, [Next]_vars PROVE CoverInv'
  OBVIOUS
<1>1. TypeOK /\ CoreInv /\ CoreInv' /\ KnownInv
  BY StepCore DEF CoverInv, CoreInv
<1>2. CASE UNCHANGED vars \/ MinLSArrivalPasses
  <2>1. UNCHANGED <<nbr, lsdb>>
    BY <1>2 DEF vars, MinLSArrivalPasses
  <2>2. QED
    BY <1>1, <2>1 DEF CoverInv, KnownInv, OwnLsaCovered
<1>3. ASSUME NEW p \in Router, OnlyActor(p), Acts(p) PROVE CoverInv'
  <2> DEFINE q == Peer(p)
  <2>1. /\ q \in Router /\ Peer(q) = p /\ (\A r \in Router : r = p \/ r = q)
        /\ nbr'[q] = nbr[q] /\ lsdb'[q] = lsdb[q]
    BY <1>3, PeerProperties DEF OnlyActor
  <2>2. CoverStep(p)
    BY <1>1, <1>3, ReceiveCover, HandleLSACover, OtherCover DEF Acts
  <2>3. ASSUME nbr'[p].state = "FULL", NEW k \in OwnLsas(p)
        PROVE  k \in nbr'[p].rxmt \/ lsdb'[q][k] = lsdb'[p][k]
    BY <1>1, <2>1, <2>2, <2>3, ConfirmedHolds DEF CoverStep, CoverInv, OwnLsaCovered
  <2>4. ASSUME nbr'[q].state = "FULL", NEW k \in OwnLsas(q)
        PROVE  k \in nbr'[q].rxmt \/ lsdb'[p][k] = lsdb'[q][k]
    <3>1. k \in nbr[q].rxmt \/ lsdb[p][k] = lsdb[q][k]
      BY <2>1, <2>4 DEF CoverInv, OwnLsaCovered
    <3>2. lsdb[p][k] <= lsdb'[p][k] /\ lsdb'[p][k] <= lsdb'[q][k]
      <4>1. AtMost(lsdb[p], lsdb'[p])
        BY <1>1, DatabaseGrows
      <4>2. CopiesNotAhead'
        BY <1>1 DEF CoreInv
      <4>3. QED
        BY <2>1, <4>1, <4>2, HeadersTypes DEF AtMost, CopiesNotAhead
    <3>3. lsdb[p][k] \in Nat /\ lsdb'[p][k] \in Nat
      <4>1. lsdb[p] \in Headers /\ lsdb'[p] \in Headers /\ k \in Lsas
        BY <1>1, <2>1, HeadersTypes DEF CoreInv, TypeOK
      <4>2. QED
        BY <4>1 DEF Headers
    <3>4. QED
      BY <2>1, <3>1, <3>2, <3>3
  <2>5. KnownInv'
    BY <2>1, <2>2 DEF CoverStep, CoverInv, KnownInv
  <2>6. OwnLsaCovered'
    BY <2>1, <2>3, <2>4 DEF OwnLsaCovered
  <2>7. QED
    BY <1>1, <2>5, <2>6 DEF CoverInv
<1>4. QED
  BY <1>1, <1>2, <1>3, StepEffects

\* Flooding of a router's own LSAs is reliable while it is FULL: whatever is lost or
\* dropped as too early, and whatever acknowledgments of older instances arrive, the
\* neighbour has the instance or it is still to be retransmitted (AppendToRxmtList,
\* RemoveFromRxmtList, ReceiveLinkStateAckPacket).
THEOREM OwnLsasAlwaysCovered == Spec => []OwnLsaCovered
<1>1. CoverInv => OwnLsaCovered
  BY DEF CoverInv
<1>2. QED
  BY <1>1, InitCover, StepCover, PTL DEF Spec

-----------------------------------------------------------------------------
(* Link-LSAs of other links                                                 *)

\* A list without any Link-LSA of another link.
Free(h) == \A k \in OffLink : h[k] = 0
Scoped(n) == Free(n.summary) /\ Free(n.req) /\ n.rxmt \cap OffLink = {}
ScopedCalls(cs) == \A c \in Elements(cs) : c.call = "SendLSU" => Free(c.headers)
ScopedPacket(m) ==
  /\ m.type \in {"DD", "LSU", "Ack"} => Free(m.headers)
  /\ m.type = "LSR" => m.ids \cap OffLink = {}

\* What p keeps for this link is free of them, and so is its database if p has no
\* other link.
ScopedRouter(p) ==
  /\ Scoped(nbr[p]) /\ ScopedCalls(due[p]) /\ Free(hand[p])
  /\ p \notin Transit => Free(lsdb[p])

ScopeInv ==
  \A p \in Router : ScopedRouter(p) /\ \A m \in Elements(chan[p]) : ScopedPacket(m)

\* What a step of p adds to what p keeps and to the link is free of them.
ScopeStep(p) ==
  /\ ScopedRouter(p)'
  /\ \A m \in Elements(chan'[Peer(p)]) : m \in Elements(chan[Peer(p)]) \/ ScopedPacket(m)

\* The lists that are built from others.
LEMMA FreeLists ==
  /\ OffLink \subseteq Lsas
  /\ Free(NoHeaders)
  /\ \A h : Free(Pick(h, Describable))
  /\ \A h, ks : ks \cap OffLink = {} => Free(Pick(h, ks))
  /\ \A h, ks : Free(h) => Free(Pick(h, ks))
  /\ \A h, k, v : k \notin OffLink => Free([NoHeaders EXCEPT ![k] = v])
  /\ \A h : Free(h) <=> Listed(h) \cap OffLink = {}
  /\ \A p \in Router : OwnLsas(p) \cap OffLink = {}
  /\ \A h : \A p \in Router : \A ks \in SUBSET OwnLsas(p) : Free(h) => Free(Reoriginate(h, ks))
<1>1. OffLink \subseteq Lsas
  BY LsaAssumption DEF Lsas
<1>2. \A p \in Router : OwnLsas(p) \cap OffLink = {}
  BY LsaAssumption, OwnLsasDisjoint
<1>3. QED
  BY <1>1, <1>2 DEF Free, NoHeaders, Pick, Describable, Listed, Reoriginate

\* No event puts one of them on a list of the neighbour.
LEMMA ScopedEvents ==
  ASSUME NEW n \in Neighbor, NEW p \in Router, Scoped(n)
  PROVE  /\ Scoped(TwoWayReceived(HelloReceived(n)))
         /\ Scoped(IncrementSequenceNumber(n))
         /\ Scoped(NegotDone(n, p))
         /\ Scoped(ExchangeDone(n, p))
         /\ Scoped(RestartExchange(n))
         /\ Scoped(KillNbr(n))
         /\ \A h : Free(h) => Scoped(AddRequestList(n, h))
         /\ \A ks : ks \cap OffLink = {} => Scoped(AddRxmtList(n, ks))
         /\ \A ks : Scoped(RemoveFromRxmtList(n, ks))
         /\ \A k, v : Scoped(AnswerRequest(n, p, k, v))
<1>1. OffLink \subseteq Lsas /\ Free(NoHeaders) /\ OwnLsas(p) \cap OffLink = {}
      /\ Free(Pick(lsdb[p], Describable))
  BY FreeLists
<1>2. /\ Scoped(TwoWayReceived(HelloReceived(n)))
      /\ Scoped(IncrementSequenceNumber(n))
  BY DEF Scoped, TwoWayReceived, HelloReceived, StartExchange, IncrementSequenceNumber, Neighbor
<1>3. Scoped(NegotDone(n, p))
  BY <1>1 DEF Scoped, NegotDone, Neighbor
<1>4. /\ \A h : Free(h) => Scoped(AddRequestList(n, h))
      /\ \A ks : ks \cap OffLink = {} => Scoped(AddRxmtList(n, ks))
      /\ \A ks : Scoped(RemoveFromRxmtList(n, ks))
  BY <1>1 DEF Scoped, Free, AddRequestList, AddRxmtList, RemoveFromRxmtList, Neighbor
<1>5. Scoped(RestartExchange(n)) /\ Scoped(KillNbr(n))
  <2>1. ASSUME NEW s \in NeighborState
        PROVE  LET m == ClearList([n EXCEPT !.state = s]) IN m \in Neighbor /\ Scoped(m)
    BY <1>1, HeadersTypes DEF Scoped, ClearList, Neighbor
  <2>2. ASSUME NEW m \in Neighbor, Scoped(m) PROVE Scoped(StartExchange(m))
    BY <2>2 DEF Scoped, StartExchange, IncrementSequenceNumber, Neighbor
  <2>3. "EXSTART" \in NeighborState /\ "DOWN" \in NeighborState
    BY DEF NeighborState
  <2>4. Scoped(StartExchange(ClearList([n EXCEPT !.state = "EXSTART"])))
    BY <2>1, <2>2, <2>3
  <2>5. QED
    BY <2>1, <2>3, <2>4 DEF RestartExchange, KillNbr
<1>6. ASSUME NEW m, m.rxmt \cap OffLink = {}, Free(m.summary), Free(m.req),
             m \in [known : BOOLEAN, state : NeighborState, master : BOOLEAN, seq : Nat,
                    last : LastDD, rxmt : SUBSET Lsas, req : {m.req}, summary : Headers]
      PROVE  Scoped(EnterFull(m, p)) /\ Scoped([m EXCEPT !.state = "LOADING"])
  BY <1>1, <1>6 DEF Scoped, EnterFull, AddRxmtList
<1>7. Scoped(ExchangeDone(n, p))
  <2>1. Scoped(EnterFull(n, p)) /\ Scoped([n EXCEPT !.state = "LOADING"])
    BY <1>6 DEF Scoped, Neighbor
  <2>2. QED
    BY <2>1 DEF ExchangeDone
<1>8. ASSUME NEW k, NEW v PROVE Scoped(AnswerRequest(n, p, k, v))
  <2> DEFINE r == RemoveFromRequestList(n, k)
  <2>1. /\ r \in [known : BOOLEAN, state : NeighborState, master : BOOLEAN, seq : Nat,
                  last : LastDD, rxmt : SUBSET Lsas, req : {r.req}, summary : Headers]
        /\ r.rxmt = n.rxmt /\ r.summary = n.summary /\ r.req = [n.req EXCEPT ![k] = 0]
    BY DEF RemoveFromRequestList, Neighbor
  <2>2. Free(r.req)
    BY <1>1, <2>1 DEF Free, Scoped, Neighbor, Headers
  <2> HIDE DEF r
  <2>3. Scoped(r) /\ Scoped(EnterFull(r, p))
    BY <1>6, <2>1, <2>2 DEF Scoped
  <2>4. AnswerRequest(n, p, k, v) = n \/ AnswerRequest(n, p, k, v) = LoadingDone(r, p)
    BY Zenon DEF AnswerRequest, r
  <2>5. QED
    BY <2>3, <2>4 DEF LoadingDone
<1>9. QED
  BY <1>2, <1>3, <1>4, <1>5, <1>7, <1>8

\* The calls that an event schedules send none of them.
LEMMA ScopedSchedules ==
  ASSUME TypeOK, NEW p \in Router, ScopedCalls(due[p])
  PROVE  /\ \A n, r : Schedule(p, EventCalls(n, r)) => ScopedCalls(due'[p])
         /\ \A n, r : Schedule(p, Append(EventCalls(n, r), EntryPointCall)) => ScopedCalls(due'[p])
         /\ Schedule(p, <<SendDDCall(FALSE)>>) => ScopedCalls(due'[p])
         /\ \A n, r : Schedule(p, <<SendDDCall(FALSE)>> \o EventCalls(n, r)) => ScopedCalls(due'[p])
         /\ \A h \in Headers : Free(h) /\ Schedule(p, <<SendLSUCall(h)>>) => ScopedCalls(due'[p])
         /\ due[p] # <<>> /\ due' = [due EXCEPT ![p] = Tail(@)] => ScopedCalls(due'[p])
<1>1. \A cs \in Seq(DueCall) : Schedule(p, cs) /\ ScopedCalls(cs) => ScopedCalls(due'[p])
  BY QueueEffects DEF ScopedCalls
<1>2. \A n, r : EventCalls(n, r) \in Seq(DueCall) /\ ScopedCalls(EventCalls(n, r))
  BY EventCallElements, DueCallTypes DEF ScopedCalls
<1>3. ASSUME NEW n, NEW r
      PROVE  LET cs == Append(EventCalls(n, r), EntryPointCall)
             IN  cs \in Seq(DueCall) /\ ScopedCalls(cs)
  <2> DEFINE e == EventCalls(n, r)
  <2>1. e \in Seq(DueCall) /\ ScopedCalls(e) /\ EntryPointCall \in DueCall
    BY <1>2, DueCallTypes
  <2> HIDE DEF e
  <2>2. /\ Append(e, EntryPointCall) \in Seq(DueCall)
        /\ Elements(Append(e, EntryPointCall)) = Elements(e) \cup {EntryPointCall}
    BY <2>1, QueueElements
  <2>3. EntryPointCall.call # "SendLSU"
    BY DEF EntryPointCall
  <2>4. QED
    BY <2>1, <2>2, <2>3 DEF ScopedCalls, e
<1>4. ASSUME NEW c \in DueCall, c.call = "SendLSU" => Free(c.headers)
      PROVE  <<c>> \in Seq(DueCall) /\ ScopedCalls(<<c>>)
  BY <1>4, OneElement DEF ScopedCalls
<1>5. SendDDCall(FALSE) \in DueCall /\ SendDDCall(FALSE).call # "SendLSU"
  BY DueCallTypes DEF SendDDCall
<1>6. <<SendDDCall(FALSE)>> \in Seq(DueCall) /\ ScopedCalls(<<SendDDCall(FALSE)>>)
  BY <1>4, <1>5
<1>7. ASSUME NEW n, NEW r
      PROVE  LET cs == <<SendDDCall(FALSE)>> \o EventCalls(n, r)
             IN  cs \in Seq(DueCall) /\ ScopedCalls(cs)
  <2> DEFINE e == EventCalls(n, r)
             d == <<SendDDCall(FALSE)>>
  <2>1. e \in Seq(DueCall) /\ ScopedCalls(e) /\ d \in Seq(DueCall) /\ ScopedCalls(d)
    BY <1>2, <1>6
  <2> HIDE DEF e, d
  <2>2. d \o e \in Seq(DueCall) /\ Elements(d \o e) = Elements(d) \cup Elements(e)
    BY <2>1, QueueElements
  <2>3. QED
    BY <2>1, <2>2 DEF ScopedCalls, e, d
<1>8. ASSUME NEW h \in Headers, Free(h)
      PROVE  <<SendLSUCall(h)>> \in Seq(DueCall) /\ ScopedCalls(<<SendLSUCall(h)>>)
  <2>1. SendLSUCall(h) \in DueCall /\ SendLSUCall(h).headers = h
    BY DueCallTypes DEF SendLSUCall
  <2>2. QED
    BY <1>4, <1>8, <2>1
<1>9. due[p] # <<>> /\ due' = [due EXCEPT ![p] = Tail(@)] => ScopedCalls(due'[p])
  BY QueueEffects DEF ScopedCalls
<1>10. QED
  BY <1>1, <1>2, <1>3, <1>6, <1>7, <1>8, <1>9

\* Handling a packet adds none of them.
LEMMA ReceiveScope ==
  ASSUME TypeOK, ScopeInv, NEW p \in Router, Receive(p)
  PROVE  ScopeStep(p)
<1> DEFINE m == Head(chan[p])
<1>1. chan[p] # <<>> /\ Consume(p)
  BY DEF Receive, Arrives, ReceiveHelloPacket, ReceiveDDIgnored, ReceiveDDNegotiate,
         ReceiveDDMismatch, ReceiveDDAsMaster, ReceiveDDAsSlave,
         ReceiveLinkStateRequestPacket, ReceiveLinkStateUpdatePacket,
         ReceiveLinkStateAckPacket
<1>2. m \in Message /\ ScopedPacket(m)
  <2>1. m \in Message /\ m \in Elements(chan[p])
    BY <1>1, HeadPacket
  <2>2. QED
    BY <2>1 DEF ScopeInv
<1>3. /\ nbr[p] \in Neighbor /\ Known(p) \in Neighbor
      /\ m.type = "DD" => NoteDD(p, m) \in Neighbor /\ Wanted(p, m.headers) \in Headers
      /\ lsdb[p] \in Headers
  BY <1>2, NoteDDTypes DEF TypeOK
<1>4. /\ Scoped(nbr[p]) /\ ScopedCalls(due[p]) /\ Free(hand[p])
      /\ p \notin Transit => Free(lsdb[p])
  BY DEF ScopeInv, ScopedRouter
<1>5. Scoped(Known(p)) /\ Scoped(NoteDD(p, m))
  BY <1>3, <1>4 DEF Scoped, Known, NoteDD, Neighbor
<1>6. chan'[Peer(p)] = chan[Peer(p)]
  BY <1>1, QueueEffects
<1> HIDE DEF m
<1>7. m.type = "DD" => Free(Wanted(p, m.headers))
  <2>1. OffLink \subseteq Lsas
    BY FreeLists
  <2>2. m.type = "DD" => Free(m.headers)
    BY <1>2 DEF ScopedPacket
  <2>3. QED
    BY <2>1, <2>2 DEF Wanted, Free
<1>8. Free(hand'[p])
  <2>1. CASE ReceiveLinkStateUpdatePacket(p)
    <3>1. /\ m.type = "LSU"
          /\ hand' = [hand EXCEPT ![p] = IF nbr[p].state \in Synchronizing THEN m.headers ELSE @]
      BY <2>1 DEF ReceiveLinkStateUpdatePacket, Arrives, m
    <3>2. hand'[p] = hand[p] \/ hand'[p] = m.headers
      BY <3>1 DEF TypeOK
    <3>3. Free(m.headers)
      BY <1>2, <3>1 DEF ScopedPacket
    <3>4. QED
      BY <1>4, <3>2, <3>3
  <2>2. CASE hand' = hand
    BY <1>4, <2>2
  <2>3. QED
    BY <2>1, <2>2 DEF Receive, ReceiveHelloPacket, ReceiveDDIgnored, ReceiveDDNegotiate,
         ReceiveDDMismatch, ReceiveDDAsMaster, ReceiveDDAsSlave,
         ReceiveLinkStateRequestPacket, ReceiveLinkStateAckPacket
<1>9. p \notin Transit => Free(lsdb'[p])
  <2>1. \A h : \A ks \in SUBSET OwnLsas(p) : Free(h) => Free(Reoriginate(h, ks))
    BY FreeLists
  <2>2. \A n, r : OriginatedBy(n, r, p) \in SUBSET OwnLsas(p)
    BY DEF OriginatedBy
  <2>3. CASE ReceiveDDAsMaster(p)
    <3>1. PICK n, r : lsdb' = [lsdb EXCEPT ![p] = Reoriginate(@, OriginatedBy(n, r, p))]
      BY <2>3, Zenon DEF ReceiveDDAsMaster
    <3>2. lsdb'[p] = Reoriginate(lsdb[p], OriginatedBy(n, r, p))
      BY <3>1 DEF TypeOK
    <3>3. QED
      BY <1>4, <2>1, <2>2, <3>2
  <2>4. CASE ReceiveDDAsSlave(p)
    <3>1. \/ lsdb' = lsdb
          \/ \E n, r : lsdb' = [lsdb EXCEPT ![p] =
               Reoriginate(Reoriginate(@, OriginatedBy(n, r, p)), {RouterLsa(p)})]
      BY <2>4, Zenon DEF ReceiveDDAsSlave
    <3>2. CASE lsdb' = lsdb
      BY <1>4, <3>2
    <3>3. CASE \E n, r : lsdb' = [lsdb EXCEPT ![p] =
                 Reoriginate(Reoriginate(@, OriginatedBy(n, r, p)), {RouterLsa(p)})]
      <4>1. PICK n, r : lsdb' = [lsdb EXCEPT ![p] =
              Reoriginate(Reoriginate(@, OriginatedBy(n, r, p)), {RouterLsa(p)})]
        BY <3>3
      <4>2. lsdb'[p] = Reoriginate(Reoriginate(lsdb[p], OriginatedBy(n, r, p)), {RouterLsa(p)})
        BY <4>1 DEF TypeOK
      <4>3. {RouterLsa(p)} \in SUBSET OwnLsas(p)
        BY HeadersTypes
      <4>4. Free(lsdb[p]) => Free(Reoriginate(lsdb[p], OriginatedBy(n, r, p)))
        BY <2>1, <2>2
      <4>5. QED
        BY <1>4, <2>1, <4>2, <4>3, <4>4
    <3>4. QED
      BY <3>1, <3>2, <3>3
  <2>5. CASE lsdb' = lsdb
    BY <1>4, <2>5
  <2>6. QED
    BY <2>3, <2>4, <2>5 DEF Receive, ReceiveHelloPacket, ReceiveDDIgnored, ReceiveDDNegotiate,
         ReceiveDDMismatch, ReceiveLinkStateRequestPacket, ReceiveLinkStateUpdatePacket,
         ReceiveLinkStateAckPacket
<1>10. ScopedCalls(due'[p])
  <2>1. CASE ReceiveLinkStateRequestPacket(p)
    <3>1. /\ m.type = "LSR"
          /\ \/ Schedule(p, <<SendLSUCall(Pick(lsdb[p], m.ids))>>)
             \/ \E n, r : Schedule(p, EventCalls(n, r))
      BY <2>1, Zenon DEF ReceiveLinkStateRequestPacket, Arrives, m
    <3>2. Free(Pick(lsdb[p], m.ids)) /\ Pick(lsdb[p], m.ids) \in Headers
      BY <1>2, <1>3, <3>1, FreeLists, HeadersTypes DEF ScopedPacket
    <3>3. QED
      BY <1>4, <3>1, <3>2, ScopedSchedules
  <2>2. CASE ReceiveHelloPacket(p)
    BY <1>4, <2>2, ScopedSchedules DEF ReceiveHelloPacket
  <2>3. CASE \/ ReceiveDDNegotiate(p) \/ ReceiveDDMismatch(p) \/ ReceiveDDAsMaster(p)
             \/ ReceiveDDAsSlave(p)
    <3>1. \/ Schedule(p, <<SendDDCall(FALSE)>>)
          \/ \E n, r : \/ Schedule(p, EventCalls(n, r))
                       \/ Schedule(p, <<SendDDCall(FALSE)>> \o EventCalls(n, r))
      BY <2>3, Zenon DEF ReceiveDDNegotiate, ReceiveDDMismatch, ReceiveDDAsMaster,
           ReceiveDDAsSlave
    <3>2. QED
      BY <1>4, <3>1, ScopedSchedules
  <2>4. CASE due' = due
    BY <1>4, <2>4
  <2>5. QED
    BY <2>1, <2>2, <2>3, <2>4 DEF Receive, ReceiveDDIgnored, ReceiveLinkStateUpdatePacket,
         ReceiveLinkStateAckPacket
<1>11. Scoped(nbr'[p])
  <2>1. \A n : SetNbr(p, n) => nbr'[p] = n
    BY DEF SetNbr, TypeOK
  <2>2. CASE ReceiveHelloPacket(p)
    <3>1. Scoped(TwoWayReceived(HelloReceived(Known(p))))
      BY <1>3, <1>5, ScopedEvents
    <3>2. QED
      BY <2>1, <2>2, <3>1 DEF ReceiveHelloPacket
  <2>3. CASE ReceiveLinkStateRequestPacket(p)
    <3>1. SetNbr(p, Known(p)) \/ SetNbr(p, RestartExchange(Known(p)))
      BY <2>3, Zenon DEF ReceiveLinkStateRequestPacket
    <3>2. Scoped(RestartExchange(Known(p)))
      BY <1>3, <1>5, ScopedEvents
    <3>3. QED
      BY <1>5, <2>1, <3>1, <3>2
  <2>4. CASE ReceiveLinkStateUpdatePacket(p) \/ ReceiveLinkStateAckPacket(p)
    <3>1. SetNbr(p, Known(p)) \/ \E ks : SetNbr(p, RemoveFromRxmtList(Known(p), ks))
      BY <2>4, Zenon DEF ReceiveLinkStateUpdatePacket, ReceiveLinkStateAckPacket
    <3>2. \A ks : Scoped(RemoveFromRxmtList(Known(p), ks))
      BY <1>3, <1>5, ScopedEvents
    <3>3. QED
      BY <1>5, <2>1, <3>1, <3>2
  <2>5. CASE ReceiveDDIgnored(p) \/ ReceiveDDMismatch(p)
    <3>1. /\ m.type = "DD"
          /\ SetNbr(p, NoteDD(p, m)) \/ SetNbr(p, RestartExchange(NoteDD(p, m)))
      BY <2>5, Zenon DEF ReceiveDDIgnored, ReceiveDDMismatch, Arrives, m
    <3>2. Scoped(RestartExchange(NoteDD(p, m)))
      BY <1>3, <1>5, <3>1, ScopedEvents
    <3>3. QED
      BY <1>5, <2>1, <3>1, <3>2
  <2>6. CASE ReceiveDDNegotiate(p)
    <3> DEFINE n == NoteDD(p, m)
               s == [n EXCEPT !.master = FALSE, !.seq = m.seq]
               t == [n EXCEPT !.master = TRUE]
    <3>1. /\ m.type = "DD"
          /\ \/ SetNbr(p, NegotDone(s, p))
             \/ SetNbr(p, IncrementSequenceNumber(NegotDone(t, p)))
      BY <2>6 DEF ReceiveDDNegotiate, Arrives, m
    <3>2. m.seq \in Nat /\ n \in Neighbor /\ Scoped(n)
      BY <1>2, <1>3, <1>5, <3>1, MessageTypes
    <3> HIDE DEF n
    <3>3. s \in Neighbor /\ t \in Neighbor /\ Scoped(s) /\ Scoped(t)
      BY <3>2 DEF Scoped, Neighbor
    <3> HIDE DEF s, t
    <3>4. Scoped(NegotDone(s, p)) /\ Scoped(NegotDone(t, p)) /\ NegotDone(t, p) \in Neighbor
      BY <1>3, <3>3, NeighborTypes, ScopedEvents
    <3>5. Scoped(IncrementSequenceNumber(NegotDone(t, p)))
      BY <3>4, ScopedEvents
    <3>6. QED
      BY <2>1, <3>1, <3>4, <3>5
  <2>7. CASE ReceiveDDAsMaster(p) \/ ReceiveDDAsSlave(p)
    <3> DEFINE a == AddRequestList(NoteDD(p, m), Wanted(p, m.headers))
               t == IncrementSequenceNumber(a)
               s == [a EXCEPT !.seq = m.seq]
    <3>1. m.type = "DD" /\ m.seq \in Nat
      BY <1>2, <2>7, MessageTypes DEF ReceiveDDAsMaster, ReceiveDDAsSlave, Arrives, m
    <3>2. \/ SetNbr(p, t) \/ SetNbr(p, ExchangeDone(t, p))
          \/ SetNbr(p, s) \/ SetNbr(p, AddRxmtList(ExchangeDone(s, p), {RouterLsa(p)}))
      BY <2>7 DEF ReceiveDDAsMaster, ReceiveDDAsSlave, m
    <3>3. a \in Neighbor /\ Scoped(a)
      <4>1. a \in Neighbor
        BY <1>3, <3>1, NeighborTypes
      <4>2. Scoped(a)
        BY <1>3, <1>5, <1>7, <3>1, ScopedEvents
      <4>3. QED
        BY <4>1, <4>2
    <3> HIDE DEF a
    <3>4. s \in Neighbor /\ Scoped(s)
      BY <3>1, <3>3 DEF Scoped, Neighbor
    <3>5. t \in Neighbor /\ Scoped(t)
      BY <1>3, <3>3, NeighborTypes, ScopedEvents
    <3> HIDE DEF s, t
    <3>6. /\ Scoped(ExchangeDone(t, p)) /\ Scoped(ExchangeDone(s, p))
          /\ ExchangeDone(s, p) \in Neighbor
      BY <1>3, <3>4, <3>5, NeighborTypes, ScopedEvents
    <3>7. {RouterLsa(p)} \cap OffLink = {}
      BY FreeLists, HeadersTypes
    <3>8. Scoped(AddRxmtList(ExchangeDone(s, p), {RouterLsa(p)}))
      BY <3>6, <3>7, ScopedEvents
    <3>9. QED
      BY <2>1, <3>2, <3>4, <3>5, <3>6, <3>8
  <2>8. QED
    BY <2>2, <2>3, <2>4, <2>5, <2>6, <2>7 DEF Receive
<1>12. QED
  BY <1>6, <1>8, <1>9, <1>10, <1>11 DEF ScopeStep, ScopedRouter

\* The calls made by ScheduleNow send none of them.
LEMMA RunDueScope ==
  ASSUME TypeOK, ScopeInv, NEW p \in Router, RunDue(p)
  PROVE  ScopeStep(p)
<1>1. due[p] # <<>> /\ due' = [due EXCEPT ![p] = Tail(@)] /\ lsdb' = lsdb /\ hand' = hand
  BY DEF RunDue, SendInitialDD, SendDD, SendLSR, SendLSUDirect, EntryPoint
<1>2. /\ Scoped(nbr[p]) /\ ScopedCalls(due[p]) /\ Free(hand[p])
      /\ p \notin Transit => Free(lsdb[p])
  BY DEF ScopeInv, ScopedRouter
<1>3. nbr[p] \in Neighbor /\ lsdb[p] \in Headers
  BY DEF TypeOK
<1>4. ScopedCalls(due'[p])
  BY <1>1, <1>2, ScopedSchedules
<1>5. ASSUME NEW m \in Message, chan' = chan \/ Send(p, m), ScopedPacket(m), Scoped(nbr'[p])
      PROVE  ScopeStep(p)
  <2>1. Elements(chan'[Peer(p)]) \subseteq Elements(chan[Peer(p)]) \cup {m}
    <3>1. CASE chan' = chan
      BY <3>1
    <3>2. CASE Send(p, m)
      BY <1>5, <3>2, QueueEffects
    <3>3. QED
      BY <1>5, <3>1, <3>2
  <2>2. ScopedRouter(p)'
    BY <1>1, <1>2, <1>4, <1>5 DEF ScopedRouter
  <2>3. \A c \in Elements(chan'[Peer(p)]) : c \in Elements(chan[Peer(p)]) \/ ScopedPacket(c)
    BY <1>5, <2>1
  <2>4. QED
    BY <2>2, <2>3 DEF ScopeStep
<1>6. CASE SendInitialDD(p)
  <2> DEFINE m == [type |-> "DD", init |-> TRUE, more |-> TRUE, master |-> TRUE,
                   seq |-> nbr[p].seq, headers |-> NoHeaders]
  <2>1. m \in Message
    BY <1>3, HeadersTypes, MessageTypes DEF Neighbor
  <2>2. Send(p, m) /\ nbr' = nbr
    BY <1>6 DEF SendInitialDD
  <2>3. ScopedPacket(m)
    BY FreeLists DEF ScopedPacket
  <2> HIDE DEF m
  <2>4. QED
    BY <1>2, <1>5, <2>1, <2>2, <2>3
<1>7. CASE SendDD(p)
  <2>1. PICK ks \in NextSummary(nbr[p]), shared \in BOOLEAN :
          /\ SetNbr(p, [nbr[p] EXCEPT !.summary = Pick(@, Lsas \ ks)])
          /\ Send(p, [type |-> "DD", init |-> FALSE,
                      more |-> IF nbr[p].master THEN nbr[p].summary # NoHeaders
                                                ELSE nbr[p].last.more,
                      master |-> nbr[p].master, seq |-> nbr[p].seq,
                      headers |-> Described(p, ks, shared)])
    BY <1>7 DEF SendDD
  <2> DEFINE h == Described(p, ks, shared)
             more == IF nbr[p].master THEN nbr[p].summary # NoHeaders ELSE nbr[p].last.more
             m == [type |-> "DD", init |-> FALSE, more |-> more,
                   master |-> nbr[p].master, seq |-> nbr[p].seq, headers |-> h]
  <2>2. h \in Headers
    BY <1>3 DEF Described, Neighbor, Headers
  <2>3. Free(h)
    BY <1>2, FreeLists DEF Described, Scoped, Free
  <2>4. nbr[p].master \in BOOLEAN /\ nbr[p].seq \in Nat /\ more \in BOOLEAN
    BY <1>3 DEF Neighbor, LastDD
  <2>5. Send(p, m)
    BY <2>1
  <2> HIDE DEF h, more
  <2>6. m \in Message /\ ScopedPacket(m)
    BY <2>2, <2>3, <2>4, MessageTypes DEF ScopedPacket
  <2> HIDE DEF m
  <2>7. nbr'[p] = [nbr[p] EXCEPT !.summary = Pick(@, Lsas \ ks)]
    BY <2>1 DEF SetNbr, TypeOK
  <2>8. Free(Pick(nbr[p].summary, Lsas \ ks))
    BY <1>2, FreeLists DEF Scoped
  <2>9. Scoped(nbr'[p])
    BY <1>2, <1>3, <2>7, <2>8 DEF Scoped, Neighbor
  <2>10. QED
    BY <1>5, <2>5, <2>6, <2>9
<1>8. CASE SendLSR(p)
  <2> DEFINE m == [type |-> "LSR", ids |-> Listed(nbr[p].req)]
  <2>1. (chan' = chan \/ Send(p, m)) /\ nbr' = nbr
    BY <1>8 DEF SendLSR
  <2>2. m \in Message
    BY <1>3, HeadersTypes, MessageTypes DEF Neighbor
  <2>3. ScopedPacket(m)
    BY <1>2, FreeLists DEF ScopedPacket, Scoped
  <2> HIDE DEF m
  <2>4. QED
    BY <1>2, <1>5, <2>1, <2>2, <2>3
<1>9. CASE SendLSUDirect(p)
  <2> DEFINE c == Head(due[p])
             h == Current(p, c.headers)
             m == [type |-> "LSU", headers |-> h]
  <2>1. c \in DueCall /\ c \in Elements(due[p]) /\ c.call = "SendLSU"
    BY <1>1, <1>9, HeadCall DEF SendLSUDirect
  <2>2. c.headers \in Headers /\ Free(c.headers)
    BY <1>2, <2>1, DueCallTypes DEF ScopedCalls
  <2>3. Send(p, m) /\ nbr' = nbr
    BY <1>9 DEF SendLSUDirect
  <2>4. h \in Headers /\ Free(h)
    <3> HIDE DEF c
    <3>1. QED
      BY <1>3, <2>2, FreeLists DEF Current, Headers, Free
  <2> HIDE DEF h
  <2>5. m \in Message /\ ScopedPacket(m)
    BY <2>4, MessageTypes DEF ScopedPacket
  <2> HIDE DEF m
  <2>6. QED
    BY <1>2, <1>5, <2>3, <2>5
<1>10. CASE EntryPoint(p)
  <2> DEFINE h == Pick(lsdb[p], nbr[p].rxmt)
             m == [type |-> "LSU", headers |-> h]
  <2>1. (chan' = chan \/ Send(p, m)) /\ nbr' = nbr
    BY <1>10 DEF EntryPoint, SendRxmtList
  <2>2. h \in Headers /\ Free(h)
    BY <1>2, <1>3, FreeLists, HeadersTypes DEF Scoped
  <2> HIDE DEF h
  <2>3. m \in Message /\ ScopedPacket(m)
    BY <2>2, MessageTypes DEF ScopedPacket
  <2> HIDE DEF m
  <2>4. QED
    BY <1>2, <1>5, <2>1, <2>3
<1>11. QED
  BY <1>6, <1>7, <1>8, <1>9, <1>10 DEF RunDue

\* Nor does handling the LSAs of an update: an LSA that goes on to the link or on a
\* list came from the link.
LEMMA HandleLSAScope ==
  ASSUME TypeOK, ScopeInv, NEW p \in Router, HandleLSA(p)
  PROVE  ScopeStep(p)
<1>1. nbr[p] \in Neighbor /\ lsdb[p] \in Headers /\ hand[p] \in Headers
  BY DEF TypeOK
<1>2. PICK k \in Listed(hand[p]) :
        \/ InstallLSA(p, k) \/ DropEarlyLSA(p, k) \/ BadLSRequest(p, k)
        \/ AnswerOldLSA(p, k) \/ SameLSA(p, k)
  BY DEF HandleLSA
<1>3. /\ Scoped(nbr[p]) /\ ScopedCalls(due[p]) /\ Free(hand[p])
      /\ p \notin Transit => Free(lsdb[p])
  BY DEF ScopeInv, ScopedRouter
<1>4. k \in Lsas /\ hand[p][k] \in Nat /\ k \notin OffLink
  BY <1>1, <1>3, FreeLists DEF Listed, Headers
<1>5. Free(hand'[p])
  <2>1. Done(p, k) \/ hand' = [hand EXCEPT ![p] = NoHeaders]
    BY <1>2 DEF InstallLSA, DropEarlyLSA, BadLSRequest, AnswerOldLSA, SameLSA
  <2>2. CASE Done(p, k)
    <3>1. hand'[p] = [hand[p] EXCEPT ![k] = 0]
      BY <2>2 DEF Done, TypeOK
    <3>2. QED
      BY <1>1, <1>3, <3>1, FreeLists DEF Free, Headers
  <2>3. CASE hand' = [hand EXCEPT ![p] = NoHeaders]
    BY <2>3, FreeLists DEF TypeOK
  <2>4. QED
    BY <2>1, <2>2, <2>3
<1>6. ScopedCalls(due'[p])
  <2>1. due' = due \/ \E n, r : Schedule(p, EventCalls(n, r))
    BY <1>2, Zenon DEF InstallLSA, DropEarlyLSA, BadLSRequest, AnswerOldLSA, SameLSA
  <2>2. QED
    BY <1>3, <2>1, ScopedSchedules
<1>7. \A n : SetNbr(p, n) => nbr'[p] = n
  BY DEF SetNbr, TypeOK
<1>8. ASSUME Scoped(nbr'[p]), p \notin Transit => Free(lsdb'[p]),
             \A c \in Elements(chan'[Peer(p)]) : c \in Elements(chan[Peer(p)]) \/ ScopedPacket(c)
      PROVE  ScopeStep(p)
  BY <1>5, <1>6, <1>8 DEF ScopeStep, ScopedRouter
<1>9. CASE InstallLSA(p, k)
  <2> DEFINE v == hand[p][k]
             m == AnswerRequest(nbr[p], p, k, v)
             db == Reoriginate(lsdb[p], OriginatedBy(nbr[p], m, p))
             own == k \in OwnLsas(p)
  <2>1. Scoped(nbr'[p])
    <3>1. m \in Neighbor /\ Scoped(m)
      BY <1>1, <1>3, <1>4, NoteDDTypes, ScopedEvents
    <3>2. SetNbr(p, RemoveFromRxmtList(m, {k}))
      BY <1>9 DEF InstallLSA
    <3> HIDE DEF m
    <3>3. Scoped(RemoveFromRxmtList(m, {k}))
      BY <3>1, ScopedEvents
    <3>4. QED
      BY <1>7, <3>2, <3>3
  <2>2. p \notin Transit => Free(lsdb'[p])
    <3>1. lsdb' = [lsdb EXCEPT ![p] = [db EXCEPT ![k] = v]]
      BY <1>9 DEF InstallLSA
    <3>2. OriginatedBy(nbr[p], m, p) \in SUBSET OwnLsas(p)
      BY DEF OriginatedBy
    <3>3. p \notin Transit => Free(db)
      BY <1>3, <3>2, FreeLists
    <3> HIDE DEF db, v
    <3>4. lsdb'[p] = [db EXCEPT ![k] = v]
      BY <3>1 DEF TypeOK
    <3>5. \A j \in OffLink : lsdb'[p][j] = db[j]
      <4>1. DOMAIN db = Lsas
        BY DEF db, Reoriginate
      <4>2. QED
        BY <1>4, <3>4, <4>1, FreeLists
    <3>6. QED
      BY <3>3, <3>5 DEF Free
  <2>3. \A c \in Elements(chan'[Peer(p)]) : c \in Elements(chan[Peer(p)]) \/ ScopedPacket(c)
    <3> DEFINE a == FloodPacket(k, v)
               b == FloodPacket(k, v + 1)
               q == chan[Peer(p)]
               extra == IF own THEN <<b>> ELSE <<>>
    <3>1. chan' = [chan EXCEPT ![Peer(p)] = q \o <<a>> \o extra]
      BY <1>9 DEF InstallLSA
    <3>2. a \in Message /\ b \in Message
      BY <1>4, HeadersTypes, MessageTypes DEF FloodPacket
    <3>3. q \in Seq(Message) /\ chan'[Peer(p)] = q \o <<a>> \o extra
      <4>1. chan \in [Router -> Seq(Message)] /\ Peer(p) \in Router
        BY PeerProperties DEF TypeOK
      <4>2. QED
        BY <3>1, <4>1
    <3>4. ScopedPacket(a) /\ ScopedPacket(b)
      BY <1>4, FreeLists DEF FloodPacket, ScopedPacket
    <3> HIDE DEF a, b, q
    <3>5. /\ <<a>> \in Seq(Message) /\ Elements(<<a>>) = {a}
          /\ <<b>> \in Seq(Message) /\ Elements(<<b>>) = {b}
      BY <3>2, OneElement
    <3>6. extra \in Seq(Message) /\ Elements(extra) \subseteq {b}
      <4>1. CASE own
        BY <3>5, <4>1
      <4>2. CASE ~own
        BY <4>2, EmptySeq DEF Elements
      <4>3. QED
        BY <4>1, <4>2
    <3> HIDE DEF extra
    <3>7. q \o <<a>> \in Seq(Message) /\ Elements(q \o <<a>>) = Elements(q) \cup {a}
      <4> DEFINE t == <<a>>
      <4>1. t \in Seq(Message) /\ Elements(t) = {a} /\ q \in Seq(Message)
        BY <3>3, <3>5
      <4> HIDE DEF t
      <4>2. q \o t \in Seq(Message) /\ Elements(q \o t) = Elements(q) \cup Elements(t)
        BY <4>1, QueueElements
      <4>3. QED
        BY <4>1, <4>2 DEF t
    <3> DEFINE r == q \o <<a>>
    <3>8. Elements(chan'[Peer(p)]) = Elements(q) \cup {a} \cup Elements(extra)
      <4>1. r \in Seq(Message) /\ Elements(r) = Elements(q) \cup {a}
        BY <3>7
      <4>2. chan'[Peer(p)] = r \o extra
        BY <3>3
      <4> HIDE DEF r
      <4>3. Elements(r \o extra) = Elements(r) \cup Elements(extra)
        BY <3>6, <4>1, QueueElements
      <4>4. QED
        BY <4>1, <4>2, <4>3
    <3> DEFINE e == chan'[Peer(p)]
    <3>9. Elements(e) = Elements(q) \cup {a} \cup Elements(extra)
      BY <3>8
    <3> HIDE DEF e
    <3>10. \A c \in Elements(e) : c \in Elements(q) \/ ScopedPacket(c)
      BY <3>4, <3>6, <3>9
    <3>11. QED
      BY <3>10 DEF q, e
  <2>4. QED
    BY <1>8, <2>1, <2>2, <2>3
<1>10. CASE DropEarlyLSA(p, k)
  BY <1>3, <1>8, <1>10 DEF DropEarlyLSA
<1>11. CASE BadLSRequest(p, k)
  <2>1. SetNbr(p, RestartExchange(nbr[p])) /\ lsdb' = lsdb /\ chan' = chan
    BY <1>11 DEF BadLSRequest
  <2>2. Scoped(RestartExchange(nbr[p]))
    BY <1>1, <1>3, ScopedEvents
  <2>3. QED
    BY <1>3, <1>7, <1>8, <2>1, <2>2
<1>12. CASE AnswerOldLSA(p, k)
  <2>1. /\ SetNbr(p, AddRxmtList(nbr[p], {k})) \/ SetNbr(p, nbr[p])
        /\ lsdb' = lsdb /\ chan' = chan
    BY <1>12 DEF AnswerOldLSA
  <2>2. Scoped(AddRxmtList(nbr[p], {k}))
    BY <1>1, <1>3, <1>4, ScopedEvents
  <2>3. Scoped(nbr'[p])
    BY <1>3, <1>7, <2>1, <2>2
  <2>4. QED
    BY <1>3, <1>8, <2>1, <2>3
<1>13. CASE SameLSA(p, k)
  <2> DEFINE a == [type |-> "Ack", headers |-> Pick(lsdb[p], {k})]
  <2>1. /\ lsdb' = lsdb
        /\ nbr' = nbr \/ SetNbr(p, RemoveFromRxmtList(nbr[p], {k}))
        /\ chan' = chan \/ Send(p, a)
    BY <1>13 DEF SameLSA
  <2>2. Scoped(nbr'[p])
    <3>1. Scoped(RemoveFromRxmtList(nbr[p], {k}))
      BY <1>1, <1>3, ScopedEvents
    <3>2. QED
      BY <1>3, <1>7, <2>1, <3>1
  <2>3. a \in Message /\ ScopedPacket(a)
    <3>1. Pick(lsdb[p], {k}) \in Headers /\ Free(Pick(lsdb[p], {k}))
      BY <1>1, <1>4, FreeLists, HeadersTypes
    <3>2. QED
      BY <3>1, MessageTypes DEF ScopedPacket
  <2> HIDE DEF a
  <2>4. Elements(chan'[Peer(p)]) \subseteq Elements(chan[Peer(p)]) \cup {a}
    <3>1. CASE chan' = chan
      BY <3>1
    <3>2. CASE Send(p, a)
      BY <2>3, <3>2, QueueEffects
    <3>3. QED
      BY <2>1, <3>1, <3>2
  <2>5. QED
    BY <1>3, <1>8, <2>1, <2>2, <2>3, <2>4
<1>14. QED
  BY <1>2, <1>9, <1>10, <1>11, <1>12, <1>13

\* Nor do the timers, the link and the other links of the router.
LEMMA OtherScope ==
  ASSUME TypeOK, ScopeInv, NEW p \in Router,
         \/ SendHelloPacket(p) \/ LSRTimer(p) \/ ClearLastPacket(p) \/ EntryPointTimer(p)
         \/ InactivityTimer(p) \/ Lose(p) \/ ForeignUpdate(p) \/ OriginateElsewhere(p)
  PROVE  ScopeStep(p)
<1>1. nbr[p] \in Neighbor /\ lsdb[p] \in Headers
  BY DEF TypeOK
<1>2. due' = due /\ hand' = hand
  BY DEF SendHelloPacket, LSRTimer, ClearLastPacket, EntryPointTimer, InactivityTimer, Lose,
     ForeignUpdate, OriginateElsewhere
<1>3. /\ Scoped(nbr[p]) /\ ScopedCalls(due[p]) /\ Free(hand[p])
      /\ p \notin Transit => Free(lsdb[p])
  BY DEF ScopeInv, ScopedRouter
<1>4. \A n : SetNbr(p, n) => nbr'[p] = n
  BY DEF SetNbr, TypeOK
<1>5. ASSUME Scoped(nbr'[p]), lsdb' = lsdb \/ p \in Transit,
             \/ chan'[Peer(p)] = chan[Peer(p)]
             \/ \E m \in Message : Send(p, m) /\ ScopedPacket(m)
      PROVE  ScopeStep(p)
  <2>1. \A c \in Elements(chan'[Peer(p)]) : c \in Elements(chan[Peer(p)]) \/ ScopedPacket(c)
    <3>1. CASE chan'[Peer(p)] = chan[Peer(p)]
      BY <3>1
    <3>2. CASE \E m \in Message : Send(p, m) /\ ScopedPacket(m)
      <4>1. PICK m \in Message : Send(p, m) /\ ScopedPacket(m)
        BY <3>2
      <4>2. Elements(chan'[Peer(p)]) = Elements(chan[Peer(p)]) \cup {m}
        BY <4>1, QueueEffects
      <4>3. QED
        BY <4>1, <4>2
    <3>3. QED
      BY <1>5, <3>1, <3>2
  <2>2. ScopedRouter(p)'
    BY <1>2, <1>3, <1>5 DEF ScopedRouter
  <2>3. QED
    BY <2>1, <2>2 DEF ScopeStep
<1>6. CASE SendHelloPacket(p)
  <2> DEFINE m == [type |-> "Hello", seen |-> nbr[p].state \in Active]
  <2>1. Send(p, m) /\ nbr' = nbr /\ lsdb' = lsdb
    BY <1>6 DEF SendHelloPacket
  <2>2. m \in Message
    <3>1. (nbr[p].state \in Active) \in BOOLEAN
      OBVIOUS
    <3>2. QED
      BY <3>1, MessageTypes
  <2>3. ScopedPacket(m)
    BY DEF ScopedPacket
  <2> HIDE DEF m
  <2>4. QED
    BY <1>3, <1>5, <2>1, <2>2, <2>3
<1>7. CASE LSRTimer(p)
  <2> DEFINE m == [type |-> "LSR", ids |-> Listed(nbr[p].req)]
  <2>1. (chan' = chan \/ Send(p, m)) /\ nbr' = nbr /\ lsdb' = lsdb
    BY <1>7 DEF LSRTimer
  <2>2. m \in Message
    BY <1>1, HeadersTypes, MessageTypes DEF Neighbor
  <2>3. ScopedPacket(m)
    BY <1>3, FreeLists DEF ScopedPacket, Scoped
  <2> HIDE DEF m
  <2>4. QED
    BY <1>3, <1>5, <2>1, <2>2, <2>3
<1>8. CASE EntryPointTimer(p)
  <2> DEFINE h == Pick(lsdb[p], nbr[p].rxmt)
             m == [type |-> "LSU", headers |-> h]
  <2>1. (chan' = chan \/ Send(p, m)) /\ nbr' = nbr /\ lsdb' = lsdb
    BY <1>8 DEF EntryPointTimer, SendRxmtList
  <2>2. h \in Headers /\ Free(h)
    BY <1>1, <1>3, FreeLists, HeadersTypes DEF Scoped
  <2> HIDE DEF h
  <2>3. m \in Message /\ ScopedPacket(m)
    BY <2>2, MessageTypes DEF ScopedPacket
  <2> HIDE DEF m
  <2>4. QED
    BY <1>3, <1>5, <2>1, <2>3
<1>9. CASE ClearLastPacket(p) \/ InactivityTimer(p)
  <2>1. /\ SetNbr(p, [nbr[p] EXCEPT !.last = NoDD]) \/ SetNbr(p, KillNbr(nbr[p]))
        /\ lsdb' = lsdb /\ chan' = chan
    BY <1>9 DEF ClearLastPacket, InactivityTimer
  <2>2. Scoped([nbr[p] EXCEPT !.last = NoDD])
    BY <1>1, <1>3 DEF Scoped, Neighbor
  <2>3. Scoped(KillNbr(nbr[p]))
    BY <1>1, <1>3, ScopedEvents
  <2>4. QED
    BY <1>4, <1>5, <2>1, <2>2, <2>3
<1>10. CASE Lose(p)
  <2>1. Consume(p) /\ nbr' = nbr /\ lsdb' = lsdb
    BY <1>10 DEF Lose
  <2>2. QED
    BY <1>3, <1>5, <2>1, QueueEffects
<1>11. CASE ForeignUpdate(p)
  <2>1. PICK k \in Foreign, v \in 1..MaxForeign :
          LET m == IF k \in OffLink THEN nbr[p] ELSE AnswerRequest(nbr[p], p, k, v)
          IN  /\ p \in Transit
              /\ SetNbr(p, RemoveFromRxmtList(m, {k}))
              /\ IF k \in OffLink THEN UNCHANGED chan ELSE Send(p, FloodPacket(k, v))
    BY <1>11 DEF ForeignUpdate
  <2> DEFINE m == IF k \in OffLink THEN nbr[p] ELSE AnswerRequest(nbr[p], p, k, v)
  <2>2. k \in Lsas /\ v \in Nat
    BY DEF Lsas
  <2>3. m \in Neighbor /\ Scoped(m)
    BY <1>1, <1>3, <2>2, NoteDDTypes, ScopedEvents
  <2>4. Scoped(nbr'[p])
    BY <1>4, <2>1, <2>3, ScopedEvents
  <2>5. k \notin OffLink => FloodPacket(k, v) \in Message /\ ScopedPacket(FloodPacket(k, v))
    BY <2>2, FreeLists, HeadersTypes, MessageTypes DEF FloodPacket, ScopedPacket
  <2>6. QED
    BY <1>5, <2>1, <2>4, <2>5
<1>12. CASE OriginateElsewhere(p)
  <2> DEFINE ks == OwnLsas(p) \ {<<"link", p>>}
  <2>1. /\ SetNbr(p, IF nbr[p].known THEN AddRxmtList(nbr[p], ks) ELSE nbr[p])
        /\ p \in Transit /\ chan' = chan
    BY <1>12 DEF OriginateElsewhere
  <2>2. ks \cap OffLink = {}
    BY FreeLists
  <2> HIDE DEF ks
  <2>3. Scoped(AddRxmtList(nbr[p], ks))
    BY <1>1, <1>3, <2>2, ScopedEvents
  <2>4. Scoped(nbr'[p])
    BY <1>3, <1>4, <2>1, <2>3
  <2>5. QED
    BY <1>5, <2>1, <2>4
<1>13. QED
  BY <1>6, <1>7, <1>8, <1>9, <1>10, <1>11, <1>12

\* In the beginning no router names anything but its own LSAs.
LEMMA InitScope == Init => ScopeInv
<1> SUFFICES ASSUME Init, NEW p \in Router
             PROVE  ScopedRouter(p) /\ \A m \in Elements(chan[p]) : ScopedPacket(m)
  BY DEF ScopeInv
<1>1. PICK b \in [Router -> BOOLEAN] : nbr = [r \in Router |-> FreshNeighbor(b[r])]
  BY DEF Init
<1>2. Scoped(nbr[p])
  BY <1>1, FreeLists DEF Scoped, FreshNeighbor
<1>3. due[p] = <<>> /\ hand[p] = NoHeaders /\ chan[p] = <<[type |-> "Hello", seen |-> FALSE]>>
  BY DEF Init
<1>4. ScopedCalls(due[p])
  BY <1>3 DEF ScopedCalls, Elements
<1>5. Free(lsdb[p])
  BY FreeLists DEF Init, Free
<1>6. \A m \in Elements(chan[p]) : ScopedPacket(m)
  <2> DEFINE h == [type |-> "Hello", seen |-> FALSE]
  <2>1. h \in Message /\ ScopedPacket(h) /\ chan[p] = <<h>>
    BY <1>3, MessageTypes DEF ScopedPacket
  <2> HIDE DEF h
  <2>2. Elements(<<h>>) = {h}
    BY <2>1, OneElement
  <2>3. QED
    BY <2>1, <2>2
<1>7. QED
  BY <1>2, <1>3, <1>4, <1>5, <1>6, FreeLists DEF ScopedRouter

\* Every step keeps to the scope of Link-LSAs.
LEMMA StepScope == TypeOK /\ ScopeInv /\ [Next]_vars => ScopeInv'
<1> SUFFICES ASSUME TypeOK, ScopeInv, [Next]_vars PROVE ScopeInv'
  OBVIOUS
<1>1. CASE UNCHANGED vars \/ MinLSArrivalPasses
  <2>1. UNCHANGED <<nbr, due, hand, lsdb, chan>>
    BY <1>1 DEF vars, MinLSArrivalPasses
  <2>2. QED
    BY <2>1 DEF ScopeInv, ScopedRouter
<1>2. ASSUME NEW p \in Router, OnlyActor(p), Acts(p) PROVE ScopeInv'
  <2> DEFINE q == Peer(p)
  <2>1. q \in Router /\ Peer(q) = p /\ (\A r \in Router : r = p \/ r = q)
    BY PeerProperties
  <2>2. /\ nbr'[q] = nbr[q] /\ lsdb'[q] = lsdb[q] /\ hand'[q] = hand[q] /\ due'[q] = due[q]
        /\ Elements(chan'[p]) \subseteq Elements(chan[p])
    BY <1>2 DEF OnlyActor
  <2>3. ScopeStep(p)
    BY <1>2, ReceiveScope, RunDueScope, HandleLSAScope, OtherScope DEF Acts
  <2>4. ScopedRouter(q)'
    BY <2>1, <2>2 DEF ScopeInv, ScopedRouter
  <2>5. /\ \A m \in Elements(chan'[p]) : ScopedPacket(m)
        /\ \A m \in Elements(chan'[q]) : ScopedPacket(m)
    BY <2>1, <2>2, <2>3 DEF ScopeStep, ScopeInv
  <2>6. ScopedRouter(p)'
    BY <2>3 DEF ScopeStep
  <2> HIDE DEF q
  <2>7. \A r \in Router : ScopedRouter(r)' /\ \A m \in Elements(chan'[r]) : ScopedPacket(m)
    BY <2>1, <2>4, <2>5, <2>6
  <2>8. QED
    BY <2>7 DEF ScopeInv
<1>3. QED
  BY <1>1, <1>2, StepEffects

\* A Link-LSA of another link is never in the database of a router that has this link
\* only: no summary list, request, retransmission, answer or flooding carries it over
\* (NEGOT_DONE and AppendToRxmtList test the link-local scope, the other lists are
\* built from what came over the link).
THEOREM LinkLsasStayLocal == Spec => []LinkScope
<1>1. TypeOK /\ ScopeInv => LinkScope
  BY DEF ScopeInv, ScopedRouter, Free, LinkScope
<1>2. Init => TypeOK /\ ScopeInv
  BY InitTypes, InitScope
<1>3. (TypeOK /\ ScopeInv) /\ [Next]_vars => (TypeOK /\ ScopeInv)'
  BY StepTypes, StepScope
<1>4. QED
  BY <1>1, <1>2, <1>3, PTL DEF Spec

-----------------------------------------------------------------------------
(* The databases replicate every LSA of the two routers                     *)

\* The copies of an LSA are the abstract variable.  The refinement needs CoreInv: no
\* copy is ahead of the originator's, no LSA being handled ahead of its sender's.
LEMMA CopyTypes ==
  ASSUME TypeOK, NEW k \in Lsas
  PROVE  Copies(k) \in [Router -> Nat] /\ \A r \in Router : Copies(k)[r] = lsdb[r][k]
<1>1. \A r \in Router : lsdb[r][k] \in Nat
  BY DEF TypeOK, Headers
<1>2. QED
  BY <1>1 DEF Copies

\* The databases start as the abstract specification lets them.
LEMMA InitReplicates ==
  ASSUME CoreInv, NEW p \in Router, NEW k \in OwnLsas(p)
  PROVE  Replica(p, k)!Init
<1>1. TypeOK /\ k \in Lsas
  BY HeadersTypes DEF CoreInv
<1>2. \A r \in Router : r = p \/ r = Peer(p)
  BY PeerProperties
<1>3. lsdb[Peer(p)][k] <= lsdb[p][k]
  BY DEF CoreInv, CopiesNotAhead
<1>4. \A r \in Router : Copies(k)[r] <= Copies(k)[p]
  BY <1>1, <1>2, <1>3, CopyTypes DEF Headers
<1>5. QED
  BY <1>1, <1>4, CopyTypes DEF Replica!Init

\* A step is an announcement by the originator, or a router learns what the other one
\* has: what it handles is backed by the other one's database.
LEMMA StepReplicates ==
  ASSUME CoreInv, [Next]_vars, NEW p \in Router, NEW k \in OwnLsas(p)
  PROVE  [Replica(p, k)!Next]_(Copies(k))
<1> SUFFICES ASSUME Copies(k)' # Copies(k) PROVE Replica(p, k)!Next
  OBVIOUS
<1>1. TypeOK /\ TypeOK' /\ k \in Lsas
  BY StepTypes, HeadersTypes DEF CoreInv
<1>2. /\ Copies(k) \in [Router -> Nat] /\ \A r \in Router : Copies(k)[r] = lsdb[r][k]
      /\ Copies(k)' \in [Router -> Nat] /\ \A r \in Router : Copies(k)'[r] = lsdb'[r][k]
  <2>1. Copies(k)' = [r \in Router |-> lsdb'[r][k]]
    BY DEF Copies
  <2>2. \A r \in Router : lsdb'[r][k] \in Nat
    BY <1>1 DEF TypeOK, Headers
  <2>3. QED
    BY <1>1, <2>1, <2>2, CopyTypes
<1>3. PICK r \in Router : Acts(r) /\ OnlyActor(r) /\ Effects(r)
  <2>1. CASE UNCHANGED vars \/ MinLSArrivalPasses
    <3>1. lsdb' = lsdb
      BY <2>1 DEF vars, MinLSArrivalPasses
    <3>2. QED
      BY <3>1 DEF Copies
  <2>2. QED
    BY <1>1, <2>1, StepEffects
<1> DEFINE q == Peer(r)
<1>4. q \in Router /\ q # r /\ Peer(q) = r /\ (\A s \in Router : s = r \/ s = q)
  BY PeerProperties
<1>5. lsdb'[q][k] = lsdb[q][k]
  BY <1>3 DEF OnlyActor
<1> HIDE DEF q
<1>6. Copies(k)' = [Copies(k) EXCEPT ![r] = lsdb'[r][k]]
  BY <1>2, <1>4, <1>5
<1>7. /\ lsdb'[r][k] # lsdb[r][k] /\ lsdb'[r][k] > lsdb[r][k]
      /\ k \in OwnLsas(r) \cup Foreign \/ lsdb'[r][k] = hand[r][k]
  <2>1. lsdb'[r][k] # lsdb[r][k]
    BY <1>2, <1>6
  <2>2. QED
    BY <1>1, <1>3, <2>1 DEF Effects, DatabaseEffect
<1>8. CASE r = p
  BY <1>2, <1>6, <1>7, <1>8 DEF Replica!Next, Replica!Announce
<1>9. CASE r # p
  <2>1. q = p /\ <<q, r>> \in {<<s, Peer(s)>> : s \in Router}
    BY <1>4, <1>9
  <2>2. k \notin OwnLsas(r) \cup Foreign
    <3>1. r = Peer(p)
      BY <1>4, <2>1
    <3>2. QED
      BY <3>1, OwnLsasDisjoint
  <2>3. lsdb'[r][k] <= lsdb[q][k]
    <3>1. AtMost(hand[r], lsdb[Peer(r)])
      BY DEF CoreInv, Backed
    <3>2. QED
      BY <1>1, <1>7, <2>2, <3>1 DEF AtMost, q
  <2>4. lsdb'[r][k] \in Copies(k)[r] + 1 .. Copies(k)[q]
    BY <1>2, <1>4, <1>7, <2>3
  <2>5. Replica(p, k)!Learn(q, r)
    BY <1>6, <2>4 DEF Replica!Learn
  <2>6. QED
    BY <2>1, <2>5 DEF Replica!Next
<1>10. QED
  BY <1>8, <1>9

\* For every LSA of either router the two databases implement LsdbReplication: from
\* the first step of the exchange to the last retransmission, each change of a
\* database is a new instance of the router's own or one the other router has.
THEOREM EachLsaReplicates ==
  ASSUME NEW p \in Router, NEW k \in OwnLsas(p)
  PROVE  Spec => Replica(p, k)!Spec
<1>1. Init => Replica(p, k)!Init
  BY InitCore, InitReplicates
<1>2. CoreInv /\ [Next]_vars => [Replica(p, k)!Next]_(Copies(k))
  BY StepReplicates
<1>3. QED
  BY <1>1, <1>2, CoreInvariant, PTL DEF Spec, Replica!Spec

\* The same as the property that the runs check.
THEOREM DatabasesAlwaysReplicate == Spec => DatabasesReplicate
<1> DEFINE Starts == \A p \in Router : \A k \in OwnLsas(p) : Replica(p, k)!Init
           Moves == \A p \in Router : \A k \in OwnLsas(p) : [Replica(p, k)!Next]_(Copies(k))
<1>1. Init => Starts
  BY InitCore, InitReplicates
<1>2. CoreInv /\ [Next]_vars => [Moves]_lsdb
  BY StepReplicates
<1> HIDE DEF Starts, Moves
<1>3. Spec => Starts /\ [][Moves]_lsdb
  BY <1>1, <1>2, CoreInvariant, PTL DEF Spec
<1>4. QED
  BY <1>3 DEF DatabasesReplicate, Starts, Moves
=============================================================================
