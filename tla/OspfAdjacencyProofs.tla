------------------------- MODULE OspfAdjacencyProofs -------------------------
(***************************************************************************)
(* Proofs about OspfAdjacency for every pair of routers, every set of LSAs  *)
(* and every bound.                                                         *)
(***************************************************************************)
EXTENDS OspfAdjacency, SequenceTheorems, TLAPS

-----------------------------------------------------------------------------
(* The two ends of the link                                                 *)

\* Each router has one other router as its neighbour, and is that one's neighbour.
LEMMA PeerProperties ==
  ASSUME NEW p \in Router
  PROVE  /\ Peer(p) \in Router
         /\ Peer(p) # p
         /\ Peer(Peer(p)) = p
         /\ \A q \in Router : q = p \/ q = Peer(p)
<1>1. PICK a \in Router, b \in Router : a # b /\ Router = {a, b}
  BY RouterAssumption
<1>2. \A q \in Router : \E r \in Router : r # q
  BY <1>1
<1>3. \A q \in Router : Peer(q) \in Router /\ Peer(q) # q
  BY <1>2 DEF Peer
<1>4. QED
  BY <1>1, <1>3

-----------------------------------------------------------------------------
(* Queues                                                                   *)

\* What a queue holds after an append, a concatenation or the removal of its head.
LEMMA QueueElements ==
  ASSUME NEW S, NEW q \in Seq(S)
  PROVE  /\ \A e \in S : /\ Append(q, e) \in Seq(S)
                         /\ Elements(Append(q, e)) = Elements(q) \cup {e}
         /\ \A r \in Seq(S) : /\ q \o r \in Seq(S)
                              /\ Elements(q \o r) = Elements(q) \cup Elements(r)
         /\ q # <<>> => /\ Tail(q) \in Seq(S)
                        /\ Elements(Tail(q)) \subseteq Elements(q)
                        /\ Head(q) \in Elements(q)
                        /\ Head(q) \in S
         /\ Elements(q) \subseteq S
<1>1. ASSUME NEW e \in S
      PROVE  /\ Append(q, e) \in Seq(S)
             /\ Elements(Append(q, e)) = Elements(q) \cup {e}
  BY AppendProperties, LenProperties DEF Elements
<1>2. ASSUME NEW r \in Seq(S)
      PROVE  /\ q \o r \in Seq(S)
             /\ Elements(q \o r) = Elements(q) \cup Elements(r)
  <2>1. q \o r \in Seq(S)
    BY ConcatProperties
  <2>2. Elements(q \o r) \subseteq Elements(q) \cup Elements(r)
    BY <2>1, ConcatProperties, LenProperties DEF Elements
  <2>3. ASSUME NEW i \in DOMAIN q PROVE q[i] \in Elements(q \o r)
    <3>1. i \in 1..Len(q) + Len(r) /\ i <= Len(q)
      BY LenProperties
    <3>2. (q \o r)[i] = q[i]
      BY <3>1, ConcatProperties
    <3>3. i \in DOMAIN (q \o r)
      BY <2>1, <3>1, ConcatProperties, LenProperties
    <3>4. QED
      BY <3>2, <3>3 DEF Elements
  <2>4. ASSUME NEW i \in DOMAIN r PROVE r[i] \in Elements(q \o r)
    <3>1. /\ Len(q) + i \in 1..Len(q) + Len(r)
          /\ ~(Len(q) + i <= Len(q))
          /\ Len(q) + i - Len(q) = i
      BY LenProperties
    <3>2. (q \o r)[Len(q) + i] = r[i]
      BY <3>1, ConcatProperties
    <3>3. Len(q) + i \in DOMAIN (q \o r)
      BY <2>1, <3>1, ConcatProperties, LenProperties
    <3>4. QED
      BY <3>2, <3>3 DEF Elements
  <2>5. QED
    BY <2>1, <2>2, <2>3, <2>4 DEF Elements
<1>3. ASSUME q # <<>>
      PROVE  /\ Tail(q) \in Seq(S)
             /\ Elements(Tail(q)) \subseteq Elements(q)
             /\ Head(q) \in Elements(q)
             /\ Head(q) \in S
  <2>1. /\ Tail(q) \in Seq(S) /\ Head(q) \in S
        /\ Len(q) \in Nat \ {0}
        /\ Len(Tail(q)) = Len(q) - 1
        /\ \A i \in 1..Len(Tail(q)) : Tail(q)[i] = q[i + 1]
    BY <1>3, HeadTailProperties, EmptySeq
  <2>2. Head(q) = q[1] /\ 1 \in DOMAIN q
    BY <2>1, LenProperties
  <2>3. \A i \in DOMAIN Tail(q) : i + 1 \in DOMAIN q /\ Tail(q)[i] = q[i + 1]
    BY <2>1, LenProperties
  <2>4. QED
    BY <2>1, <2>2, <2>3 DEF Elements
<1>4. Elements(q) \subseteq S
  BY ElementOfSeq, LenProperties DEF Elements
<1>5. QED
  BY <1>1, <1>2, <1>3, <1>4

\* The queue of one element.
LEMMA OneElement ==
  ASSUME NEW S, NEW e \in S
  PROVE  <<e>> \in Seq(S) /\ Elements(<<e>>) = {e}
<1>1. <<>> \in Seq(S)
  BY EmptySeq
<1>2. Append(<<>>, e) = <<e>>
  BY <1>1
<1>3. Elements(<<>>) = {}
  BY DEF Elements
<1>4. /\ Append(<<>>, e) \in Seq(S)
      /\ Elements(Append(<<>>, e)) = Elements(<<>>) \cup {e}
  <2> DEFINE q == <<>>
  <2>1. q \in Seq(S)
    BY <1>1
  <2> HIDE DEF q
  <2>2. Append(q, e) \in Seq(S) /\ Elements(Append(q, e)) = Elements(q) \cup {e}
    BY <2>1, QueueElements
  <2>3. QED
    BY <2>2 DEF q
<1>5. QED
  BY <1>2, <1>3, <1>4

-----------------------------------------------------------------------------
(* Types                                                                    *)

\* The operators on header lists yield header lists.
LEMMA HeadersTypes ==
  /\ NoHeaders \in Headers
  /\ \A h \in Headers : \A ks : Pick(h, ks) \in Headers
  /\ \A h \in Headers : Listed(h) \subseteq Lsas
  /\ \A h \in Headers : \A k \in Lsas, v \in Nat : [h EXCEPT ![k] = v] \in Headers
  /\ \A h \in Headers : \A ks : Reoriginate(h, ks) \in Headers
  /\ \A p \in Router : OwnLsas(p) \subseteq Lsas /\ RouterLsa(p) \in OwnLsas(p)
<1>1. \A p \in Router : OwnLsas(p) \subseteq Lsas /\ RouterLsa(p) \in OwnLsas(p)
  BY LsaAssumption DEF OwnLsas, RouterLsa, Lsas
<1>2. QED
  BY <1>1 DEF Headers, NoHeaders, Pick, Listed, Reoriginate

\* Every event leaves a neighbour record in one of the states between two events.
LEMMA NeighborTypes ==
  ASSUME NEW n \in Neighbor, NEW p \in Router, lsdb[p] \in Headers
  PROVE  /\ ClearList(n) \in Neighbor
         /\ StartExchange(n) \in Neighbor
         /\ IncrementSequenceNumber(n) \in Neighbor
         /\ \A ks \in SUBSET Lsas : AddRxmtList(n, ks) \in Neighbor
         /\ \A ks : RemoveFromRxmtList(n, ks) \in Neighbor
         /\ \A h \in Headers : AddRequestList(n, h) \in Neighbor
         /\ \A k \in Lsas : RemoveFromRequestList(n, k) \in Neighbor
         /\ TwoWayReceived(HelloReceived(n)) \in Neighbor
         /\ NegotDone(n, p) \in Neighbor
         /\ EnterFull(n, p) \in Neighbor
         /\ ExchangeDone(n, p) \in Neighbor
         /\ LoadingDone(n, p) \in Neighbor
         /\ RestartExchange(n) \in Neighbor
         /\ KillNbr(n) \in Neighbor
<1>1. \A m \in Neighbor : [m EXCEPT !.master = TRUE] \in Neighbor
  BY DEF Neighbor
<1>2. \A m \in Neighbor : IncrementSequenceNumber(m) \in Neighbor
  BY DEF IncrementSequenceNumber, Neighbor
<1>3. \A m \in Neighbor : StartExchange(m) \in Neighbor
  BY <1>1, <1>2 DEF StartExchange
<1>4. \A m \in Neighbor : ClearList(m) \in Neighbor
  BY HeadersTypes DEF ClearList, Neighbor
<1>5. /\ \A ks \in SUBSET Lsas : AddRxmtList(n, ks) \in Neighbor
      /\ \A ks : RemoveFromRxmtList(n, ks) \in Neighbor
  BY DEF AddRxmtList, RemoveFromRxmtList, Neighbor
<1>6. /\ \A h \in Headers : AddRequestList(n, h) \in Neighbor
      /\ \A k \in Lsas : RemoveFromRequestList(n, k) \in Neighbor
  BY DEF AddRequestList, RemoveFromRequestList, Neighbor, Headers
<1>7. TwoWayReceived(HelloReceived(n)) \in Neighbor
  <2>1. CASE n.state = "DOWN"
    <3>1. TwoWayReceived(HelloReceived(n)) = StartExchange([n EXCEPT !.state = "EXSTART"])
      BY <2>1 DEF TwoWayReceived, HelloReceived, Neighbor
    <3>2. [n EXCEPT !.state = "EXSTART"] \in Neighbor
      BY DEF Neighbor, NeighborState
    <3>3. QED
      BY <1>3, <3>1, <3>2
  <2>2. CASE n.state # "DOWN"
    BY <2>2 DEF TwoWayReceived, HelloReceived, Neighbor, NeighborState
  <2>3. QED
    BY <2>1, <2>2
<1>8. NegotDone(n, p) \in Neighbor
  BY HeadersTypes DEF NegotDone, Neighbor, NeighborState
<1>9. EnterFull(n, p) \in Neighbor
  BY HeadersTypes DEF EnterFull, AddRxmtList, Neighbor, NeighborState
<1>10. /\ ExchangeDone(n, p) \in Neighbor
       /\ LoadingDone(n, p) \in Neighbor
  BY <1>9 DEF ExchangeDone, LoadingDone, Neighbor, NeighborState
<1>11. \A s \in NeighborState : [n EXCEPT !.state = s] \in Neighbor
  BY DEF Neighbor
<1>12. /\ RestartExchange(n) \in Neighbor
       /\ KillNbr(n) \in Neighbor
  BY <1>3, <1>4, <1>11 DEF RestartExchange, KillNbr, NeighborState
<1>13. QED
  BY <1>2, <1>3, <1>4, <1>5, <1>6, <1>7, <1>8, <1>9, <1>10, <1>12

\* The packets a router builds are messages, and a message of a type has its fields.
LEMMA MessageTypes ==
  /\ \A b \in BOOLEAN : [type |-> "Hello", seen |-> b] \in Message
  /\ \A i \in BOOLEAN, m \in BOOLEAN, b \in BOOLEAN, s \in Nat, h \in Headers :
       [type |-> "DD", init |-> i, more |-> m, master |-> b, seq |-> s, headers |-> h] \in Message
  /\ \A ks \in SUBSET Lsas : [type |-> "LSR", ids |-> ks] \in Message
  /\ \A h \in Headers : [type |-> "LSU", headers |-> h] \in Message
  /\ \A h \in Headers : [type |-> "Ack", headers |-> h] \in Message
  /\ \A m \in Message :
       /\ m.type = "DD" => /\ m.init \in BOOLEAN /\ m.more \in BOOLEAN
                           /\ m.master \in BOOLEAN /\ m.seq \in Nat /\ m.headers \in Headers
       /\ m.type = "LSR" => m.ids \in SUBSET Lsas
       /\ m.type \in {"LSU", "Ack"} => m.headers \in Headers
BY DEF Message

\* The same for the calls that ScheduleNow queues.
LEMMA DueCallTypes ==
  /\ \A b \in BOOLEAN : SendDDCall(b) \in DueCall
  /\ SendLSRCall \in DueCall
  /\ EntryPointCall \in DueCall
  /\ \A h \in Headers : SendLSUCall(h) \in DueCall
  /\ \A c \in DueCall : c.call = "SendLSU" => c.headers \in Headers
  /\ \A n, m : EventCalls(n, m) \in Seq(DueCall)
<1>1. /\ \A b \in BOOLEAN : SendDDCall(b) \in DueCall
      /\ SendLSRCall \in DueCall
      /\ EntryPointCall \in DueCall
      /\ \A h \in Headers : SendLSUCall(h) \in DueCall
      /\ \A c \in DueCall : c.call = "SendLSU" => c.headers \in Headers
  BY DEF DueCall, SendDDCall, SendLSRCall, EntryPointCall, SendLSUCall
<1>2. /\ <<>> \in Seq(DueCall)
      /\ <<SendDDCall(TRUE)>> \in Seq(DueCall)
      /\ <<SendLSRCall>> \in Seq(DueCall)
  BY <1>1, EmptySeq, OneElement
<1>3. \A n, m : EventCalls(n, m) \in Seq(DueCall)
  BY <1>2 DEF EventCalls
<1>4. QED
  BY <1>1, <1>3

\* What an action does to one router's part of a variable keeps the variable's type.
LEMMA UpdateTypes ==
  ASSUME TypeOK, NEW p \in Router
  PROVE  /\ \A n \in Neighbor : SetNbr(p, n) => nbr' \in [Router -> Neighbor]
         /\ \A h \in Headers : [lsdb EXCEPT ![p] = h] \in [Router -> Headers]
         /\ \A k \in Lsas : Done(p, k) => hand' \in [Router -> Headers]
         /\ \A m \in Message : Send(p, m) => chan' \in [Router -> Seq(Message)]
         /\ \A cs \in Seq(DueCall) : Schedule(p, cs) => due' \in [Router -> Seq(DueCall)]
         /\ timers[p].lsr \in Nat /\ timers[p].clear \in Nat
         /\ \A c \in Nat : /\ [timers EXCEPT ![p].lsr = c] \in [Router -> [lsr : Nat, clear : Nat]]
                           /\ [timers EXCEPT ![p].clear = c] \in [Router -> [lsr : Nat, clear : Nat]]
<1>1. /\ \A n \in Neighbor : SetNbr(p, n) => nbr' \in [Router -> Neighbor]
      /\ \A h \in Headers : [lsdb EXCEPT ![p] = h] \in [Router -> Headers]
  BY DEF TypeOK, SetNbr
<1>2. \A k \in Lsas : Done(p, k) => hand' \in [Router -> Headers]
  BY DEF TypeOK, Done, Headers
<1>3. ASSUME NEW m \in Message, Send(p, m)
      PROVE  chan' \in [Router -> Seq(Message)]
  <2>1. Append(chan[Peer(p)], m) \in Seq(Message)
    BY PeerProperties, QueueElements DEF TypeOK
  <2>2. QED
    BY <1>3, <2>1 DEF TypeOK, Send
<1>4. ASSUME NEW cs \in Seq(DueCall), Schedule(p, cs)
      PROVE  due' \in [Router -> Seq(DueCall)]
  <2>1. due[p] \o cs \in Seq(DueCall)
    BY QueueElements DEF TypeOK
  <2>2. QED
    BY <1>4, <2>1 DEF TypeOK, Schedule
<1>5. timers \in [Router -> [lsr : Nat, clear : Nat]]
  BY DEF TypeOK
<1>6. timers[p].lsr \in Nat /\ timers[p].clear \in Nat
  BY <1>5
<1>7. \A c \in Nat : [timers EXCEPT ![p].lsr = c] \in [Router -> [lsr : Nat, clear : Nat]]
  BY <1>5
<1>8. \A c \in Nat : [timers EXCEPT ![p].clear = c] \in [Router -> [lsr : Nat, clear : Nat]]
  BY <1>5
<1>9. QED
  BY <1>1, <1>2, <1>3, <1>4, <1>6, <1>7, <1>8

\* The oldest packet, and what taking it leaves.
LEMMA HeadPacket ==
  ASSUME TypeOK, NEW p \in Router, chan[p] # <<>>
  PROVE  /\ Head(chan[p]) \in Message
         /\ Head(chan[p]) \in Elements(chan[p])
         /\ Tail(chan[p]) \in Seq(Message)
         /\ Elements(Tail(chan[p])) \subseteq Elements(chan[p])
         /\ Consume(p) => chan' \in [Router -> Seq(Message)]
<1>1. chan[p] \in Seq(Message)
  BY DEF TypeOK
<1>2. /\ Head(chan[p]) \in Message
      /\ Head(chan[p]) \in Elements(chan[p])
      /\ Tail(chan[p]) \in Seq(Message)
      /\ Elements(Tail(chan[p])) \subseteq Elements(chan[p])
  BY <1>1, QueueElements
<1>3. QED
  BY <1>2 DEF TypeOK, Consume

\* The first call that is due, and what making it leaves.
LEMMA HeadCall ==
  ASSUME TypeOK, NEW p \in Router, due[p] # <<>>
  PROVE  /\ Head(due[p]) \in DueCall
         /\ Head(due[p]) \in Elements(due[p])
         /\ Tail(due[p]) \in Seq(DueCall)
         /\ Elements(Tail(due[p])) \subseteq Elements(due[p])
         /\ [due EXCEPT ![p] = Tail(@)] \in [Router -> Seq(DueCall)]
<1>1. due[p] \in Seq(DueCall)
  BY DEF TypeOK
<1>2. /\ Head(due[p]) \in DueCall
      /\ Head(due[p]) \in Elements(due[p])
      /\ Tail(due[p]) \in Seq(DueCall)
      /\ Elements(Tail(due[p])) \subseteq Elements(due[p])
  BY <1>1, QueueElements
<1>3. QED
  BY <1>2 DEF TypeOK

\* A received Database Description keeps the neighbour record well formed.
LEMMA NoteDDTypes ==
  ASSUME TypeOK, NEW p \in Router
  PROVE  /\ nbr[p] \in Neighbor
         /\ Known(p) \in Neighbor
         /\ \A dd \in Message : dd.type = "DD" =>
              /\ NoteDD(p, dd) \in Neighbor
              /\ Wanted(p, dd.headers) \in Headers
         /\ \A n \in Neighbor, k \in Lsas : \A v : AnswerRequest(n, p, k, v) \in Neighbor
<1>1. nbr[p] \in Neighbor /\ lsdb[p] \in Headers
  BY DEF TypeOK
<1>2. Known(p) \in Neighbor
  BY <1>1 DEF Known, Neighbor
<1>3. ASSUME NEW dd \in Message, dd.type = "DD"
      PROVE  NoteDD(p, dd) \in Neighbor
  <2>1. [has |-> TRUE, init |-> dd.init, more |-> dd.more, master |-> dd.master] \in LastDD
    BY <1>3, MessageTypes DEF LastDD
  <2>2. \A l \in LastDD : [Known(p) EXCEPT !.last = l] \in Neighbor
    BY <1>2 DEF Neighbor
  <2>3. QED
    BY <2>1, <2>2 DEF NoteDD
<1>4. ASSUME NEW dd \in Message, dd.type = "DD"
      PROVE  Wanted(p, dd.headers) \in Headers
  <2>1. dd.headers \in Headers
    BY <1>4, MessageTypes
  <2>2. QED
    BY <1>1, <2>1 DEF Wanted, Headers
<1>5. \A n \in Neighbor, k \in Lsas : \A v : AnswerRequest(n, p, k, v) \in Neighbor
  BY <1>1, NeighborTypes DEF AnswerRequest
<1>6. QED
  BY <1>1, <1>2, <1>3, <1>4, <1>5

\* Handling a packet keeps every variable's type.
LEMMA ReceiveTypes ==
  ASSUME TypeOK, NEW p \in Router, Receive(p)
  PROVE  TypeOK'
<1> DEFINE m == Head(chan[p])
<1>1. chan[p] # <<>> /\ Consume(p)
  BY DEF Receive, Arrives, ReceiveHelloPacket, ReceiveDDIgnored, ReceiveDDNegotiate,
         ReceiveDDMismatch, ReceiveDDAsMaster, ReceiveDDAsSlave,
         ReceiveLinkStateRequestPacket, ReceiveLinkStateUpdatePacket,
         ReceiveLinkStateAckPacket
<1>2. m \in Message /\ chan' \in [Router -> Seq(Message)]
  BY <1>1, HeadPacket
<1>3. /\ nbr[p] \in Neighbor /\ lsdb[p] \in Headers /\ Known(p) \in Neighbor
      /\ m.type = "DD" => NoteDD(p, m) \in Neighbor /\ Wanted(p, m.headers) \in Headers
  BY <1>2, NoteDDTypes DEF TypeOK
<1>4. \A b \in BOOLEAN : <<SendDDCall(b)>> \in Seq(DueCall)
  BY DueCallTypes, OneElement
<1> HIDE DEF m
<1>5. CASE ReceiveHelloPacket(p)
  <2>1. TwoWayReceived(HelloReceived(Known(p))) \in Neighbor
    BY <1>3, NeighborTypes
  <2>2. \A n : Append(EventCalls(nbr[p], n), EntryPointCall) \in Seq(DueCall)
    BY DueCallTypes, QueueElements
  <2>3. nbr' \in [Router -> Neighbor] /\ due' \in [Router -> Seq(DueCall)]
    BY <1>5, <2>1, <2>2, UpdateTypes DEF ReceiveHelloPacket
  <2>4. QED
    BY <1>2, <1>5, <2>3 DEF ReceiveHelloPacket, TypeOK
<1>6. CASE ReceiveDDIgnored(p)
  <2>1. nbr' \in [Router -> Neighbor]
    BY <1>3, <1>6, UpdateTypes DEF ReceiveDDIgnored, Arrives, m
  <2>2. QED
    BY <1>2, <1>6, <2>1 DEF ReceiveDDIgnored, TypeOK
<1>7. CASE ReceiveDDNegotiate(p)
  <2>1. m.type = "DD" /\ m.seq \in Nat
    BY <1>2, <1>7, MessageTypes DEF ReceiveDDNegotiate, Arrives, m
  <2>2. \A n \in Neighbor, b \in BOOLEAN : [n EXCEPT !.master = b] \in Neighbor
    BY DEF Neighbor
  <2>3. [NoteDD(p, m) EXCEPT !.master = FALSE, !.seq = m.seq] \in Neighbor
    <3>1. [NoteDD(p, m) EXCEPT !.seq = m.seq] \in Neighbor
      BY <1>3, <2>1 DEF Neighbor
    <3>2. QED
      BY <1>3, <2>2, <3>1 DEF Neighbor
  <2>4. /\ NegotDone([NoteDD(p, m) EXCEPT !.master = FALSE, !.seq = m.seq], p) \in Neighbor
        /\ IncrementSequenceNumber(NegotDone([NoteDD(p, m) EXCEPT !.master = TRUE], p)) \in Neighbor
    BY <1>3, <2>1, <2>2, <2>3, NeighborTypes
  <2>5. nbr' \in [Router -> Neighbor] /\ due' \in [Router -> Seq(DueCall)]
    BY <1>4, <1>7, <2>4, UpdateTypes DEF ReceiveDDNegotiate, m
  <2>6. QED
    BY <1>2, <1>7, <2>5 DEF ReceiveDDNegotiate, TypeOK
<1>8. CASE ReceiveDDMismatch(p)
  <2>1. RestartExchange(NoteDD(p, m)) \in Neighbor
    BY <1>3, <1>8, NeighborTypes DEF ReceiveDDMismatch, Arrives, m
  <2>2. nbr' \in [Router -> Neighbor] /\ due' \in [Router -> Seq(DueCall)]
    BY <1>8, <2>1, DueCallTypes, UpdateTypes DEF ReceiveDDMismatch, m
  <2>3. QED
    BY <1>2, <1>8, <2>2 DEF ReceiveDDMismatch, TypeOK
<1>9. CASE ReceiveDDAsMaster(p)
  <2> DEFINE n == IncrementSequenceNumber(AddRequestList(NoteDD(p, m), Wanted(p, m.headers)))
             r == IF m.more THEN n ELSE ExchangeDone(n, p)
  <2>1. AddRequestList(NoteDD(p, m), Wanted(p, m.headers)) \in Neighbor
    BY <1>3, <1>9, NeighborTypes DEF ReceiveDDAsMaster, Arrives, m
  <2>2. n \in Neighbor
    BY <1>3, <2>1, NeighborTypes
  <2>3. r \in Neighbor
    BY <1>3, <2>2, NeighborTypes
  <2>4. nbr' \in [Router -> Neighbor]
    BY <1>9, <2>3, UpdateTypes DEF ReceiveDDAsMaster, m
  <2>5. due' \in [Router -> Seq(DueCall)]
    BY <1>4, <1>9, DueCallTypes, UpdateTypes DEF ReceiveDDAsMaster, m
  <2>6. lsdb' \in [Router -> Headers]
    BY <1>3, <1>9, HeadersTypes, UpdateTypes DEF ReceiveDDAsMaster, m
  <2>7. QED
    BY <1>2, <1>9, <2>4, <2>5, <2>6 DEF ReceiveDDAsMaster, TypeOK
<1>10. CASE ReceiveDDAsSlave(p)
  <2> DEFINE a == AddRequestList(NoteDD(p, m), Wanted(p, m.headers))
             n == [a EXCEPT !.seq = m.seq]
             r == ExchangeDone(n, p)
  <2>1. m.type = "DD" /\ m.seq \in Nat
    BY <1>2, <1>10, MessageTypes DEF ReceiveDDAsSlave, Arrives, m
  <2>2. a \in Neighbor
    BY <1>3, <2>1, NeighborTypes
  <2>3. n \in Neighbor
    <3> HIDE DEF a
    <3>1. QED
      BY <2>1, <2>2 DEF Neighbor
  <2>4. r \in Neighbor /\ AddRxmtList(r, {RouterLsa(p)}) \in Neighbor
    <3>1. r \in Neighbor
      BY <1>3, <2>3, NeighborTypes
    <3> HIDE DEF r
    <3>2. QED
      BY <1>3, <3>1, NeighborTypes, HeadersTypes
  <2>5. nbr' \in [Router -> Neighbor]
    BY <1>10, <2>3, <2>4, UpdateTypes DEF ReceiveDDAsSlave, m
  <2>6. due' \in [Router -> Seq(DueCall)]
    <3>1. \A e : <<SendDDCall(FALSE)>> \o EventCalls(n, e) \in Seq(DueCall)
      BY <1>4, DueCallTypes, QueueElements
    <3>2. QED
      BY <1>4, <1>10, <3>1, UpdateTypes DEF ReceiveDDAsSlave, m
  <2>7. lsdb' \in [Router -> Headers]
    <3>1. \A ks, js : Reoriginate(Reoriginate(lsdb[p], ks), js) \in Headers
      BY <1>3, HeadersTypes
    <3>2. \/ lsdb' = lsdb
          \/ \E ks, js : lsdb' = [lsdb EXCEPT ![p] = Reoriginate(Reoriginate(@, ks), js)]
      BY <1>10, Zenon DEF ReceiveDDAsSlave
    <3>3. lsdb \in [Router -> Headers]
      BY DEF TypeOK
    <3>4. QED
      BY <3>1, <3>2, <3>3, UpdateTypes
  <2>8. timers' \in [Router -> [lsr : Nat, clear : Nat]]
    <3>1. timers' = timers \/ timers' = [timers EXCEPT ![p].clear = timers[p].clear + 1]
      BY <1>10, Zenon DEF ReceiveDDAsSlave
    <3>2. timers[p].clear + 1 \in Nat
      BY UpdateTypes
    <3>3. timers \in [Router -> [lsr : Nat, clear : Nat]]
      BY DEF TypeOK
    <3>4. [timers EXCEPT ![p].clear = timers[p].clear + 1]
            \in [Router -> [lsr : Nat, clear : Nat]]
      BY ONLY <3>2, <3>3
    <3>5. QED
      BY <3>1, <3>3, <3>4
  <2>9. QED
    BY <1>2, <1>10, <2>5, <2>6, <2>7, <2>8 DEF ReceiveDDAsSlave, TypeOK
<1>11. CASE ReceiveLinkStateRequestPacket(p)
  <2>1. Known(p) \in Neighbor /\ RestartExchange(Known(p)) \in Neighbor
    BY <1>3, NeighborTypes
  <2>2. nbr' \in [Router -> Neighbor]
    BY <1>11, <2>1, UpdateTypes DEF ReceiveLinkStateRequestPacket
  <2>3. \A ks : <<SendLSUCall(Pick(lsdb[p], ks))>> \in Seq(DueCall)
    BY <1>3, DueCallTypes, HeadersTypes, OneElement
  <2>4. due' \in [Router -> Seq(DueCall)]
    BY <1>11, <2>3, DueCallTypes, UpdateTypes DEF ReceiveLinkStateRequestPacket
  <2>5. QED
    BY <1>2, <1>11, <2>2, <2>4 DEF ReceiveLinkStateRequestPacket, TypeOK
<1>12. CASE ReceiveLinkStateUpdatePacket(p)
  <2>1. nbr' \in [Router -> Neighbor]
    BY <1>3, <1>12, UpdateTypes DEF ReceiveLinkStateUpdatePacket
  <2>2. m.headers \in Headers
    BY <1>2, <1>12, MessageTypes DEF ReceiveLinkStateUpdatePacket, Arrives, m
  <2>3. hand' \in [Router -> Headers]
    BY <1>12, <2>2 DEF ReceiveLinkStateUpdatePacket, TypeOK, m
  <2>4. QED
    BY <1>2, <1>12, <2>1, <2>3 DEF ReceiveLinkStateUpdatePacket, TypeOK
<1>13. CASE ReceiveLinkStateAckPacket(p)
  <2>1. \A ks : RemoveFromRxmtList(Known(p), ks) \in Neighbor
    BY <1>3, NeighborTypes
  <2>2. nbr' \in [Router -> Neighbor]
    BY <1>3, <1>13, <2>1, UpdateTypes DEF ReceiveLinkStateAckPacket
  <2>3. QED
    BY <1>2, <1>13, <2>2 DEF ReceiveLinkStateAckPacket, TypeOK
<1>14. QED
  BY <1>5, <1>6, <1>7, <1>8, <1>9, <1>10, <1>11, <1>12, <1>13 DEF Receive

\* The calls made by ScheduleNow keep every variable's type.
LEMMA RunDueTypes ==
  ASSUME TypeOK, NEW p \in Router, RunDue(p)
  PROVE  TypeOK'
<1>1. due[p] # <<>> /\ due' = [due EXCEPT ![p] = Tail(@)]
  BY DEF RunDue, SendInitialDD, SendDD, SendLSR, SendLSUDirect, EntryPoint
<1>2. due' \in [Router -> Seq(DueCall)] /\ Head(due[p]) \in DueCall
  BY <1>1, HeadCall
<1>3. nbr[p] \in Neighbor /\ lsdb[p] \in Headers
  BY DEF TypeOK
<1>4. CASE SendInitialDD(p)
  <2>1. nbr[p].seq \in Nat /\ NoHeaders \in Headers
    BY <1>3, HeadersTypes DEF Neighbor
  <2>2. [type |-> "DD", init |-> TRUE, more |-> TRUE, master |-> TRUE,
         seq |-> nbr[p].seq, headers |-> NoHeaders] \in Message
    BY <2>1, MessageTypes
  <2>3. chan' \in [Router -> Seq(Message)]
    BY <1>4, <2>2, UpdateTypes DEF SendInitialDD
  <2>4. QED
    BY <1>2, <1>4, <2>3 DEF SendInitialDD, TypeOK
<1>5. CASE SendDD(p)
  <2>1. PICK ks \in NextSummary(nbr[p]), shared \in BOOLEAN :
          /\ SetNbr(p, [nbr[p] EXCEPT !.summary = Pick(@, Lsas \ ks)])
          /\ Send(p, [type |-> "DD", init |-> FALSE,
                      more |-> IF nbr[p].master THEN nbr[p].summary # NoHeaders
                                                ELSE nbr[p].last.more,
                      master |-> nbr[p].master, seq |-> nbr[p].seq,
                      headers |-> Described(p, ks, shared)])
    BY <1>5 DEF SendDD
  <2>2. [nbr[p] EXCEPT !.summary = Pick(@, Lsas \ ks)] \in Neighbor
    BY <1>3, HeadersTypes DEF Neighbor
  <2>3. Described(p, ks, shared) \in Headers
    BY <1>3 DEF Described, Neighbor, Headers
  <2>4. /\ nbr[p].master \in BOOLEAN /\ nbr[p].last.more \in BOOLEAN
        /\ nbr[p].seq \in Nat
    BY <1>3 DEF Neighbor, LastDD
  <2>5. (IF nbr[p].master THEN nbr[p].summary # NoHeaders ELSE nbr[p].last.more) \in BOOLEAN
    BY <2>4
  <2>6. [type |-> "DD", init |-> FALSE,
         more |-> IF nbr[p].master THEN nbr[p].summary # NoHeaders ELSE nbr[p].last.more,
         master |-> nbr[p].master, seq |-> nbr[p].seq,
         headers |-> Described(p, ks, shared)] \in Message
    BY <2>3, <2>4, <2>5, MessageTypes
  <2>7. nbr' \in [Router -> Neighbor] /\ chan' \in [Router -> Seq(Message)]
    BY <2>1, <2>2, <2>6, UpdateTypes
  <2>8. QED
    BY <1>2, <1>5, <2>7 DEF SendDD, TypeOK
<1>6. CASE SendLSR(p)
  <2>1. [type |-> "LSR", ids |-> Listed(nbr[p].req)] \in Message
    BY <1>3, HeadersTypes, MessageTypes DEF Neighbor
  <2>2. chan' \in [Router -> Seq(Message)]
    BY <1>6, <2>1, UpdateTypes DEF SendLSR, TypeOK
  <2>3. timers' \in [Router -> [lsr : Nat, clear : Nat]]
    <3>1. timers' = timers \/ timers' = [timers EXCEPT ![p].lsr = timers[p].lsr + 1]
      BY <1>6, Zenon DEF SendLSR
    <3>2. timers[p].lsr + 1 \in Nat
      BY UpdateTypes
    <3>3. timers \in [Router -> [lsr : Nat, clear : Nat]]
      BY DEF TypeOK
    <3>4. [timers EXCEPT ![p].lsr = timers[p].lsr + 1]
            \in [Router -> [lsr : Nat, clear : Nat]]
      BY ONLY <3>2, <3>3
    <3>5. QED
      BY <3>1, <3>3, <3>4
  <2>4. QED
    BY <1>2, <1>6, <2>2, <2>3 DEF SendLSR, TypeOK
<1>7. CASE SendLSUDirect(p)
  <2>1. Head(due[p]).headers \in Headers
    BY <1>2, <1>7, DueCallTypes DEF SendLSUDirect
  <2>2. Current(p, Head(due[p]).headers) \in Headers
    BY <1>3, <2>1 DEF Current, Headers
  <2>3. chan' \in [Router -> Seq(Message)]
    BY <1>7, <2>2, MessageTypes, UpdateTypes DEF SendLSUDirect
  <2>4. QED
    BY <1>2, <1>7, <2>3 DEF SendLSUDirect, TypeOK
<1>8. CASE EntryPoint(p)
  <2>1. [type |-> "LSU", headers |-> Pick(lsdb[p], nbr[p].rxmt)] \in Message
    BY <1>3, HeadersTypes, MessageTypes
  <2>2. chan' \in [Router -> Seq(Message)]
    BY <1>8, <2>1, UpdateTypes DEF EntryPoint, SendRxmtList, TypeOK
  <2>3. QED
    BY <1>2, <1>8, <2>2 DEF EntryPoint, TypeOK
<1>9. QED
  BY <1>4, <1>5, <1>6, <1>7, <1>8 DEF RunDue

\* Handling one LSA of an update keeps every variable's type.
LEMMA HandleLSATypes ==
  ASSUME TypeOK, NEW p \in Router, HandleLSA(p)
  PROVE  TypeOK'
<1>1. nbr[p] \in Neighbor /\ lsdb[p] \in Headers /\ hand[p] \in Headers
  BY DEF TypeOK
<1>2. PICK k \in Listed(hand[p]) :
        \/ InstallLSA(p, k) \/ DropEarlyLSA(p, k) \/ BadLSRequest(p, k)
        \/ AnswerOldLSA(p, k) \/ SameLSA(p, k)
  BY DEF HandleLSA
<1>3. k \in Lsas /\ hand[p][k] \in Nat
  BY <1>1 DEF Listed, Headers
<1>4. CASE InstallLSA(p, k)
  <2> DEFINE m == AnswerRequest(nbr[p], p, k, hand[p][k])
             db == Reoriginate(lsdb[p], OriginatedBy(nbr[p], m, p))
  <2>1. m \in Neighbor
    BY <1>1, <1>3, NoteDDTypes
  <2>2. RemoveFromRxmtList(m, {k}) \in Neighbor
    <3> HIDE DEF m
    <3> QED
      BY <1>1, <2>1, NeighborTypes
  <2>3. [db EXCEPT ![k] = hand[p][k]] \in Headers
    BY <1>1, <1>3, HeadersTypes
  <2>4. nbr' \in [Router -> Neighbor]
    BY <1>4, <2>2, UpdateTypes DEF InstallLSA
  <2>5. lsdb' \in [Router -> Headers]
    BY <1>4, <2>3, UpdateTypes DEF InstallLSA
  <2>6. hand' \in [Router -> Headers]
    BY <1>3, <1>4, UpdateTypes DEF InstallLSA
  <2>7. young' \in [Router -> SUBSET Lsas]
    BY <1>3, <1>4 DEF InstallLSA, TypeOK
  <2>8. chan' \in [Router -> Seq(Message)]
    <3>1. PICK own \in BOOLEAN :
            chan' = [chan EXCEPT ![Peer(p)] =
                       @ \o <<FloodPacket(k, hand[p][k])>>
                         \o (IF own THEN <<FloodPacket(k, hand[p][k] + 1)>> ELSE <<>>)]
      BY <1>4, Zenon DEF InstallLSA
    <3>2. /\ FloodPacket(k, hand[p][k]) \in Message
          /\ FloodPacket(k, hand[p][k] + 1) \in Message
      BY <1>3, HeadersTypes, MessageTypes DEF FloodPacket
    <3>3. /\ <<FloodPacket(k, hand[p][k])>> \in Seq(Message)
          /\ (IF own THEN <<FloodPacket(k, hand[p][k] + 1)>> ELSE <<>>) \in Seq(Message)
      BY <3>2, OneElement, EmptySeq
    <3>4. chan \in [Router -> Seq(Message)] /\ Peer(p) \in Router
      BY PeerProperties DEF TypeOK
    <3>5. chan[Peer(p)] \o <<FloodPacket(k, hand[p][k])>> \in Seq(Message)
      BY <3>3, <3>4, QueueElements
    <3>6. chan[Peer(p)] \o <<FloodPacket(k, hand[p][k])>>
            \o (IF own THEN <<FloodPacket(k, hand[p][k] + 1)>> ELSE <<>>) \in Seq(Message)
      BY <3>3, <3>5, QueueElements
    <3>7. QED
      BY <3>1, <3>4, <3>6
  <2>9. QED
    BY <1>4, <2>4, <2>5, <2>6, <2>7, <2>8 DEF InstallLSA, TypeOK
<1>5. CASE DropEarlyLSA(p, k)
  <2>1. hand' \in [Router -> Headers]
    BY <1>3, <1>5, UpdateTypes DEF DropEarlyLSA
  <2>2. QED
    BY <1>5, <2>1 DEF DropEarlyLSA, TypeOK
<1>6. CASE BadLSRequest(p, k)
  <2>1. RestartExchange(nbr[p]) \in Neighbor
    BY <1>1, NeighborTypes
  <2>2. nbr' \in [Router -> Neighbor] /\ due' \in [Router -> Seq(DueCall)]
    BY <1>6, <2>1, DueCallTypes, UpdateTypes DEF BadLSRequest
  <2>3. hand' \in [Router -> Headers]
    BY <1>6, HeadersTypes DEF BadLSRequest, TypeOK
  <2>4. QED
    BY <1>6, <2>2, <2>3 DEF BadLSRequest, TypeOK
<1>7. CASE AnswerOldLSA(p, k)
  <2>1. AddRxmtList(nbr[p], {k}) \in Neighbor
    BY <1>1, <1>3, NeighborTypes
  <2>2. nbr' \in [Router -> Neighbor] /\ hand' \in [Router -> Headers]
    BY <1>1, <1>3, <1>7, <2>1, UpdateTypes DEF AnswerOldLSA
  <2>3. QED
    BY <1>7, <2>2 DEF AnswerOldLSA, TypeOK
<1>8. CASE SameLSA(p, k)
  <2>1. RemoveFromRxmtList(nbr[p], {k}) \in Neighbor
    BY <1>1, NeighborTypes
  <2>2. [type |-> "Ack", headers |-> Pick(lsdb[p], {k})] \in Message
    BY <1>1, HeadersTypes, MessageTypes
  <2>3. nbr' \in [Router -> Neighbor] /\ chan' \in [Router -> Seq(Message)]
    BY <1>8, <2>1, <2>2, UpdateTypes DEF SameLSA, TypeOK
  <2>4. hand' \in [Router -> Headers]
    BY <1>3, <1>8, UpdateTypes DEF SameLSA
  <2>5. QED
    BY <1>8, <2>3, <2>4 DEF SameLSA, TypeOK
<1>9. QED
  BY <1>2, <1>4, <1>5, <1>6, <1>7, <1>8

\* The timers keep every variable's type.
LEMMA TimerTypes ==
  ASSUME TypeOK, NEW p \in Router,
         \/ SendHelloPacket(p) \/ LSRTimer(p) \/ ClearLastPacket(p)
         \/ EntryPointTimer(p) \/ InactivityTimer(p)
  PROVE  TypeOK'
<1>1. nbr[p] \in Neighbor /\ lsdb[p] \in Headers
  BY DEF TypeOK
<1>2. timers \in [Router -> [lsr : Nat, clear : Nat]]
  BY DEF TypeOK
<1>3. CASE SendHelloPacket(p)
  <2>1. [type |-> "Hello", seen |-> nbr[p].state \in Active] \in Message
    <3>1. (nbr[p].state \in Active) \in BOOLEAN
      OBVIOUS
    <3>2. QED
      BY <3>1, MessageTypes
  <2>2. chan' \in [Router -> Seq(Message)]
    BY <1>3, <2>1, UpdateTypes DEF SendHelloPacket
  <2>3. QED
    BY <1>3, <2>2 DEF SendHelloPacket, TypeOK
<1>4. CASE LSRTimer(p)
  <2>1. [type |-> "LSR", ids |-> Listed(nbr[p].req)] \in Message
    BY <1>1, HeadersTypes, MessageTypes DEF Neighbor
  <2>2. chan' \in [Router -> Seq(Message)]
    BY <1>4, <2>1, UpdateTypes DEF LSRTimer, TypeOK
  <2>3. timers' \in [Router -> [lsr : Nat, clear : Nat]]
    <3>1. \/ timers' = timers
          \/ timers[p].lsr > 0 /\ timers' = [timers EXCEPT ![p].lsr = timers[p].lsr - 1]
      BY <1>4, Zenon DEF LSRTimer
    <3>2. timers[p].lsr > 0 => timers[p].lsr - 1 \in Nat
      BY UpdateTypes
    <3>3. QED
      BY <1>2, <3>1, <3>2, UpdateTypes
  <2>4. QED
    BY <1>4, <2>2, <2>3 DEF LSRTimer, TypeOK
<1>5. CASE ClearLastPacket(p)
  <2>1. [nbr[p] EXCEPT !.last = NoDD] \in Neighbor
    BY <1>1 DEF Neighbor, NoDD, LastDD
  <2>2. nbr' \in [Router -> Neighbor]
    BY <1>5, <2>1, UpdateTypes DEF ClearLastPacket
  <2>3. timers' \in [Router -> [lsr : Nat, clear : Nat]]
    <3>1. timers[p].clear > 0 /\ timers' = [timers EXCEPT ![p].clear = timers[p].clear - 1]
      BY <1>5, Zenon DEF ClearLastPacket
    <3>2. timers[p].clear - 1 \in Nat
      BY <3>1, UpdateTypes
    <3>3. QED
      BY <3>1, <3>2, UpdateTypes
  <2>4. QED
    BY <1>5, <2>2, <2>3 DEF ClearLastPacket, TypeOK
<1>6. CASE EntryPointTimer(p)
  <2>1. [type |-> "LSU", headers |-> Pick(lsdb[p], nbr[p].rxmt)] \in Message
    BY <1>1, HeadersTypes, MessageTypes
  <2>2. chan' \in [Router -> Seq(Message)]
    BY <1>6, <2>1, UpdateTypes DEF EntryPointTimer, SendRxmtList, TypeOK
  <2>3. QED
    BY <1>6, <2>2 DEF EntryPointTimer, TypeOK
<1>7. CASE InactivityTimer(p)
  <2>1. nbr' \in [Router -> Neighbor]
    BY <1>1, <1>7, NeighborTypes, UpdateTypes DEF InactivityTimer
  <2>2. faults' \in [loss : Nat, inactive : Nat]
    <3>1. faults \in [loss : Nat, inactive : Nat]
      BY DEF TypeOK
    <3>2. faults' = [faults EXCEPT !.inactive = @ + 1]
      BY <1>7 DEF InactivityTimer
    <3>3. QED
      BY <3>1, <3>2
  <2>3. QED
    BY <1>7, <2>1, <2>2 DEF InactivityTimer, TypeOK
<1>8. QED
  BY <1>3, <1>4, <1>5, <1>6, <1>7

\* Losses, the other links and the passing of time keep every variable's type.
LEMMA EnvironmentTypes ==
  ASSUME TypeOK
  PROVE  /\ \A p \in Router : Lose(p) \/ ForeignUpdate(p) \/ OriginateElsewhere(p) => TypeOK'
         /\ MinLSArrivalPasses => TypeOK'
<1>1. ASSUME NEW p \in Router, Lose(p) PROVE TypeOK'
  <2>1. chan' \in [Router -> Seq(Message)]
    BY <1>1, HeadPacket DEF Lose
  <2>2. faults' \in [loss : Nat, inactive : Nat]
    <3>1. faults \in [loss : Nat, inactive : Nat]
      BY DEF TypeOK
    <3>2. faults' = [faults EXCEPT !.loss = @ + 1]
      BY <1>1 DEF Lose
    <3>3. QED
      BY <3>1, <3>2
  <2>3. QED
    BY <1>1, <2>1, <2>2 DEF Lose, TypeOK
<1>2. ASSUME NEW p \in Router, ForeignUpdate(p) PROVE TypeOK'
  <2>0. PICK k \in Foreign, v \in 1..MaxForeign :
          LET n == nbr[p]
              m == IF k \in OffLink THEN n ELSE AnswerRequest(n, p, k, v)
              db == Reoriginate(lsdb[p], OriginatedBy(n, m, p))
          IN  /\ SetNbr(p, RemoveFromRxmtList(m, {k}))
              /\ lsdb' = [lsdb EXCEPT ![p] = [db EXCEPT ![k] = v]]
              /\ young' = [young EXCEPT ![p] = @ \cup {k}]
              /\ IF k \in OffLink THEN UNCHANGED chan ELSE Send(p, FloodPacket(k, v))
              /\ UNCHANGED <<mtu, warm, due, hand, timers, faults>>
    BY <1>2 DEF ForeignUpdate
  <2> DEFINE m == IF k \in OffLink THEN nbr[p] ELSE AnswerRequest(nbr[p], p, k, v)
  <2>1. /\ SetNbr(p, RemoveFromRxmtList(m, {k}))
        /\ lsdb' = [lsdb EXCEPT ![p] =
             [Reoriginate(lsdb[p], OriginatedBy(nbr[p], m, p)) EXCEPT ![k] = v]]
        /\ young' = [young EXCEPT ![p] = @ \cup {k}]
        /\ UNCHANGED chan \/ Send(p, FloodPacket(k, v))
        /\ UNCHANGED <<mtu, warm, due, hand, timers, faults>>
    BY <2>0
  <2>2. k \in Lsas /\ v \in Nat
    BY BoundAssumption DEF Lsas
  <2>3. nbr[p] \in Neighbor /\ lsdb[p] \in Headers
    BY DEF TypeOK
  <2>4. m \in Neighbor
    BY <2>2, <2>3, NoteDDTypes
  <2> HIDE DEF m
  <2>5. nbr' \in [Router -> Neighbor]
    BY <2>1, <2>3, <2>4, NeighborTypes, UpdateTypes
  <2>6. lsdb' \in [Router -> Headers]
    BY <2>1, <2>2, <2>3, HeadersTypes, UpdateTypes
  <2>7. FloodPacket(k, v) \in Message
    BY <2>2, HeadersTypes, MessageTypes DEF FloodPacket
  <2>8. chan' \in [Router -> Seq(Message)]
    BY <2>1, <2>7, UpdateTypes DEF TypeOK
  <2>9. young' \in [Router -> SUBSET Lsas]
    BY <2>1, <2>2 DEF TypeOK
  <2>10. QED
    BY <2>1, <2>5, <2>6, <2>8, <2>9 DEF TypeOK
<1>3. ASSUME NEW p \in Router, OriginateElsewhere(p) PROVE TypeOK'
  <2>1. nbr[p] \in Neighbor /\ lsdb[p] \in Headers
    BY DEF TypeOK
  <2>2. OwnLsas(p) \ {<<"link", p>>} \in SUBSET Lsas
    BY HeadersTypes
  <2>3. nbr' \in [Router -> Neighbor]
    BY <1>3, <2>1, <2>2, NeighborTypes, UpdateTypes DEF OriginateElsewhere
  <2>4. lsdb' \in [Router -> Headers]
    BY <1>3, <2>1, HeadersTypes, UpdateTypes DEF OriginateElsewhere
  <2>5. QED
    BY <1>3, <2>3, <2>4 DEF OriginateElsewhere, TypeOK
<1>4. ASSUME MinLSArrivalPasses PROVE TypeOK'
  BY <1>4 DEF MinLSArrivalPasses, TypeOK
<1>5. QED
  BY <1>1, <1>2, <1>3, <1>4

\* The initial states have the types.
LEMMA InitTypes == Init => TypeOK
<1> SUFFICES ASSUME Init PROVE TypeOK
  OBVIOUS
<1>1. PICK b \in [Router -> BOOLEAN] : nbr = [p \in Router |-> FreshNeighbor(b[p])]
  BY DEF Init
<1>2. nbr \in [Router -> Neighbor]
  BY <1>1, HeadersTypes DEF FreshNeighbor, Neighbor, NeighborState, NoDD, LastDD
<1>3. lsdb \in [Router -> Headers] /\ young \in [Router -> SUBSET Lsas]
  BY HeadersTypes DEF Init, Headers
<1>4. hand \in [Router -> Headers]
  BY HeadersTypes DEF Init
<1>5. [type |-> "Hello", seen |-> FALSE] \in Message
  BY MessageTypes
<1>6. chan \in [Router -> Seq(Message)] /\ due \in [Router -> Seq(DueCall)]
  BY <1>5, OneElement, EmptySeq DEF Init
<1>7. timers \in [Router -> [lsr : Nat, clear : Nat]] /\ faults \in [loss : Nat, inactive : Nat]
  BY DEF Init
<1>8. QED
  BY <1>2, <1>3, <1>4, <1>6, <1>7 DEF Init, TypeOK

\* A step that changes nothing keeps the types.
LEMMA StutterTypes == TypeOK /\ UNCHANGED vars => TypeOK'
BY DEF TypeOK, vars

\* Every step keeps the types.
LEMMA StepTypes == TypeOK /\ [Next]_vars => TypeOK'
<1> SUFFICES ASSUME TypeOK, [Next]_vars PROVE TypeOK'
  OBVIOUS
<1>1. ASSUME Next PROVE TypeOK'
  BY <1>1, ReceiveTypes, RunDueTypes, HandleLSATypes, TimerTypes, EnvironmentTypes DEF Next
<1>2. QED
  BY <1>1, StutterTypes

\* The variables keep the types of the data structures of the program: in particular a
\* neighbour is never seen in ATTEMPT, INIT or TWOWAY between two events, whatever the
\* order of packets, timers and ScheduleNow calls.
THEOREM TypeCorrect == Spec => []TypeOK
BY InitTypes, StepTypes, PTL DEF Spec

-----------------------------------------------------------------------------
(* What one step does.  The invariants below are proved from these effects, *)
(* so that the actions are looked at once.                                  *)

\* The steps of router p, and of the environment at p.
Acts(p) ==
  \/ Receive(p) \/ RunDue(p) \/ HandleLSA(p)
  \/ SendHelloPacket(p) \/ LSRTimer(p) \/ ClearLastPacket(p)
  \/ EntryPointTimer(p) \/ InactivityTimer(p)
  \/ Lose(p) \/ ForeignUpdate(p) \/ OriginateElsewhere(p)

\* The other router stays as it is, and nothing is added to p's own channel.
OnlyActor(p) ==
  LET q == Peer(p)
  IN  /\ nbr'[q] = nbr[q] /\ lsdb'[q] = lsdb[q] /\ hand'[q] = hand[q] /\ due'[q] = due[q]
      /\ Elements(chan'[p]) \subseteq Elements(chan[p])

\* A step of p is a step of p only.
LEMMA ActorOnly ==
  ASSUME TypeOK, NEW p \in Router, Acts(p)
  PROVE  OnlyActor(p)
<1> DEFINE changesOnly(v, w) == v = w \/ \E e : v = [w EXCEPT ![p] = e]
<1>1. Peer(p) \in Router /\ Peer(p) # p
  BY PeerProperties
<1>2. /\ nbr \in [Router -> Neighbor] /\ lsdb \in [Router -> Headers]
      /\ hand \in [Router -> Headers] /\ due \in [Router -> Seq(DueCall)]
      /\ chan \in [Router -> Seq(Message)]
  BY DEF TypeOK
<1>3. /\ changesOnly(nbr', nbr) /\ changesOnly(lsdb', lsdb)
      /\ changesOnly(hand', hand) /\ changesOnly(due', due)
      /\ \/ chan' = chan
         \/ chan[p] # <<>> /\ Consume(p)
         \/ \E c : chan' = [chan EXCEPT ![Peer(p)] = c]
  <2> USE DEF SetNbr, Schedule, Send, Arrives, Done
  <2>1. CASE Receive(p)
    BY <2>1, Zenon DEF Receive, ReceiveHelloPacket, ReceiveDDIgnored, ReceiveDDNegotiate,
         ReceiveDDMismatch, ReceiveDDAsMaster, ReceiveDDAsSlave,
         ReceiveLinkStateRequestPacket, ReceiveLinkStateUpdatePacket,
         ReceiveLinkStateAckPacket
  <2>2. CASE RunDue(p)
    BY <2>2, Zenon DEF RunDue, SendInitialDD, SendDD, SendLSR, SendLSUDirect, EntryPoint,
         SendRxmtList
  <2>3. CASE HandleLSA(p)
    BY <2>3, Zenon DEF HandleLSA, InstallLSA, DropEarlyLSA, BadLSRequest, AnswerOldLSA,
         SameLSA
  <2>4. CASE SendHelloPacket(p) \/ LSRTimer(p) \/ ClearLastPacket(p) \/ EntryPointTimer(p)
               \/ InactivityTimer(p)
    BY <2>4, Zenon DEF SendHelloPacket, LSRTimer, ClearLastPacket, EntryPointTimer,
         InactivityTimer, SendRxmtList
  <2>5. CASE Lose(p) \/ ForeignUpdate(p) \/ OriginateElsewhere(p)
    BY <2>5, Zenon DEF Lose, ForeignUpdate, OriginateElsewhere
  <2>6. QED
    BY <2>1, <2>2, <2>3, <2>4, <2>5 DEF Acts
<1>4. /\ nbr'[Peer(p)] = nbr[Peer(p)] /\ lsdb'[Peer(p)] = lsdb[Peer(p)]
      /\ hand'[Peer(p)] = hand[Peer(p)] /\ due'[Peer(p)] = due[Peer(p)]
  BY <1>1, <1>2, <1>3
<1>5. Elements(chan'[p]) \subseteq Elements(chan[p])
  <2>1. CASE chan[p] # <<>> /\ Consume(p)
    BY <1>2, <2>1, HeadPacket DEF Consume
  <2>2. CASE \E c : chan' = [chan EXCEPT ![Peer(p)] = c]
    BY <1>1, <1>2, <2>2
  <2>3. QED
    BY <1>3, <2>1, <2>2
<1>6. QED
  BY <1>4, <1>5 DEF OnlyActor

\* The lists of m hold only what those of n hold or, for the summary, the database of p.
ListsFrom(n, m, p) ==
  \A k \in Lsas : /\ m.req[k] \in {0, n.req[k]}
                  /\ m.summary[k] \in {0, n.summary[k], lsdb[p][k]}

\* No event of the neighbour state machine puts anything on the request list, and the
\* summary list comes from the database.
LEMMA EventLists ==
  ASSUME NEW n \in Neighbor, NEW p \in Router, lsdb[p] \in Headers
  PROVE  /\ ListsFrom(n, n, p)
         /\ ListsFrom(n, TwoWayReceived(HelloReceived(n)), p)
         /\ ListsFrom(n, NegotDone(n, p), p)
         /\ ListsFrom(n, IncrementSequenceNumber(n), p)
         /\ ListsFrom(n, ExchangeDone(n, p), p)
         /\ ListsFrom(n, LoadingDone(n, p), p)
         /\ ListsFrom(n, RestartExchange(n), p)
         /\ ListsFrom(n, KillNbr(n), p)
         /\ \A ks : ListsFrom(n, AddRxmtList(n, ks), p)
         /\ \A ks : ListsFrom(n, RemoveFromRxmtList(n, ks), p)
         /\ \A k \in Lsas : \A v : ListsFrom(n, AnswerRequest(n, p, k, v), p)
<1>1. /\ ListsFrom(n, n, p)
      /\ ListsFrom(n, IncrementSequenceNumber(n), p)
      /\ \A ks : ListsFrom(n, AddRxmtList(n, ks), p)
      /\ \A ks : ListsFrom(n, RemoveFromRxmtList(n, ks), p)
  BY DEF ListsFrom, IncrementSequenceNumber, AddRxmtList, RemoveFromRxmtList, Neighbor
<1>2. ListsFrom(n, TwoWayReceived(HelloReceived(n)), p)
  BY DEF ListsFrom, TwoWayReceived, HelloReceived, StartExchange, IncrementSequenceNumber,
         Neighbor
<1>3. ListsFrom(n, NegotDone(n, p), p)
  BY DEF ListsFrom, NegotDone, Pick, Neighbor
<1>4. \A m \in Neighbor : ListsFrom(m, EnterFull(m, p), p)
  BY DEF ListsFrom, EnterFull, AddRxmtList, Neighbor
<1>5. /\ ListsFrom(n, ExchangeDone(n, p), p)
      /\ \A m \in Neighbor : ListsFrom(m, LoadingDone(m, p), p)
  BY <1>4 DEF ListsFrom, ExchangeDone, LoadingDone, Neighbor
<1>6. /\ ListsFrom(n, RestartExchange(n), p)
      /\ ListsFrom(n, KillNbr(n), p)
  BY DEF ListsFrom, RestartExchange, KillNbr, ClearList, StartExchange,
         IncrementSequenceNumber, NoHeaders, Neighbor
<1>7. ASSUME NEW k \in Lsas, NEW v
      PROVE  ListsFrom(n, AnswerRequest(n, p, k, v), p)
  <2>1. RemoveFromRequestList(n, k) \in Neighbor
    BY NeighborTypes
  <2>2. ListsFrom(n, RemoveFromRequestList(n, k), p)
    BY DEF ListsFrom, RemoveFromRequestList, Neighbor, Headers
  <2>3. ListsFrom(n, LoadingDone(RemoveFromRequestList(n, k), p), p)
    BY <1>5, <2>1, <2>2 DEF ListsFrom
  <2>4. QED
    BY <1>1, <2>3 DEF AnswerRequest
<1>8. QED
  BY <1>1, <1>2, <1>3, <1>5, <1>6, <1>7

\* The effect of a step of p on its database, lists, calls and packets.
DatabaseEffect(p) ==
  \A k \in Lsas :
    \/ lsdb'[p][k] = lsdb[p][k]
    \/ /\ lsdb'[p][k] > lsdb[p][k]
       /\ k \in OwnLsas(p) \cup Foreign \/ lsdb'[p][k] = hand[p][k]

SummaryEffect(p) ==
  \A k \in Lsas : nbr'[p].summary[k] \in {0, nbr[p].summary[k], lsdb[p][k]}

RequestEffect(p) ==
  \A k \in Lsas :
    \/ nbr'[p].req[k] \in {0, nbr[p].req[k]}
    \/ \E m \in Elements(chan[p]) :
         m.type = "DD" /\ nbr'[p].req[k] = m.headers[k] /\ m.headers[k] > lsdb[p][k]

CallEffect(p) ==
  \A c \in Elements(due'[p]) :
    \/ c \in Elements(due[p])
    \/ c.call = "SendLSU" => \A k \in Lsas : c.headers[k] \in {0, lsdb[p][k]}

HandEffect(p) ==
  \A k \in Lsas :
    \/ hand'[p][k] \in {0, hand[p][k]}
    \/ \E m \in Elements(chan[p]) : m.type = "LSU" /\ hand'[p][k] = m.headers[k]

\* The last disjunct is the newer instance that answers one of p's own LSAs (13.4).
Stated(p, h) ==
  \A k \in Lsas :
    \/ h[k] \in {0, lsdb[p][k], lsdb'[p][k], nbr[p].summary[k]}
    \/ \E c \in Elements(due[p]) : c.call = "SendLSU" /\ h[k] = c.headers[k]
    \/ k \in OwnLsas(p) /\ hand[p][k] > lsdb[p][k]

PacketEffect(p) ==
  \A m \in Elements(chan'[Peer(p)]) :
    \/ m \in Elements(chan[Peer(p)])
    \/ /\ m.type = "LSR" => m.ids = Listed(nbr[p].req)
       /\ m.type \in {"DD", "LSU", "Ack"} => Stated(p, m.headers)

Effects(p) ==
  /\ DatabaseEffect(p) /\ SummaryEffect(p) /\ RequestEffect(p)
  /\ CallEffect(p) /\ HandEffect(p) /\ PacketEffect(p)

\* An append adds one element to the other router's channel, a queued call one to due.
LEMMA QueueEffects ==
  ASSUME TypeOK, NEW p \in Router
  PROVE  /\ \A m \in Message : Send(p, m) =>
              Elements(chan'[Peer(p)]) = Elements(chan[Peer(p)]) \cup {m}
         /\ \A cs \in Seq(DueCall) : Schedule(p, cs) =>
              Elements(due'[p]) = Elements(due[p]) \cup Elements(cs)
         /\ due[p] # <<>> /\ due' = [due EXCEPT ![p] = Tail(@)] =>
              Elements(due'[p]) \subseteq Elements(due[p])
         /\ Consume(p) => chan'[Peer(p)] = chan[Peer(p)]
<1>1. Peer(p) \in Router /\ Peer(p) # p
  BY PeerProperties
<1>2. due \in [Router -> Seq(DueCall)] /\ chan \in [Router -> Seq(Message)]
  BY DEF TypeOK
<1>3. ASSUME NEW m \in Message, Send(p, m)
      PROVE  Elements(chan'[Peer(p)]) = Elements(chan[Peer(p)]) \cup {m}
  <2>1. chan'[Peer(p)] = Append(chan[Peer(p)], m)
    BY <1>1, <1>2, <1>3 DEF Send
  <2>2. chan[Peer(p)] \in Seq(Message)
    BY <1>1, <1>2
  <2>3. QED
    BY <2>1, <2>2, QueueElements
<1>4. ASSUME NEW cs \in Seq(DueCall), Schedule(p, cs)
      PROVE  Elements(due'[p]) = Elements(due[p]) \cup Elements(cs)
  <2>1. due'[p] = due[p] \o cs /\ due[p] \in Seq(DueCall)
    BY <1>2, <1>4 DEF Schedule
  <2>2. QED
    BY <2>1, QueueElements
<1>5. ASSUME due[p] # <<>>, due' = [due EXCEPT ![p] = Tail(@)]
      PROVE  Elements(due'[p]) \subseteq Elements(due[p])
  BY <1>2, <1>5, HeadCall
<1>6. Consume(p) => chan'[Peer(p)] = chan[Peer(p)]
  BY <1>1, <1>2 DEF Consume
<1>7. QED
  BY <1>3, <1>4, <1>5, <1>6

\* The calls an event schedules are not updates.
LEMMA EventCallElements ==
  \A n, m : \A c \in Elements(EventCalls(n, m)) : c.call \in {"SendDD", "SendLSR"}
<1> SUFFICES ASSUME NEW n, NEW m, NEW c \in Elements(EventCalls(n, m))
             PROVE  c.call \in {"SendDD", "SendLSR"}
  OBVIOUS
<1>1. EventCalls(n, m) \in {<<SendDDCall(TRUE)>>, <<SendLSRCall>>, <<>>}
  BY DEF EventCalls
<1>2. /\ Elements(<<SendDDCall(TRUE)>>) = {SendDDCall(TRUE)}
      /\ Elements(<<SendLSRCall>>) = {SendLSRCall}
  <2>1. SendDDCall(TRUE) \in DueCall /\ SendLSRCall \in DueCall
    BY DueCallTypes
  <2>2. QED
    BY <2>1, OneElement
<1>3. Elements(<<>>) = {}
  BY DEF Elements
<1>4. c = SendDDCall(TRUE) \/ c = SendLSRCall
  BY <1>1, <1>2, <1>3, Zenon
<1>5. QED
  BY <1>4 DEF SendDDCall, SendLSRCall

\* The neighbour's record after a Database Description has been noted.
LEMMA NotedLists ==
  ASSUME TypeOK, NEW p \in Router, NEW dd
  PROVE  /\ ListsFrom(nbr[p], Known(p), p)
         /\ ListsFrom(nbr[p], NoteDD(p, dd), p)
         /\ Known(p).rxmt = nbr[p].rxmt /\ NoteDD(p, dd).rxmt = nbr[p].rxmt
         /\ Known(p).state = nbr[p].state /\ NoteDD(p, dd).state = nbr[p].state
         /\ Known(p).known = TRUE /\ NoteDD(p, dd).known = TRUE
<1>1. nbr[p] \in Neighbor /\ lsdb[p] \in Headers
  BY DEF TypeOK
<1>2. QED
  BY <1>1 DEF ListsFrom, Known, NoteDD, Neighbor

\* The instances a re-origination leaves: p's own grow, the others stay.
LEMMA ReoriginateEffect ==
  ASSUME TypeOK, NEW p \in Router, NEW ks, ks \subseteq OwnLsas(p),
         lsdb' = [lsdb EXCEPT ![p] = Reoriginate(@, ks)]
  PROVE  DatabaseEffect(p)
BY DEF TypeOK, DatabaseEffect, Reoriginate, Headers

\* What handling a packet does.
LEMMA ReceiveEffects ==
  ASSUME TypeOK, NEW p \in Router, Receive(p)
  PROVE  Effects(p)
<1> DEFINE m == Head(chan[p])
<1>1. chan[p] # <<>> /\ Consume(p)
  BY DEF Receive, Arrives, ReceiveHelloPacket, ReceiveDDIgnored, ReceiveDDNegotiate,
         ReceiveDDMismatch, ReceiveDDAsMaster, ReceiveDDAsSlave,
         ReceiveLinkStateRequestPacket, ReceiveLinkStateUpdatePacket,
         ReceiveLinkStateAckPacket
<1>2. m \in Message /\ m \in Elements(chan[p])
  BY <1>1, HeadPacket
<1>3. /\ nbr[p] \in Neighbor /\ lsdb[p] \in Headers /\ Known(p) \in Neighbor
      /\ m.type = "DD" => NoteDD(p, m) \in Neighbor /\ Wanted(p, m.headers) \in Headers
  BY <1>2, NoteDDTypes DEF TypeOK
<1>4. PacketEffect(p)
  BY <1>1, QueueEffects DEF PacketEffect
<1>5. HandEffect(p)
  <2>1. CASE ReceiveLinkStateUpdatePacket(p)
    <3>1. /\ m.type = "LSU"
          /\ hand' = [hand EXCEPT ![p] = IF nbr[p].state \in Synchronizing THEN m.headers ELSE @]
      BY <2>1 DEF ReceiveLinkStateUpdatePacket, Arrives
    <3>2. hand \in [Router -> Headers]
      BY DEF TypeOK
    <3> HIDE DEF m
    <3>3. hand'[p] = hand[p] \/ hand'[p] = m.headers
      BY <3>1, <3>2
    <3>4. QED
      BY <1>2, <3>1, <3>3 DEF HandEffect
  <2>2. CASE hand' = hand
    BY <2>2 DEF HandEffect
  <2>3. QED
    BY <2>1, <2>2 DEF Receive, ReceiveHelloPacket, ReceiveDDIgnored, ReceiveDDNegotiate,
         ReceiveDDMismatch, ReceiveDDAsMaster, ReceiveDDAsSlave,
         ReceiveLinkStateRequestPacket, ReceiveLinkStateAckPacket
<1>6. DatabaseEffect(p)
  <2>1. CASE lsdb' = lsdb
    BY <2>1 DEF DatabaseEffect
  <2>2. CASE \E ks \in SUBSET OwnLsas(p) : lsdb' = [lsdb EXCEPT ![p] = Reoriginate(@, ks)]
    BY <2>2, ReoriginateEffect
  <2>3. CASE \E ks, js \in SUBSET OwnLsas(p) :
               lsdb' = [lsdb EXCEPT ![p] = Reoriginate(Reoriginate(@, ks), js)]
    <3>1. PICK ks \in SUBSET OwnLsas(p), js \in SUBSET OwnLsas(p) :
               lsdb' = [lsdb EXCEPT ![p] = Reoriginate(Reoriginate(@, ks), js)]
      BY <2>3
    <3>2. ASSUME NEW k \in Lsas
          PROVE  \/ lsdb'[p][k] = lsdb[p][k]
                 \/ lsdb'[p][k] > lsdb[p][k] /\ k \in OwnLsas(p)
      BY <1>3, <3>1, <3>2 DEF TypeOK, Reoriginate, Headers
    <3>3. QED
      BY <3>2 DEF DatabaseEffect
  <2>4. /\ \A n, r : OriginatedBy(n, r, p) \in SUBSET OwnLsas(p)
        /\ {RouterLsa(p)} \in SUBSET OwnLsas(p)
    BY HeadersTypes DEF OriginatedBy
  <2>5. \/ lsdb' = lsdb
        \/ \E n, r : lsdb' = [lsdb EXCEPT ![p] = Reoriginate(@, OriginatedBy(n, r, p))]
        \/ \E n, r : lsdb' = [lsdb EXCEPT ![p] =
                       Reoriginate(Reoriginate(@, OriginatedBy(n, r, p)), {RouterLsa(p)})]
    BY Zenon DEF Receive, ReceiveHelloPacket, ReceiveDDIgnored, ReceiveDDNegotiate,
         ReceiveDDMismatch, ReceiveDDAsMaster, ReceiveDDAsSlave,
         ReceiveLinkStateRequestPacket, ReceiveLinkStateUpdatePacket,
         ReceiveLinkStateAckPacket
  <2>6. QED
    BY <2>1, <2>2, <2>3, <2>4, <2>5
<1>7. CallEffect(p)
  <2> DEFINE plain(cs) == \A c \in Elements(cs) :
               c.call = "SendLSU" => \A k \in Lsas : c.headers[k] \in {0, lsdb[p][k]}
  <2>1. ASSUME NEW cs \in Seq(DueCall), Schedule(p, cs), plain(cs)
        PROVE  CallEffect(p)
    BY <2>1, QueueEffects DEF CallEffect
  <2>2. plain(<<SendDDCall(FALSE)>>) /\ <<SendDDCall(FALSE)>> \in Seq(DueCall)
    <3>1. SendDDCall(FALSE) \in DueCall
      BY DueCallTypes
    <3>2. Elements(<<SendDDCall(FALSE)>>) = {SendDDCall(FALSE)}
      BY <3>1, OneElement
    <3>3. QED
      BY <3>1, <3>2, OneElement DEF SendDDCall
  <2>3. \A n, r : EventCalls(n, r) \in Seq(DueCall) /\ plain(EventCalls(n, r))
    BY EventCallElements, DueCallTypes
  <2>4. CASE ReceiveHelloPacket(p)
    <3>1. PICK n : Schedule(p, Append(EventCalls(nbr[p], n), EntryPointCall))
      BY <2>4, Zenon DEF ReceiveHelloPacket
    <3>2. EventCalls(nbr[p], n) \in Seq(DueCall) /\ EntryPointCall \in DueCall
      BY DueCallTypes
    <3>3. /\ Append(EventCalls(nbr[p], n), EntryPointCall) \in Seq(DueCall)
          /\ Elements(Append(EventCalls(nbr[p], n), EntryPointCall))
               = Elements(EventCalls(nbr[p], n)) \cup {EntryPointCall}
      BY <3>2, QueueElements
    <3>4. plain(Append(EventCalls(nbr[p], n), EntryPointCall))
      BY <2>3, <3>3 DEF EntryPointCall
    <3>5. QED
      BY <2>1, <3>1, <3>3, <3>4
  <2>5. CASE ReceiveLinkStateRequestPacket(p)
    <3>1. PICK ks, n, r : \/ Schedule(p, <<SendLSUCall(Pick(lsdb[p], ks))>>)
                          \/ Schedule(p, EventCalls(n, r))
      BY <2>5, Zenon DEF ReceiveLinkStateRequestPacket
    <3>2. SendLSUCall(Pick(lsdb[p], ks)) \in DueCall
      BY <1>3, DueCallTypes, HeadersTypes
    <3>3. /\ <<SendLSUCall(Pick(lsdb[p], ks))>> \in Seq(DueCall)
          /\ Elements(<<SendLSUCall(Pick(lsdb[p], ks))>>) = {SendLSUCall(Pick(lsdb[p], ks))}
      BY <3>2, OneElement
    <3>4. plain(<<SendLSUCall(Pick(lsdb[p], ks))>>)
      BY <3>3 DEF SendLSUCall, Pick
    <3>5. QED
      BY <2>1, <2>3, <3>1, <3>3, <3>4
  <2>6. CASE ReceiveDDAsSlave(p)
    <3>1. PICK n, r : \/ Schedule(p, <<SendDDCall(FALSE)>>)
                      \/ Schedule(p, <<SendDDCall(FALSE)>> \o EventCalls(n, r))
      BY <2>6, Zenon DEF ReceiveDDAsSlave
    <3>2. /\ <<SendDDCall(FALSE)>> \o EventCalls(n, r) \in Seq(DueCall)
          /\ Elements(<<SendDDCall(FALSE)>> \o EventCalls(n, r))
               = Elements(<<SendDDCall(FALSE)>>) \cup Elements(EventCalls(n, r))
      <4> DEFINE q == <<SendDDCall(FALSE)>>
                 c == EventCalls(n, r)
      <4>1. q \in Seq(DueCall) /\ c \in Seq(DueCall)
        BY <2>2, <2>3
      <4> HIDE DEF q, c
      <4>2. q \o c \in Seq(DueCall) /\ Elements(q \o c) = Elements(q) \cup Elements(c)
        BY <4>1, QueueElements
      <4>3. QED
        BY <4>2 DEF q, c
    <3>3. plain(<<SendDDCall(FALSE)>> \o EventCalls(n, r))
      BY <2>2, <2>3, <3>2
    <3>4. QED
      BY <2>1, <2>2, <3>1, <3>2, <3>3
  <2>7. CASE ReceiveDDNegotiate(p) \/ ReceiveDDMismatch(p) \/ ReceiveDDAsMaster(p)
    <3>1. PICK n, r : \/ Schedule(p, <<SendDDCall(FALSE)>>)
                      \/ Schedule(p, EventCalls(n, r))
      BY <2>7, Zenon DEF ReceiveDDNegotiate, ReceiveDDMismatch, ReceiveDDAsMaster
    <3>2. QED
      BY <2>1, <2>2, <2>3, <3>1
  <2>8. CASE due' = due
    BY <2>8 DEF CallEffect
  <2>9. QED
    BY <2>4, <2>5, <2>6, <2>7, <2>8 DEF Receive, ReceiveDDIgnored,
         ReceiveLinkStateUpdatePacket, ReceiveLinkStateAckPacket
<1>8. SummaryEffect(p) /\ RequestEffect(p)
  <2> DEFINE added(n) == \A k \in Lsas :
               \/ n.req[k] \in {0, nbr[p].req[k]}
               \/ m.type = "DD" /\ n.req[k] = m.headers[k] /\ m.headers[k] > lsdb[p][k]
             fine(n) == /\ \A k \in Lsas : n.summary[k] \in {0, nbr[p].summary[k], lsdb[p][k]}
                        /\ added(n)
  <2>1. ASSUME NEW n, SetNbr(p, n), fine(n)
        PROVE  SummaryEffect(p) /\ RequestEffect(p)
    <3>1. nbr'[p] = n
      BY <2>1 DEF SetNbr, TypeOK
    <3>2. QED
      BY <1>2, <2>1, <3>1 DEF SummaryEffect, RequestEffect
  <2>2. \A n : ListsFrom(nbr[p], n, p) => fine(n)
    BY DEF ListsFrom
  <2>3. \A n, r : fine(n) /\ ListsFrom(n, r, p) => fine(r)
    BY DEF ListsFrom
  <2>4. /\ ListsFrom(nbr[p], Known(p), p)
        /\ ListsFrom(nbr[p], NoteDD(p, m), p)
    BY NotedLists
  <2>5. CASE ReceiveHelloPacket(p)
    <3>1. ListsFrom(Known(p), TwoWayReceived(HelloReceived(Known(p))), p)
      BY <1>3, EventLists
    <3>2. fine(TwoWayReceived(HelloReceived(Known(p))))
      BY <2>2, <2>3, <2>4, <3>1
    <3>3. SetNbr(p, TwoWayReceived(HelloReceived(Known(p))))
      BY <2>5 DEF ReceiveHelloPacket
    <3>4. QED
      BY <2>1, <3>2, <3>3
  <2>6. CASE ReceiveLinkStateRequestPacket(p)
    <3>1. ListsFrom(Known(p), RestartExchange(Known(p)), p)
      BY <1>3, EventLists
    <3>2. fine(Known(p)) /\ fine(RestartExchange(Known(p)))
      BY <2>2, <2>3, <2>4, <3>1
    <3>3. SetNbr(p, Known(p)) \/ SetNbr(p, RestartExchange(Known(p)))
      BY <2>6 DEF ReceiveLinkStateRequestPacket
    <3>4. QED
      BY <2>1, <3>2, <3>3
  <2>7. CASE ReceiveLinkStateUpdatePacket(p) \/ ReceiveLinkStateAckPacket(p)
    <3>1. \A ks : ListsFrom(Known(p), RemoveFromRxmtList(Known(p), ks), p)
      BY <1>3, EventLists
    <3>2. fine(Known(p)) /\ \A ks : fine(RemoveFromRxmtList(Known(p), ks))
      BY <2>2, <2>3, <2>4, <3>1
    <3>3. SetNbr(p, Known(p)) \/ \E ks : SetNbr(p, RemoveFromRxmtList(Known(p), ks))
      BY <2>7, Zenon DEF ReceiveLinkStateUpdatePacket, ReceiveLinkStateAckPacket
    <3>4. QED
      BY <2>1, <3>2, <3>3
  <2>8. ASSUME m.type = "DD"
        PROVE  fine(AddRequestList(NoteDD(p, m), Wanted(p, m.headers)))
    <3> DEFINE a == AddRequestList(NoteDD(p, m), Wanted(p, m.headers))
    <3>1. NoteDD(p, m) \in Neighbor /\ Wanted(p, m.headers) \in Headers
      BY <1>3, <2>8
    <3>2. /\ a.summary = NoteDD(p, m).summary
          /\ \A k \in Lsas : a.req[k] \in {NoteDD(p, m).req[k], Wanted(p, m.headers)[k]}
      BY <3>1 DEF AddRequestList, Neighbor, Headers
    <3>3. \A k \in Lsas : \/ Wanted(p, m.headers)[k] = 0
                          \/ /\ Wanted(p, m.headers)[k] = m.headers[k]
                             /\ m.headers[k] > lsdb[p][k]
      BY DEF Wanted, MoreRecent
    <3> HIDE DEF a
    <3>4. QED
      BY <2>2, <2>4, <2>8, <3>2, <3>3 DEF a
  <2>9. CASE ReceiveDDIgnored(p) \/ ReceiveDDMismatch(p)
    <3>1. m.type = "DD"
      BY <2>9 DEF ReceiveDDIgnored, ReceiveDDMismatch, Arrives
    <3>2. ListsFrom(NoteDD(p, m), RestartExchange(NoteDD(p, m)), p)
      BY <1>3, <3>1, EventLists
    <3>3. fine(NoteDD(p, m)) /\ fine(RestartExchange(NoteDD(p, m)))
      BY <2>2, <2>3, <2>4, <3>2
    <3>4. SetNbr(p, NoteDD(p, m)) \/ SetNbr(p, RestartExchange(NoteDD(p, m)))
      BY <2>9, Zenon DEF ReceiveDDIgnored, ReceiveDDMismatch
    <3>5. QED
      BY <2>1, <3>3, <3>4
  <2>10. CASE ReceiveDDNegotiate(p)
    <3> DEFINE s == [NoteDD(p, m) EXCEPT !.master = FALSE, !.seq = m.seq]
               t == [NoteDD(p, m) EXCEPT !.master = TRUE]
    <3>1. m.type = "DD" /\ m.seq \in Nat
      BY <1>2, <2>10, MessageTypes DEF ReceiveDDNegotiate, Arrives
    <3>2. NoteDD(p, m) \in Neighbor
      BY <1>3, <3>1
    <3>3. s \in Neighbor /\ ListsFrom(NoteDD(p, m), s, p)
      <4>1. [NoteDD(p, m) EXCEPT !.seq = m.seq] \in Neighbor
        BY <3>1, <3>2 DEF Neighbor
      <4>2. s \in Neighbor
        BY <3>2, <4>1 DEF Neighbor
      <4>3. QED
        BY <3>2, <4>2 DEF Neighbor, ListsFrom
    <3>4. t \in Neighbor /\ ListsFrom(NoteDD(p, m), t, p)
      BY <3>2 DEF Neighbor, ListsFrom
    <3>5. SetNbr(p, NegotDone(s, p)) \/ SetNbr(p, IncrementSequenceNumber(NegotDone(t, p)))
      BY <2>10 DEF ReceiveDDNegotiate
    <3> HIDE DEF s, t
    <3>6. fine(s) /\ fine(t)
      BY <2>2, <2>3, <2>4, <3>3, <3>4
    <3>7. fine(NegotDone(s, p)) /\ fine(NegotDone(t, p)) /\ NegotDone(t, p) \in Neighbor
      <4>1. ListsFrom(s, NegotDone(s, p), p) /\ ListsFrom(t, NegotDone(t, p), p)
        BY <1>3, <3>3, <3>4, EventLists
      <4>2. NegotDone(t, p) \in Neighbor
        BY <1>3, <3>4, NeighborTypes
      <4>3. QED
        BY <2>3, <3>6, <4>1, <4>2
    <3>8. fine(IncrementSequenceNumber(NegotDone(t, p)))
      <4>1. ListsFrom(NegotDone(t, p), IncrementSequenceNumber(NegotDone(t, p)), p)
        BY <1>3, <3>7, EventLists
      <4>2. QED
        BY <2>3, <3>7, <4>1
    <3>9. QED
      BY <2>1, <3>5, <3>7, <3>8
  <2>11. CASE ReceiveDDAsMaster(p) \/ ReceiveDDAsSlave(p)
    <3> DEFINE a == AddRequestList(NoteDD(p, m), Wanted(p, m.headers))
               t == IncrementSequenceNumber(a)
               s == [a EXCEPT !.seq = m.seq]
    <3>1. m.type = "DD" /\ m.seq \in Nat
      BY <1>2, <2>11, MessageTypes DEF ReceiveDDAsMaster, ReceiveDDAsSlave, Arrives
    <3>2. a \in Neighbor /\ fine(a)
      BY <1>3, <2>8, <3>1, NeighborTypes
    <3>3. \/ SetNbr(p, t) \/ SetNbr(p, ExchangeDone(t, p))
          \/ SetNbr(p, s) \/ SetNbr(p, AddRxmtList(ExchangeDone(s, p), {RouterLsa(p)}))
      BY <2>11 DEF ReceiveDDAsMaster, ReceiveDDAsSlave
    <3> HIDE DEF a
    <3>4. /\ t \in Neighbor /\ ListsFrom(a, t, p)
          /\ s \in Neighbor /\ ListsFrom(a, s, p)
      <4>1. t \in Neighbor /\ ListsFrom(a, t, p)
        BY <1>3, <3>2, EventLists, NeighborTypes
      <4>2. s \in Neighbor /\ ListsFrom(a, s, p)
        BY <3>1, <3>2 DEF Neighbor, ListsFrom
      <4>3. QED
        BY <4>1, <4>2
    <3> HIDE DEF s, t
    <3>5. fine(t) /\ fine(s)
      BY <2>3, <3>2, <3>4
    <3>6. /\ fine(ExchangeDone(t, p)) /\ fine(ExchangeDone(s, p))
          /\ ExchangeDone(s, p) \in Neighbor
      <4>1. ListsFrom(t, ExchangeDone(t, p), p) /\ ListsFrom(s, ExchangeDone(s, p), p)
        BY <1>3, <3>4, EventLists
      <4>2. ExchangeDone(s, p) \in Neighbor
        BY <1>3, <3>4, NeighborTypes
      <4>3. QED
        BY <2>3, <3>5, <4>1, <4>2
    <3>7. fine(AddRxmtList(ExchangeDone(s, p), {RouterLsa(p)}))
      <4>1. \A ks : ListsFrom(ExchangeDone(s, p), AddRxmtList(ExchangeDone(s, p), ks), p)
        BY <1>3, <3>6, EventLists
      <4>2. QED
        BY <2>3, <3>6, <4>1
    <3>8. QED
      BY <2>1, <3>3, <3>5, <3>6, <3>7
  <2>12. QED
    BY <2>5, <2>6, <2>7, <2>9, <2>10, <2>11 DEF Receive
<1>9. QED
  BY <1>4, <1>5, <1>6, <1>7, <1>8 DEF Effects

\* What the calls made by ScheduleNow do.
LEMMA RunDueEffects ==
  ASSUME TypeOK, NEW p \in Router, RunDue(p)
  PROVE  Effects(p)
<1>1. due[p] # <<>> /\ due' = [due EXCEPT ![p] = Tail(@)] /\ lsdb' = lsdb /\ hand' = hand
  BY DEF RunDue, SendInitialDD, SendDD, SendLSR, SendLSUDirect, EntryPoint
<1>2. DatabaseEffect(p) /\ HandEffect(p)
  BY <1>1 DEF DatabaseEffect, HandEffect
<1>3. CallEffect(p)
  BY <1>1, QueueEffects DEF CallEffect
<1>4. nbr[p] \in Neighbor /\ lsdb[p] \in Headers
  BY DEF TypeOK
<1>5. ASSUME NEW m \in Message, Send(p, m),
             m.type = "LSR" => m.ids = Listed(nbr[p].req),
             m.type \in {"DD", "LSU", "Ack"} => Stated(p, m.headers)
      PROVE  PacketEffect(p)
  BY <1>5, QueueEffects DEF PacketEffect
<1>6. chan' = chan => PacketEffect(p)
  BY DEF PacketEffect
<1>7. nbr' = nbr => SummaryEffect(p) /\ RequestEffect(p)
  BY DEF SummaryEffect, RequestEffect
<1>8. CASE SendInitialDD(p)
  <2>1. nbr[p].seq \in Nat /\ NoHeaders \in Headers
    BY <1>4, HeadersTypes DEF Neighbor
  <2> DEFINE m == [type |-> "DD", init |-> TRUE, more |-> TRUE, master |-> TRUE,
                   seq |-> nbr[p].seq, headers |-> NoHeaders]
  <2>2. m \in Message
    BY <2>1, MessageTypes
  <2>3. Send(p, m) /\ nbr' = nbr
    BY <1>8 DEF SendInitialDD
  <2>4. m.type = "DD" /\ Stated(p, m.headers)
    BY DEF Stated, NoHeaders
  <2> HIDE DEF m
  <2>5. QED
    BY <1>2, <1>3, <1>5, <1>7, <2>2, <2>3, <2>4 DEF Effects
<1>9. CASE SendDD(p)
  <2>1. PICK ks \in NextSummary(nbr[p]), shared \in BOOLEAN :
          /\ SetNbr(p, [nbr[p] EXCEPT !.summary = Pick(@, Lsas \ ks)])
          /\ Send(p, [type |-> "DD", init |-> FALSE,
                      more |-> IF nbr[p].master THEN nbr[p].summary # NoHeaders
                                                ELSE nbr[p].last.more,
                      master |-> nbr[p].master, seq |-> nbr[p].seq,
                      headers |-> Described(p, ks, shared)])
    BY <1>9 DEF SendDD
  <2> DEFINE m == [type |-> "DD", init |-> FALSE,
                   more |-> IF nbr[p].master THEN nbr[p].summary # NoHeaders
                                             ELSE nbr[p].last.more,
                   master |-> nbr[p].master, seq |-> nbr[p].seq,
                   headers |-> Described(p, ks, shared)]
  <2>2. Described(p, ks, shared) \in Headers /\ Stated(p, Described(p, ks, shared))
    BY <1>4 DEF Described, Stated, Neighbor, Headers
  <2>3. /\ nbr[p].master \in BOOLEAN /\ nbr[p].last.more \in BOOLEAN
        /\ nbr[p].seq \in Nat
    BY <1>4 DEF Neighbor, LastDD
  <2>4. (IF nbr[p].master THEN nbr[p].summary # NoHeaders ELSE nbr[p].last.more) \in BOOLEAN
    BY <2>3
  <2>5. m \in Message
    BY <2>2, <2>3, <2>4, MessageTypes
  <2>6. m.type = "DD" /\ m.headers = Described(p, ks, shared) /\ Send(p, m)
    BY <2>1
  <2> HIDE DEF m
  <2>7. PacketEffect(p)
    BY <1>5, <2>2, <2>5, <2>6
  <2>8. nbr'[p] = [nbr[p] EXCEPT !.summary = Pick(@, Lsas \ ks)]
    BY <2>1 DEF SetNbr, TypeOK
  <2>9. SummaryEffect(p) /\ RequestEffect(p)
    BY <1>4, <2>8 DEF SummaryEffect, RequestEffect, Neighbor, Pick
  <2>10. QED
    BY <1>2, <1>3, <2>7, <2>9 DEF Effects
<1>10. CASE SendLSR(p)
  <2> DEFINE m == [type |-> "LSR", ids |-> Listed(nbr[p].req)]
  <2>1. m \in Message
    BY <1>4, HeadersTypes, MessageTypes DEF Neighbor
  <2>2. (chan' = chan \/ Send(p, m)) /\ nbr' = nbr
    BY <1>10 DEF SendLSR
  <2>3. m.type = "LSR" /\ m.ids = Listed(nbr[p].req)
    OBVIOUS
  <2> HIDE DEF m
  <2>4. QED
    BY <1>2, <1>3, <1>5, <1>6, <1>7, <2>1, <2>2, <2>3 DEF Effects
<1>11. CASE SendLSUDirect(p)
  <2> DEFINE c == Head(due[p])
             m == [type |-> "LSU", headers |-> Current(p, c.headers)]
  <2>1. c \in DueCall /\ c \in Elements(due[p]) /\ c.call = "SendLSU"
    BY <1>1, <1>11, HeadCall DEF SendLSUDirect
  <2>2. c.headers \in Headers
    BY <2>1, DueCallTypes
  <2>3. Current(p, c.headers) \in Headers /\ Stated(p, Current(p, c.headers))
    <3> HIDE DEF c
    <3>1. QED
      BY <1>4, <2>1, <2>2 DEF Current, Stated, Headers
  <2>4. m \in Message
    BY <2>3, MessageTypes
  <2>5. Send(p, m) /\ nbr' = nbr
    BY <1>11 DEF SendLSUDirect
  <2>6. m.type = "LSU" /\ Stated(p, m.headers)
    BY <2>3
  <2> HIDE DEF m
  <2>7. QED
    BY <1>2, <1>3, <1>5, <1>7, <2>4, <2>5, <2>6 DEF Effects
<1>12. CASE EntryPoint(p)
  <2> DEFINE m == [type |-> "LSU", headers |-> Pick(lsdb[p], nbr[p].rxmt)]
  <2>1. m \in Message
    BY <1>4, HeadersTypes, MessageTypes
  <2>2. (chan' = chan \/ Send(p, m)) /\ nbr' = nbr
    BY <1>12 DEF EntryPoint, SendRxmtList
  <2>3. m.type = "LSU" /\ Stated(p, m.headers)
    BY DEF Stated, Pick
  <2> HIDE DEF m
  <2>4. QED
    BY <1>2, <1>3, <1>5, <1>6, <1>7, <2>1, <2>2, <2>3 DEF Effects
<1>13. QED
  BY <1>8, <1>9, <1>10, <1>11, <1>12 DEF RunDue

\* What handling one LSA of an update does.
LEMMA HandleLSAEffects ==
  ASSUME TypeOK, NEW p \in Router, HandleLSA(p)
  PROVE  Effects(p)
<1>1. nbr[p] \in Neighbor /\ lsdb[p] \in Headers /\ hand[p] \in Headers
  BY DEF TypeOK
<1>2. PICK k \in Listed(hand[p]) :
        \/ InstallLSA(p, k) \/ DropEarlyLSA(p, k) \/ BadLSRequest(p, k)
        \/ AnswerOldLSA(p, k) \/ SameLSA(p, k)
  BY DEF HandleLSA
<1>3. k \in Lsas /\ hand[p][k] \in Nat
  BY <1>1 DEF Listed, Headers
<1>4. HandEffect(p)
  <2>1. Done(p, k) \/ hand' = [hand EXCEPT ![p] = NoHeaders]
    BY <1>2 DEF InstallLSA, DropEarlyLSA, BadLSRequest, AnswerOldLSA, SameLSA
  <2>2. QED
    BY <1>1, <1>3, <2>1 DEF Done, HandEffect, NoHeaders, TypeOK, Headers
<1>5. CallEffect(p)
  <2>1. due' = due \/ \E n, r : Schedule(p, EventCalls(n, r))
    BY <1>2, Zenon DEF InstallLSA, DropEarlyLSA, BadLSRequest, AnswerOldLSA, SameLSA
  <2>2. ASSUME NEW n, NEW r, Schedule(p, EventCalls(n, r))
        PROVE  CallEffect(p)
    BY <2>2, EventCallElements, DueCallTypes, QueueEffects DEF CallEffect
  <2>3. QED
    BY <2>1, <2>2 DEF CallEffect
<1>6. ASSUME NEW n, SetNbr(p, n), ListsFrom(nbr[p], n, p)
      PROVE  SummaryEffect(p) /\ RequestEffect(p)
  <2>1. nbr'[p] = n
    BY <1>6 DEF SetNbr, TypeOK
  <2>2. QED
    BY <1>6, <2>1 DEF SummaryEffect, RequestEffect, ListsFrom
<1>7. nbr' = nbr => SummaryEffect(p) /\ RequestEffect(p)
  BY DEF SummaryEffect, RequestEffect
<1>8. CASE InstallLSA(p, k)
  <2> DEFINE v == hand[p][k]
             m == AnswerRequest(nbr[p], p, k, v)
             db == Reoriginate(lsdb[p], OriginatedBy(nbr[p], m, p))
             own == k \in OwnLsas(p)
  <2>1. m \in Neighbor /\ ListsFrom(nbr[p], m, p)
    BY <1>1, <1>3, EventLists, NoteDDTypes
  <2>2. ListsFrom(nbr[p], RemoveFromRxmtList(m, {k}), p)
    <3> HIDE DEF m
    <3>1. ListsFrom(m, RemoveFromRxmtList(m, {k}), p)
      BY <1>1, <2>1, EventLists
    <3>2. QED
      BY <2>1, <3>1 DEF ListsFrom
  <2>3. SummaryEffect(p) /\ RequestEffect(p)
    <3>1. SetNbr(p, RemoveFromRxmtList(m, {k}))
      BY <1>8 DEF InstallLSA
    <3>2. QED
      BY <1>6, <2>2, <3>1
  <2>4. DatabaseEffect(p)
    <3>1. lsdb' = [lsdb EXCEPT ![p] = [db EXCEPT ![k] = v]] /\ v > lsdb[p][k]
      BY <1>8 DEF InstallLSA, MoreRecent
    <3>2. /\ OriginatedBy(nbr[p], m, p) \subseteq OwnLsas(p)
      BY DEF OriginatedBy
    <3>3. /\ db \in Headers
          /\ \A j \in Lsas : \/ db[j] = lsdb[p][j]
                             \/ db[j] > lsdb[p][j] /\ j \in OwnLsas(p)
      <4> DEFINE os == OriginatedBy(nbr[p], m, p)
      <4> HIDE DEF os
      <4>1. QED
        BY <1>1, <3>2 DEF Reoriginate, Headers, os
    <3> HIDE DEF db
    <3>4. lsdb'[p] = [db EXCEPT ![k] = v]
      BY <3>1 DEF TypeOK
    <3>5. QED
      BY <1>1, <1>3, <3>1, <3>3, <3>4 DEF DatabaseEffect, Headers
  <2>5. PacketEffect(p)
    <3> DEFINE a == FloodPacket(k, v)
               b == FloodPacket(k, v + 1)
               q == chan[Peer(p)]
               extra == IF own THEN <<b>> ELSE <<>>
    <3>1. /\ chan' = [chan EXCEPT ![Peer(p)] = q \o <<a>> \o extra]
          /\ lsdb' = [lsdb EXCEPT ![p] = [db EXCEPT ![k] = v]] /\ v > lsdb[p][k]
      BY <1>8 DEF InstallLSA, MoreRecent
    <3>2. a \in Message /\ b \in Message
      BY <1>3, HeadersTypes, MessageTypes DEF FloodPacket
    <3>3. q \in Seq(Message) /\ chan'[Peer(p)] = q \o <<a>> \o extra
      <4>1. chan \in [Router -> Seq(Message)] /\ Peer(p) \in Router
        BY PeerProperties DEF TypeOK
      <4>2. QED
        BY <3>1, <4>1
    <3>4. /\ a.type = "LSU" /\ a.headers = [NoHeaders EXCEPT ![k] = v]
          /\ b.type = "LSU" /\ b.headers = [NoHeaders EXCEPT ![k] = v + 1]
      BY DEF FloodPacket
    <3>5. lsdb'[p][k] = v
      <4>1. db \in Headers
        BY <1>1, HeadersTypes
      <4> HIDE DEF db
      <4>2. lsdb'[p] = [db EXCEPT ![k] = v]
        BY <3>1 DEF TypeOK
      <4>3. QED
        BY <1>3, <4>1, <4>2 DEF Headers
    <3>6. Stated(p, a.headers)
      BY <1>3, <3>4, <3>5 DEF Stated, NoHeaders
    <3>7. own => Stated(p, b.headers)
      BY <1>3, <3>1, <3>4 DEF Stated, NoHeaders
    <3> HIDE DEF a, b, q
    <3>8. /\ <<a>> \in Seq(Message) /\ Elements(<<a>>) = {a}
          /\ <<b>> \in Seq(Message) /\ Elements(<<b>>) = {b}
      BY <3>2, OneElement
    <3>9. extra \in Seq(Message) /\ Elements(extra) \subseteq {b}
          /\ (Elements(extra) # {} => own)
      <4>1. CASE own
        BY <3>8, <4>1
      <4>2. CASE ~own
        BY <4>2, EmptySeq DEF Elements
      <4>3. QED
        BY <4>1, <4>2
    <3> HIDE DEF extra
    <3>10. q \o <<a>> \in Seq(Message) /\ Elements(q \o <<a>>) = Elements(q) \cup {a}
      <4> DEFINE t == <<a>>
      <4>1. t \in Seq(Message) /\ Elements(t) = {a} /\ q \in Seq(Message)
        BY <3>3, <3>8
      <4> HIDE DEF t
      <4>2. q \o t \in Seq(Message) /\ Elements(q \o t) = Elements(q) \cup Elements(t)
        BY <4>1, QueueElements
      <4>3. QED
        BY <4>1, <4>2 DEF t
    <3> DEFINE r == q \o <<a>>
    <3>11. Elements(chan'[Peer(p)]) = Elements(q) \cup {a} \cup Elements(extra)
      <4>1. r \in Seq(Message) /\ Elements(r) = Elements(q) \cup {a}
        BY <3>10
      <4>2. chan'[Peer(p)] = r \o extra
        BY <3>3
      <4> HIDE DEF r
      <4>3. Elements(r \o extra) = Elements(r) \cup Elements(extra)
        BY <3>9, <4>1, QueueElements
      <4>4. QED
        BY <4>1, <4>2, <4>3
    <3>12. ASSUME NEW d \in Elements(chan'[Peer(p)])
           PROVE  \/ d \in Elements(q)
                  \/ d.type = "LSU" /\ Stated(p, d.headers)
      BY <3>4, <3>6, <3>7, <3>9, <3>11
    <3>13. QED
      BY <3>12 DEF PacketEffect, q
  <2>6. QED
    BY <1>4, <1>5, <2>3, <2>4, <2>5 DEF Effects
<1>9. CASE DropEarlyLSA(p, k)
  <2>1. lsdb' = lsdb /\ nbr' = nbr /\ chan' = chan
    BY <1>9 DEF DropEarlyLSA
  <2>2. QED
    BY <1>4, <1>5, <1>7, <2>1 DEF Effects, DatabaseEffect, PacketEffect
<1>10. CASE BadLSRequest(p, k) \/ AnswerOldLSA(p, k)
  <2>1. /\ lsdb' = lsdb /\ chan' = chan
        /\ \/ SetNbr(p, RestartExchange(nbr[p]))
           \/ SetNbr(p, AddRxmtList(nbr[p], {k}))
           \/ SetNbr(p, nbr[p])
    BY <1>10 DEF BadLSRequest, AnswerOldLSA
  <2>2. /\ ListsFrom(nbr[p], RestartExchange(nbr[p]), p)
        /\ ListsFrom(nbr[p], AddRxmtList(nbr[p], {k}), p)
        /\ ListsFrom(nbr[p], nbr[p], p)
    BY <1>1, EventLists
  <2>3. SummaryEffect(p) /\ RequestEffect(p)
    BY <1>6, <2>1, <2>2
  <2>4. QED
    BY <1>4, <1>5, <2>1, <2>3 DEF Effects, DatabaseEffect, PacketEffect
<1>11. CASE SameLSA(p, k)
  <2> DEFINE m == [type |-> "Ack", headers |-> Pick(lsdb[p], {k})]
  <2>1. /\ lsdb' = lsdb /\ (chan' = chan \/ Send(p, m))
        /\ nbr' = nbr \/ SetNbr(p, RemoveFromRxmtList(nbr[p], {k}))
    BY <1>11 DEF SameLSA
  <2>2. ListsFrom(nbr[p], RemoveFromRxmtList(nbr[p], {k}), p)
    BY <1>1, EventLists
  <2>3. SummaryEffect(p) /\ RequestEffect(p)
    BY <1>6, <1>7, <2>1, <2>2
  <2>4. m \in Message /\ m.type = "Ack" /\ Stated(p, m.headers)
    BY <1>1, HeadersTypes, MessageTypes DEF Stated, Pick
  <2> HIDE DEF m
  <2>5. PacketEffect(p)
    BY <2>1, <2>4, QueueEffects DEF PacketEffect
  <2>6. QED
    BY <1>4, <1>5, <2>1, <2>3, <2>5 DEF Effects, DatabaseEffect
<1>12. QED
  BY <1>2, <1>8, <1>9, <1>10, <1>11

\* What the timers, the losses and the other links do.
LEMMA OtherEffects ==
  ASSUME TypeOK, NEW p \in Router,
         \/ SendHelloPacket(p) \/ LSRTimer(p) \/ ClearLastPacket(p) \/ EntryPointTimer(p)
         \/ InactivityTimer(p) \/ Lose(p) \/ ForeignUpdate(p) \/ OriginateElsewhere(p)
  PROVE  Effects(p)
<1>1. due' = due /\ hand' = hand
  BY DEF SendHelloPacket, LSRTimer, ClearLastPacket, EntryPointTimer, InactivityTimer, Lose,
         ForeignUpdate, OriginateElsewhere
<1>2. CallEffect(p) /\ HandEffect(p)
  BY <1>1 DEF CallEffect, HandEffect
<1>3. nbr[p] \in Neighbor /\ lsdb[p] \in Headers
  BY DEF TypeOK
<1>4. ASSUME NEW m \in Message, chan' = chan \/ Send(p, m),
             m.type = "LSR" => m.ids = Listed(nbr[p].req),
             m.type \in {"DD", "LSU", "Ack"} => Stated(p, m.headers)
      PROVE  PacketEffect(p)
  BY <1>4, QueueEffects DEF PacketEffect
<1>5. ASSUME NEW n, nbr' = nbr \/ SetNbr(p, n), ListsFrom(nbr[p], n, p)
      PROVE  SummaryEffect(p) /\ RequestEffect(p)
  <2>1. nbr'[p] \in {n, nbr[p]}
    BY <1>5 DEF SetNbr, TypeOK
  <2>2. QED
    BY <1>5, <2>1 DEF SummaryEffect, RequestEffect, ListsFrom
<1>6. ListsFrom(nbr[p], nbr[p], p)
  BY <1>3, EventLists
<1>7. lsdb' = lsdb => DatabaseEffect(p)
  BY DEF DatabaseEffect
<1>8. CASE SendHelloPacket(p) \/ LSRTimer(p) \/ EntryPointTimer(p)
  <2>1. /\ lsdb' = lsdb /\ nbr' = nbr
        /\ \/ chan' = chan
           \/ \E b \in BOOLEAN : Send(p, [type |-> "Hello", seen |-> b])
           \/ Send(p, [type |-> "LSR", ids |-> Listed(nbr[p].req)])
           \/ Send(p, [type |-> "LSU", headers |-> Pick(lsdb[p], nbr[p].rxmt)])
    <3>1. (nbr[p].state \in Active) \in BOOLEAN
      OBVIOUS
    <3>2. QED
      BY <1>8, <3>1, Zenon DEF SendHelloPacket, LSRTimer, EntryPointTimer, SendRxmtList
  <2>2. chan' = chan => PacketEffect(p)
    BY DEF PacketEffect
  <2>3. ASSUME NEW b \in BOOLEAN, Send(p, [type |-> "Hello", seen |-> b])
        PROVE  PacketEffect(p)
    <3> DEFINE m == [type |-> "Hello", seen |-> b]
    <3>1. m \in Message /\ m.type = "Hello" /\ Send(p, m)
      BY <2>3, MessageTypes
    <3> HIDE DEF m
    <3>2. QED
      BY <1>4, <3>1
  <2>4. ASSUME Send(p, [type |-> "LSR", ids |-> Listed(nbr[p].req)])
        PROVE  PacketEffect(p)
    <3> DEFINE m == [type |-> "LSR", ids |-> Listed(nbr[p].req)]
    <3>1. m \in Message
      BY <1>3, HeadersTypes, MessageTypes DEF Neighbor
    <3>2. m.type = "LSR" /\ m.ids = Listed(nbr[p].req) /\ Send(p, m)
      BY <2>4
    <3> HIDE DEF m
    <3>3. QED
      BY <1>4, <3>1, <3>2
  <2>5. ASSUME Send(p, [type |-> "LSU", headers |-> Pick(lsdb[p], nbr[p].rxmt)])
        PROVE  PacketEffect(p)
    <3> DEFINE m == [type |-> "LSU", headers |-> Pick(lsdb[p], nbr[p].rxmt)]
    <3>1. m \in Message
      BY <1>3, HeadersTypes, MessageTypes
    <3>2. m.type = "LSU" /\ Stated(p, m.headers) /\ Send(p, m)
      BY <2>5 DEF Stated, Pick
    <3> HIDE DEF m
    <3>3. QED
      BY <1>4, <3>1, <3>2
  <2>6. PacketEffect(p)
    BY <2>1, <2>2, <2>3, <2>4, <2>5
  <2>7. QED
    BY <1>2, <1>5, <1>6, <1>7, <2>1, <2>6 DEF Effects
<1>9. CASE ClearLastPacket(p) \/ InactivityTimer(p) \/ Lose(p)
  <2>1. /\ lsdb' = lsdb
        /\ \/ nbr' = nbr
           \/ SetNbr(p, [nbr[p] EXCEPT !.last = NoDD])
           \/ SetNbr(p, KillNbr(nbr[p]))
        /\ chan' = chan \/ Consume(p)
    BY <1>9 DEF ClearLastPacket, InactivityTimer, Lose
  <2>2. ListsFrom(nbr[p], KillNbr(nbr[p]), p)
    BY <1>3, EventLists
  <2>3. ListsFrom(nbr[p], [nbr[p] EXCEPT !.last = NoDD], p)
    BY <1>3 DEF ListsFrom, Neighbor
  <2>4. SummaryEffect(p) /\ RequestEffect(p)
    BY <1>5, <1>6, <2>1, <2>2, <2>3
  <2>5. PacketEffect(p)
    BY <2>1, QueueEffects DEF PacketEffect
  <2>6. QED
    BY <1>2, <1>7, <2>1, <2>4, <2>5 DEF Effects
<1>10. CASE ForeignUpdate(p)
  <2>1. PICK k \in Foreign, v \in 1..MaxForeign :
          LET n == nbr[p]
              m == IF k \in OffLink THEN n ELSE AnswerRequest(n, p, k, v)
              db == Reoriginate(lsdb[p], OriginatedBy(n, m, p))
          IN  /\ v > lsdb[p][k]
              /\ SetNbr(p, RemoveFromRxmtList(m, {k}))
              /\ lsdb' = [lsdb EXCEPT ![p] = [db EXCEPT ![k] = v]]
              /\ IF k \in OffLink THEN UNCHANGED chan ELSE Send(p, FloodPacket(k, v))
    BY <1>10 DEF ForeignUpdate, MoreRecent
  <2> DEFINE m == IF k \in OffLink THEN nbr[p] ELSE AnswerRequest(nbr[p], p, k, v)
             os == OriginatedBy(nbr[p], m, p)
             db == Reoriginate(lsdb[p], os)
             a == FloodPacket(k, v)
  <2>2. k \in Lsas /\ v \in Nat
    BY BoundAssumption DEF Lsas
  <2>3. m \in Neighbor /\ ListsFrom(nbr[p], m, p)
    BY <1>3, <1>6, <2>2, EventLists, NoteDDTypes
  <2>4. os \subseteq OwnLsas(p)
    BY DEF OriginatedBy
  <2>5. /\ SetNbr(p, RemoveFromRxmtList(m, {k}))
        /\ v > lsdb[p][k]
        /\ lsdb' = [lsdb EXCEPT ![p] = [db EXCEPT ![k] = v]]
        /\ chan' = chan \/ Send(p, a)
    BY <2>1
  <2> HIDE DEF m, os
  <2>6. SummaryEffect(p) /\ RequestEffect(p)
    <3>1. ListsFrom(m, RemoveFromRxmtList(m, {k}), p)
      BY <1>3, <2>3, EventLists
    <3>2. ListsFrom(nbr[p], RemoveFromRxmtList(m, {k}), p)
      BY <2>3, <3>1 DEF ListsFrom
    <3>3. QED
      BY <1>5, <2>5, <3>2
  <2>7. /\ db \in Headers
        /\ \A j \in Lsas : \/ db[j] = lsdb[p][j]
                           \/ db[j] > lsdb[p][j] /\ j \in OwnLsas(p)
    BY <1>3, <2>4 DEF Reoriginate, Headers
  <2> HIDE DEF db
  <2>8. lsdb'[p] = [db EXCEPT ![k] = v]
    BY <2>5 DEF TypeOK
  <2>9. DatabaseEffect(p)
    BY <1>3, <2>2, <2>5, <2>7, <2>8 DEF DatabaseEffect, Headers
  <2>10. a \in Message /\ a.type = "LSU" /\ a.headers = [NoHeaders EXCEPT ![k] = v]
    BY <2>2, HeadersTypes, MessageTypes DEF FloodPacket
  <2>11. lsdb'[p][k] = v
    BY <2>2, <2>7, <2>8 DEF Headers
  <2>12. Stated(p, a.headers)
    BY <2>2, <2>10, <2>11 DEF Stated, NoHeaders
  <2> HIDE DEF a
  <2>13. PacketEffect(p)
    BY <1>4, <2>5, <2>10, <2>12
  <2>14. QED
    BY <1>2, <2>6, <2>9, <2>13 DEF Effects
<1>11. CASE OriginateElsewhere(p)
  <2>1. /\ \/ SetNbr(p, nbr[p])
           \/ SetNbr(p, AddRxmtList(nbr[p], OwnLsas(p) \ {<<"link", p>>}))
        /\ lsdb' = [lsdb EXCEPT ![p] = Reoriginate(@, OwnLsas(p) \ {<<"link", p>>})]
        /\ chan' = chan
    BY <1>11 DEF OriginateElsewhere
  <2>2. ListsFrom(nbr[p], AddRxmtList(nbr[p], OwnLsas(p) \ {<<"link", p>>}), p)
    BY <1>3, EventLists
  <2>3. SummaryEffect(p) /\ RequestEffect(p)
    BY <1>5, <1>6, <2>1, <2>2
  <2>4. DatabaseEffect(p)
    BY <2>1, ReoriginateEffect
  <2>5. QED
    BY <1>2, <2>1, <2>3, <2>4 DEF Effects, PacketEffect
<1>12. QED
  BY <1>8, <1>9, <1>10, <1>11

\* Every step is a step of one router with these effects, or only time passes.
LEMMA StepEffects ==
  ASSUME TypeOK, Next
  PROVE  \/ \E p \in Router : Acts(p) /\ OnlyActor(p) /\ Effects(p)
         \/ MinLSArrivalPasses
<1>1. (\E p \in Router : Acts(p)) \/ MinLSArrivalPasses
  BY DEF Next, Acts
<1>2. ASSUME NEW p \in Router, Acts(p) PROVE OnlyActor(p) /\ Effects(p)
  BY <1>2, ActorOnly, ReceiveEffects, RunDueEffects, HandleLSAEffects, OtherEffects DEF Acts
<1>3. QED
  BY <1>1, <1>2

-----------------------------------------------------------------------------
(* The databases and what the routers say of them                           *)

\* The database only grows (RegisterToLSDB replaces an instance by a newer one).
LEMMA DatabaseGrows ==
  ASSUME TypeOK, [Next]_vars, NEW q \in Router
  PROVE  AtMost(lsdb[q], lsdb'[q])
<1>1. lsdb[q] \in Headers /\ lsdb'[q] \in Headers
  BY StepTypes DEF TypeOK
<1>2. lsdb'[q] = lsdb[q] => AtMost(lsdb[q], lsdb'[q])
  BY <1>1 DEF AtMost, Headers
<1>3. CASE UNCHANGED vars
  BY <1>2, <1>3 DEF vars
<1>4. ASSUME NEW p \in Router, OnlyActor(p), DatabaseEffect(p)
      PROVE  AtMost(lsdb[q], lsdb'[q])
  <2>1. CASE q = p
    BY <1>1, <1>4, <2>1 DEF DatabaseEffect, AtMost, Headers
  <2>2. CASE q # p
    BY <1>2, <1>4, <2>2, PeerProperties DEF OnlyActor
  <2>3. QED
    BY <2>1, <2>2
<1>5. CASE MinLSArrivalPasses
  BY <1>2, <1>5 DEF MinLSArrivalPasses
<1>6. QED
  BY <1>3, <1>4, <1>5, StepEffects DEF Effects

\* No LSA is ever forgotten or replaced by an older instance, on either router, whatever
\* updates arrive and in whatever order (ReceiveLinkStateUpdatePacket, OriginateRouterLSA).
THEOREM DatabaseNeverRegresses == Spec => NeverRegresses
<1>1. TypeOK /\ [Next]_vars => [\A p \in Router : AtMost(lsdb[p], lsdb'[p])]_vars
  BY DatabaseGrows
<1>2. QED
  BY <1>1, TypeCorrect, PTL DEF Spec, NeverRegresses

\* Backed with a quantifier for each place a statement can be in.
BackedBy(p) ==
  /\ AtMost(nbr[p].summary, lsdb[p])
  /\ \A c \in Elements(due[p]) : c.call = "SendLSU" => AtMost(c.headers, lsdb[p])
  /\ \A m \in Elements(chan[Peer(p)]) :
       m.type \in {"DD", "LSU", "Ack"} => AtMost(m.headers, lsdb[p])
  /\ AtMost(hand[p], lsdb[Peer(p)])
  /\ AtMost(nbr[p].req, lsdb[Peer(p)])

\* Backed is BackedBy at both ends of the link.
LEMMA BackedForms == Backed <=> \A p \in Router : BackedBy(p)
BY DEF Backed, BackedBy, SaidBy

\* The inductive invariant: no conjunct but the first is inductive on its own.  Copies
\* are not ahead because updates are backed, updates are backed because what a router
\* handles is no newer than its own, and a request asks for no LSA of its own because
\* the description that listed it was backed.
CoreInv ==
  /\ TypeOK
  /\ Backed
  /\ CopiesNotAhead
  /\ OwnNeverRequested
  /\ RequestsAnswerable

\* Foreign LSAs are nobody's own, and the routers share no LSA.
LEMMA OwnLsasDisjoint ==
  ASSUME NEW p \in Router
  PROVE  /\ OwnLsas(p) \cap OwnLsas(Peer(p)) = {}
         /\ OwnLsas(p) \cap Foreign = {}
         /\ Lsas = OwnLsas(p) \cup OwnLsas(Peer(p)) \cup Foreign
BY PeerProperties, LsaAssumption DEF OwnLsas, Lsas

\* What p says after a step of p is backed by its database.
LEMMA ActorBacked ==
  ASSUME CoreInv, TypeOK', NEW p \in Router, OnlyActor(p), Effects(p),
         AtMost(lsdb[p], lsdb'[p])
  PROVE  BackedBy(p)'
<1>1. Peer(p) \in Router /\ Peer(p) # p /\ Peer(Peer(p)) = p
  BY PeerProperties
<1>2. /\ nbr[p] \in Neighbor /\ lsdb[p] \in Headers /\ lsdb[Peer(p)] \in Headers
      /\ hand[p] \in Headers
  BY <1>1 DEF CoreInv, TypeOK
<1>3. /\ nbr'[p] \in Neighbor /\ lsdb'[p] \in Headers /\ lsdb'[Peer(p)] = lsdb[Peer(p)]
      /\ hand'[p] \in Headers
  BY <1>1 DEF TypeOK, OnlyActor
<1>4. BackedBy(p) /\ BackedBy(Peer(p))
  BY <1>1, BackedForms DEF CoreInv
<1>5. AtMost(nbr'[p].summary, lsdb'[p])
  BY <1>2, <1>3, <1>4 DEF Effects, SummaryEffect, BackedBy, AtMost, Neighbor, Headers
<1>6. ASSUME NEW c \in Elements(due'[p]), c.call = "SendLSU"
      PROVE  AtMost(c.headers, lsdb'[p])
  <2>1. due'[p] \in Seq(DueCall)
    BY DEF TypeOK
  <2>2. c.headers \in Headers
    BY <1>6, <2>1, DueCallTypes, QueueElements
  <2>3. CASE c \in Elements(due[p])
    BY <1>2, <1>3, <1>4, <1>6, <2>2, <2>3 DEF BackedBy, AtMost, Headers
  <2>4. CASE \A k \in Lsas : c.headers[k] \in {0, lsdb[p][k]}
    BY <1>2, <1>3, <2>2, <2>4 DEF AtMost, Headers
  <2>5. QED
    BY <1>6, <2>3, <2>4 DEF Effects, CallEffect
<1>7. ASSUME NEW m \in Elements(chan'[Peer(p)]), m.type \in {"DD", "LSU", "Ack"}
      PROVE  AtMost(m.headers, lsdb'[p])
  <2>1. chan'[Peer(p)] \in Seq(Message)
    BY <1>1 DEF TypeOK
  <2>2. m.headers \in Headers
    BY <1>7, <2>1, MessageTypes, QueueElements
  <2>3. CASE m \in Elements(chan[Peer(p)])
    BY <1>2, <1>3, <1>4, <1>7, <2>2, <2>3 DEF BackedBy, AtMost, Headers
  <2>4. CASE Stated(p, m.headers)
    <3>1. SUFFICES ASSUME NEW k \in Lsas PROVE m.headers[k] <= lsdb'[p][k]
      BY DEF AtMost
    <3>2. lsdb[p][k] <= lsdb'[p][k] /\ lsdb[p][k] \in Nat /\ lsdb'[p][k] \in Nat
      BY <1>2, <1>3 DEF AtMost, Headers
    <3>3. CASE m.headers[k] \in {0, lsdb[p][k], lsdb'[p][k], nbr[p].summary[k]}
      <4>1. nbr[p].summary[k] <= lsdb[p][k] /\ nbr[p].summary[k] \in Nat
        BY <1>2, <1>4 DEF BackedBy, AtMost, Neighbor, Headers
      <4>2. QED
        BY <3>2, <3>3, <4>1
    <3>4. CASE \E c \in Elements(due[p]) : c.call = "SendLSU" /\ m.headers[k] = c.headers[k]
      <4>1. m.headers[k] <= lsdb[p][k] /\ m.headers[k] \in Nat
        BY <1>4, <2>2, <3>4 DEF BackedBy, AtMost, Headers
      <4>2. QED
        BY <3>2, <4>1
    <3>5. CASE k \in OwnLsas(p) /\ hand[p][k] > lsdb[p][k]
      <4>1. hand[p][k] <= lsdb[Peer(p)][k]
        BY <1>4 DEF BackedBy, AtMost
      <4>2. lsdb[Peer(p)][k] <= lsdb[p][k]
        BY <3>5 DEF CoreInv, CopiesNotAhead
      <4>3. hand[p][k] \in Nat /\ lsdb[Peer(p)][k] \in Nat
        BY <1>2 DEF Headers
      <4>4. QED
        BY <3>2, <3>5, <4>1, <4>2, <4>3
    <3>6. QED
      BY <2>4, <3>3, <3>4, <3>5 DEF Stated
  <2>5. QED
    BY <1>7, <2>3, <2>4 DEF Effects, PacketEffect
<1>8. AtMost(hand'[p], lsdb'[Peer(p)])
  <2>1. SUFFICES ASSUME NEW k \in Lsas PROVE hand'[p][k] <= lsdb[Peer(p)][k]
    BY <1>3 DEF AtMost
  <2>2. CASE hand'[p][k] \in {0, hand[p][k]}
    BY <1>2, <1>4, <2>2 DEF BackedBy, AtMost, Headers
  <2>3. CASE \E m \in Elements(chan[p]) : m.type = "LSU" /\ hand'[p][k] = m.headers[k]
    BY <1>1, <1>4, <2>3 DEF BackedBy, AtMost
  <2>4. QED
    BY <2>2, <2>3 DEF Effects, HandEffect
<1>9. AtMost(nbr'[p].req, lsdb'[Peer(p)])
  <2>1. SUFFICES ASSUME NEW k \in Lsas PROVE nbr'[p].req[k] <= lsdb[Peer(p)][k]
    BY <1>3 DEF AtMost
  <2>2. CASE nbr'[p].req[k] \in {0, nbr[p].req[k]}
    BY <1>2, <1>4, <2>2 DEF BackedBy, AtMost, Headers
  <2>3. CASE \E m \in Elements(chan[p]) : m.type = "DD" /\ nbr'[p].req[k] = m.headers[k]
    BY <1>1, <1>4, <2>3 DEF BackedBy, AtMost
  <2>4. QED
    BY <2>2, <2>3 DEF Effects, RequestEffect
<1>10. QED
  BY <1>5, <1>6, <1>7, <1>8, <1>9 DEF BackedBy

\* What the other router has said and holds stays backed.
LEMMA PeerBacked ==
  ASSUME CoreInv, TypeOK', NEW p \in Router, OnlyActor(p), AtMost(lsdb[p], lsdb'[p])
  PROVE  BackedBy(Peer(p))'
<1> DEFINE q == Peer(p)
<1>1. q \in Router /\ q # p /\ Peer(q) = p
  BY PeerProperties
<1>2. /\ nbr'[q] = nbr[q] /\ lsdb'[q] = lsdb[q] /\ hand'[q] = hand[q] /\ due'[q] = due[q]
      /\ Elements(chan'[p]) \subseteq Elements(chan[p])
  BY DEF OnlyActor
<1>3. BackedBy(q)
  BY <1>1, BackedForms DEF CoreInv
<1>4. /\ nbr[q] \in Neighbor /\ hand[q] \in Headers
      /\ lsdb[p] \in Headers /\ lsdb'[p] \in Headers
  BY <1>1 DEF CoreInv, TypeOK
<1> HIDE DEF q
<1>5. AtMost(hand'[q], lsdb'[p]) /\ AtMost(nbr'[q].req, lsdb'[p])
  <2>1. nbr[q].req \in Headers
    BY <1>4 DEF Neighbor
  <2>2. AtMost(hand[q], lsdb[p]) /\ AtMost(nbr[q].req, lsdb[p])
    BY <1>1, <1>3 DEF BackedBy
  <2>3. \A h \in Headers : AtMost(h, lsdb[p]) => AtMost(h, lsdb'[p])
    BY <1>4 DEF AtMost, Headers
  <2>4. QED
    BY <1>2, <1>4, <2>1, <2>2, <2>3
<1>6. BackedBy(q)'
  BY <1>1, <1>2, <1>3, <1>5 DEF BackedBy
<1>7. QED
  BY <1>6 DEF q

\* The copies of the other router's LSAs come from its updates.
LEMMA ActorCopies ==
  ASSUME CoreInv, TypeOK', NEW p \in Router, OnlyActor(p), Effects(p),
         AtMost(lsdb[p], lsdb'[p])
  PROVE  CopiesNotAhead'
<1> DEFINE q == Peer(p)
<1>1. q \in Router /\ q # p /\ Peer(q) = p /\ \A r \in Router : r = p \/ r = q
  BY PeerProperties
<1>2. lsdb'[q] = lsdb[q]
  BY DEF OnlyActor
<1>3. /\ lsdb[p] \in Headers /\ lsdb'[p] \in Headers /\ lsdb[q] \in Headers
  BY <1>1 DEF CoreInv, TypeOK
<1>4. BackedBy(p)
  BY BackedForms DEF CoreInv
<1> HIDE DEF q
<1>5. \A k \in OwnLsas(p) : lsdb'[q][k] <= lsdb'[p][k]
  <2>1. \A k \in OwnLsas(p) : k \in Lsas /\ lsdb[q][k] <= lsdb[p][k]
    BY HeadersTypes DEF CoreInv, CopiesNotAhead, q
  <2>2. QED
    BY <1>2, <1>3, <2>1 DEF AtMost, Headers
<1>6. \A k \in OwnLsas(q) : lsdb'[p][k] <= lsdb'[q][k]
  <2>1. SUFFICES ASSUME NEW k \in OwnLsas(q) PROVE lsdb'[p][k] <= lsdb[q][k]
    BY <1>2
  <2>2. k \in Lsas /\ k \notin OwnLsas(p) \cup Foreign
    BY <1>1, HeadersTypes, OwnLsasDisjoint DEF q
  <2>3. lsdb[p][k] <= lsdb[q][k]
    BY <1>1 DEF CoreInv, CopiesNotAhead
  <2>4. hand[p][k] <= lsdb[q][k]
    BY <1>4, <2>2 DEF BackedBy, AtMost, q
  <2>5. lsdb'[p][k] \in {lsdb[p][k], hand[p][k]}
    BY <2>2 DEF Effects, DatabaseEffect
  <2>6. QED
    BY <2>3, <2>4, <2>5
<1>7. QED
  BY <1>1, <1>5, <1>6 DEF CopiesNotAhead, q

\* No description makes a router ask for its own LSA.
LEMMA ActorRequests ==
  ASSUME CoreInv, TypeOK', NEW p \in Router, OnlyActor(p), Effects(p)
  PROVE  OwnNeverRequested'
<1> DEFINE q == Peer(p)
<1>1. q \in Router /\ q # p /\ Peer(q) = p /\ \A r \in Router : r = p \/ r = q
  BY PeerProperties
<1>2. nbr'[q] = nbr[q]
  BY DEF OnlyActor
<1>3. BackedBy(q) /\ lsdb[p] \in Headers /\ lsdb[q] \in Headers /\ chan[p] \in Seq(Message)
  BY <1>1, BackedForms DEF CoreInv, TypeOK
<1> HIDE DEF q
<1>4. ASSUME NEW k \in OwnLsas(p) PROVE nbr'[p].req[k] = 0
  <2>1. k \in Lsas /\ nbr[p].req[k] = 0 /\ lsdb[q][k] <= lsdb[p][k]
    BY HeadersTypes DEF CoreInv, OwnNeverRequested, CopiesNotAhead, q
  <2>2. ASSUME NEW m \in Elements(chan[p]), m.type = "DD", m.headers[k] > lsdb[p][k]
        PROVE  FALSE
    <3>1. m.headers[k] <= lsdb[q][k]
      BY <1>1, <1>3, <2>1, <2>2 DEF BackedBy, AtMost
    <3>2. m.headers \in Headers
      BY <1>3, <2>2, MessageTypes, QueueElements
    <3>3. m.headers[k] \in Nat /\ lsdb[q][k] \in Nat /\ lsdb[p][k] \in Nat
      BY <1>3, <2>1, <3>2 DEF Headers
    <3>4. QED
      BY <2>1, <2>2, <3>1, <3>3
  <2>3. QED
    BY <2>1, <2>2 DEF Effects, RequestEffect
<1>5. QED
  BY <1>1, <1>2, <1>4 DEF CoreInv, OwnNeverRequested

\* RequestsAnswerable over the packets of a channel.
LEMMA RequestsForms ==
  RequestsAnswerable <=>
    \A p \in Router : \A m \in Elements(chan[p]) :
      m.type = "LSR" => m.ids \subseteq Listed(lsdb[p])
BY DEF RequestsAnswerable, Elements

\* A request names LSAs whose descriptions were backed.
LEMMA ActorAnswerable ==
  ASSUME CoreInv, TypeOK', NEW p \in Router, OnlyActor(p), Effects(p),
         AtMost(lsdb[p], lsdb'[p])
  PROVE  RequestsAnswerable'
<1> DEFINE q == Peer(p)
<1>1. q \in Router /\ q # p /\ Peer(q) = p /\ \A r \in Router : r = p \/ r = q
  BY PeerProperties
<1>2. /\ lsdb'[q] = lsdb[q]
      /\ Elements(chan'[p]) \subseteq Elements(chan[p])
  BY DEF OnlyActor
<1>3. /\ lsdb[p] \in Headers /\ lsdb'[p] \in Headers /\ lsdb[q] \in Headers
      /\ nbr[p].req \in Headers
  BY <1>1 DEF CoreInv, TypeOK, Neighbor
<1>4. AtMost(nbr[p].req, lsdb[q])
  BY BackedForms DEF CoreInv, BackedBy, q
<1> HIDE DEF q
<1>5. Listed(lsdb[p]) \subseteq Listed(lsdb'[p])
  BY <1>3 DEF Listed, AtMost, Headers
<1>6. Listed(nbr[p].req) \subseteq Listed(lsdb[q])
  BY <1>3, <1>4 DEF Listed, AtMost, Headers
<1>7. ASSUME NEW m \in Elements(chan'[p]), m.type = "LSR"
      PROVE  m.ids \subseteq Listed(lsdb'[p])
  BY <1>2, <1>5, <1>7, RequestsForms DEF CoreInv
<1>8. ASSUME NEW m \in Elements(chan'[q]), m.type = "LSR"
      PROVE  m.ids \subseteq Listed(lsdb'[q])
  BY <1>1, <1>2, <1>6, <1>8, RequestsForms DEF CoreInv, Effects, PacketEffect, q
<1>9. \A r \in Router : \A m \in Elements(chan'[r]) :
        m.type = "LSR" => m.ids \subseteq Listed(lsdb'[r])
  BY <1>1, <1>7, <1>8
<1>10. QED
  BY <1>9 DEF RequestsAnswerable, Elements

\* The invariant holds in the initial states: nothing has been said but Hellos.
LEMMA InitCore == Init => CoreInv
<1> SUFFICES ASSUME Init PROVE CoreInv
  OBVIOUS
<1>1. TypeOK
  BY InitTypes
<1>2. PICK b \in [Router -> BOOLEAN] : nbr = [p \in Router |-> FreshNeighbor(b[p])]
  BY DEF Init
<1>3. ASSUME NEW p \in Router
      PROVE  nbr[p].req = NoHeaders /\ nbr[p].summary = NoHeaders /\ hand[p] = NoHeaders
  BY <1>2 DEF Init, FreshNeighbor
<1>4. ASSUME NEW p \in Router
      PROVE  /\ Elements(due[p]) = {}
             /\ \A m \in Elements(chan[p]) : m.type = "Hello"
  <2>1. due[p] = <<>> /\ chan[p] = <<[type |-> "Hello", seen |-> FALSE]>>
    BY DEF Init
  <2> DEFINE h == [type |-> "Hello", seen |-> FALSE]
  <2>2. h \in Message /\ h.type = "Hello"
    BY MessageTypes
  <2>3. chan[p] = <<h>>
    BY <2>1
  <2> HIDE DEF h
  <2>4. Elements(<<h>>) = {h}
    BY <2>2, OneElement
  <2>5. Elements(<<>>) = {}
    BY DEF Elements
  <2>6. QED
    BY <2>1, <2>2, <2>3, <2>4, <2>5
<1>5. \A p \in Router : lsdb[p] \in Headers /\ AtMost(NoHeaders, lsdb[p])
  BY <1>1 DEF TypeOK, AtMost, NoHeaders, Headers
<1>6. Backed
  <2>1. ASSUME NEW p \in Router PROVE BackedBy(p)
    BY <1>3, <1>4, <1>5, PeerProperties DEF BackedBy
  <2>2. QED
    BY <2>1, BackedForms
<1>7. CopiesNotAhead
  <2>1. ASSUME NEW p \in Router, NEW k \in OwnLsas(p)
        PROVE  lsdb[Peer(p)][k] = 0 /\ lsdb[p][k] = 1
    BY OwnLsasDisjoint, PeerProperties, HeadersTypes DEF Init
  <2>2. QED
    BY <2>1 DEF CopiesNotAhead
<1>8. OwnNeverRequested
  BY <1>3, HeadersTypes DEF OwnNeverRequested, NoHeaders
<1>9. RequestsAnswerable
  BY <1>4, RequestsForms
<1>10. QED
  BY <1>1, <1>6, <1>7, <1>8, <1>9 DEF CoreInv

\* Every step preserves the invariant.
LEMMA StepCore == CoreInv /\ [Next]_vars => CoreInv'
<1> SUFFICES ASSUME CoreInv, [Next]_vars PROVE CoreInv'
  OBVIOUS
<1>1. TypeOK /\ TypeOK'
  BY StepTypes DEF CoreInv
<1>2. CASE UNCHANGED vars \/ MinLSArrivalPasses
  <2>1. UNCHANGED <<nbr, lsdb, due, hand, chan>>
    BY <1>2 DEF vars, MinLSArrivalPasses
  <2>2. QED
    BY <1>1, <2>1 DEF CoreInv, Backed, SaidBy, CopiesNotAhead, OwnNeverRequested,
         RequestsAnswerable
<1>3. ASSUME NEW p \in Router, OnlyActor(p), Effects(p) PROVE CoreInv'
  <2>1. AtMost(lsdb[p], lsdb'[p])
    BY <1>1, DatabaseGrows
  <2>2. BackedBy(p)' /\ BackedBy(Peer(p))'
    BY <1>1, <1>3, <2>1, ActorBacked, PeerBacked
  <2>3. Backed'
    <3>1. \A r \in Router : BackedBy(r)'
      BY <2>2, PeerProperties
    <3>2. QED
      BY <3>1 DEF Backed, BackedBy, SaidBy
  <2>4. QED
    BY <1>1, <1>3, <2>1, <2>3, ActorCopies, ActorRequests, ActorAnswerable DEF CoreInv
<1>4. QED
  BY <1>1, <1>2, <1>3, StepEffects

\* The invariant holds always.
THEOREM CoreInvariant == Spec => []CoreInv
BY InitCore, StepCore, PTL DEF Spec

\* What a router says of an LSA is backed by its database, for any number of LSAs, packets
\* in flight, losses and restarts (SendDD, SendLSU, SendLSAck, ReceiveDD).
THEOREM AlwaysBacked == Spec => []Backed
<1>1. CoreInv => Backed
  BY DEF CoreInv
<1>2. QED
  BY <1>1, CoreInvariant, PTL

\* No router ever holds a newer instance than the originator, so that step 5.f of
\* ReceiveLinkStateUpdatePacket is not reached on one link.
THEOREM CopiesNeverAhead == Spec => []CopiesNotAhead
<1>1. CoreInv => CopiesNotAhead
  BY DEF CoreInv
<1>2. QED
  BY <1>1, CoreInvariant, PTL

\* No router ever asks for one of its own LSAs (ReceiveDatabaseDescriptionPacket).
THEOREM NeverRequestsOwn == Spec => []OwnNeverRequested
<1>1. CoreInv => OwnNeverRequested
  BY DEF CoreInv
<1>2. QED
  BY <1>1, CoreInvariant, PTL

\* Every Link State Request can be answered, also one that was sent before its receiver
\* restarted, so that BAD_LS_REQ never comes of it (ReceiveLinkStateRequestPacket).
THEOREM AlwaysAnswerable == Spec => []RequestsAnswerable
<1>1. CoreInv => RequestsAnswerable
  BY DEF CoreInv
<1>2. QED
  BY <1>1, CoreInvariant, PTL
=============================================================================
