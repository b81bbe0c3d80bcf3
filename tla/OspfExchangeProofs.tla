------------------------- MODULE OspfExchangeProofs -------------------------
(***************************************************************************)
(* Proofs about the Database Description exchange of OspfAdjacency: the     *)
(* roles, the sequence numbers, the last packet and the MTUs.  They look at *)
(* a step only through ExchangeStep, which says what it does to the control *)
(* part of the neighbour record, to the calls that send descriptions, and   *)
(* to the descriptions on their way.                                        *)
(***************************************************************************)
EXTENDS OspfAdjacencyProofs

-----------------------------------------------------------------------------
(* Scheduled descriptions                                                   *)

InitialDue(p) == SendDDCall(TRUE) \in Elements(due[p])
NextDue(p) == SendDDCall(FALSE) \in Elements(due[p])
NoneDue(p) == ~InitialDue(p) /\ ~NextDue(p)

\* A description is the first call of a queue, or none of it.
OneDD(cs) == \A i \in DOMAIN cs : cs[i].call = "SendDD" => i = 1

\* The router finishes an update before it makes calls, and the calls of an event
\* before the next event.
TidyCalls(p) ==
  /\ hand[p] # NoHeaders => due[p] = <<>>
  /\ OneDD(due[p])

\* A call that sends a description is told by its fields.
LEMMA DDCalls ==
  /\ \A b \in BOOLEAN : SendDDCall(b).call = "SendDD"
  /\ SendDDCall(TRUE) # SendDDCall(FALSE)
  /\ SendLSRCall.call # "SendDD" /\ EntryPointCall.call # "SendDD"
  /\ \A h : SendLSUCall(h).call # "SendDD"
<1>1. \A b \in BOOLEAN : SendDDCall(b).call = "SendDD" /\ SendDDCall(b).init = b
  BY DEF SendDDCall
<1>2. SendDDCall(TRUE) # SendDDCall(FALSE)
  BY <1>1
<1>3. QED
  BY <1>1, <1>2 DEF SendLSRCall, EntryPointCall, SendLSUCall

\* What is left of a queue after its first call holds no description.
LEMMA TidyTail ==
  ASSUME NEW cs \in Seq(DueCall), cs # <<>>, OneDD(cs)
  PROVE  /\ \A c \in Elements(Tail(cs)) : c.call # "SendDD"
         /\ OneDD(Tail(cs))
<1>1. /\ Tail(cs) \in Seq(DueCall)
      /\ Len(cs) \in Nat \ {0} /\ Len(Tail(cs)) = Len(cs) - 1
      /\ \A i \in 1..Len(Tail(cs)) : Tail(cs)[i] = cs[i + 1]
  BY HeadTailProperties, EmptySeq
<1>2. \A i \in DOMAIN Tail(cs) : i \in Nat \ {0} /\ i + 1 \in DOMAIN cs /\ Tail(cs)[i] = cs[i + 1]
  BY <1>1, LenProperties
<1>3. \A i \in DOMAIN Tail(cs) : Tail(cs)[i].call # "SendDD"
  BY <1>2 DEF OneDD
<1>4. QED
  BY <1>3 DEF OneDD, Elements

\* A queue that begins with another call holds no description.
LEMMA TidyHead ==
  ASSUME NEW cs \in Seq(DueCall), cs # <<>>, OneDD(cs), Head(cs).call # "SendDD"
  PROVE  \A c \in Elements(cs) : c.call # "SendDD"
<1>1. Len(cs) \in Nat \ {0} /\ DOMAIN cs = 1..Len(cs) /\ Head(cs) = cs[1]
  BY EmptySeq, LenProperties
<1>2. QED
  BY <1>1 DEF OneDD, Elements

\* A call that is no description may join any queue that an event schedules.
LEMMA TidyAppend ==
  ASSUME NEW cs \in Seq(DueCall), OneDD(cs), NEW c \in DueCall, c.call # "SendDD"
  PROVE  OneDD(Append(cs, c))
<1>1. /\ Append(cs, c) \in Seq(DueCall)
      /\ Len(cs) \in Nat /\ Len(Append(cs, c)) = Len(cs) + 1
      /\ DOMAIN cs = 1..Len(cs)
      /\ \A i \in 1..Len(cs) : Append(cs, c)[i] = cs[i]
      /\ Append(cs, c)[Len(cs) + 1] = c
  BY AppendProperties, LenProperties
<1>2. DOMAIN Append(cs, c) = 1..Len(cs) + 1
  BY <1>1, LenProperties
<1>3. QED
  BY <1>1, <1>2 DEF OneDD

\* The queues that events schedule.
LEMMA ScheduledQueues ==
  /\ OneDD(<<>>) /\ Elements(<<>>) = {}
  /\ \A c \in DueCall : OneDD(<<c>>) /\ <<c>> \in Seq(DueCall) /\ Elements(<<c>>) = {c}
  /\ \A n, m : /\ OneDD(EventCalls(n, m))
               /\ Restarts(n, m) => Elements(EventCalls(n, m)) = {SendDDCall(TRUE)}
               /\ ~Restarts(n, m) => Elements(EventCalls(n, m)) \subseteq {SendLSRCall}
               /\ ~Restarts(n, m) => OneDD(<<SendDDCall(FALSE)>> \o EventCalls(n, m))
<1>1. OneDD(<<>>) /\ Elements(<<>>) = {}
  BY DEF OneDD, Elements
<1>2. ASSUME NEW c \in DueCall
      PROVE  OneDD(<<c>>) /\ <<c>> \in Seq(DueCall) /\ Elements(<<c>>) = {c}
  <2>1. DOMAIN <<c>> = {1}
    OBVIOUS
  <2>2. QED
    BY <2>1, OneElement DEF OneDD
<1>3. ASSUME NEW n, NEW m
      PROVE  /\ OneDD(EventCalls(n, m))
             /\ Restarts(n, m) => Elements(EventCalls(n, m)) = {SendDDCall(TRUE)}
             /\ ~Restarts(n, m) => Elements(EventCalls(n, m)) \subseteq {SendLSRCall}
  <2>1. /\ OneDD(<<SendDDCall(TRUE)>>) /\ Elements(<<SendDDCall(TRUE)>>) = {SendDDCall(TRUE)}
        /\ OneDD(<<SendLSRCall>>) /\ Elements(<<SendLSRCall>>) = {SendLSRCall}
    <3>1. SendDDCall(TRUE) \in DueCall /\ SendLSRCall \in DueCall
      BY DueCallTypes
    <3>2. QED
      BY <1>2, <3>1
  <2>2. /\ Restarts(n, m) => EventCalls(n, m) = <<SendDDCall(TRUE)>>
        /\ ~Restarts(n, m) => EventCalls(n, m) = <<SendLSRCall>> \/ EventCalls(n, m) = <<>>
    BY DEF EventCalls, Restarts, BecomesLoading
  <2>3. CASE Restarts(n, m)
    BY <2>1, <2>2, <2>3
  <2>4. CASE ~Restarts(n, m)
    BY <1>1, <2>1, <2>2, <2>4
  <2>5. QED
    BY <2>3, <2>4
<1>4. ASSUME NEW n, NEW m, ~Restarts(n, m)
      PROVE  OneDD(<<SendDDCall(FALSE)>> \o EventCalls(n, m))
  <2> DEFINE q == <<SendDDCall(FALSE)>>
  <2>1. q \in Seq(DueCall) /\ OneDD(q)
    BY <1>2, DueCallTypes
  <2>2. EventCalls(n, m) = <<>> \/ EventCalls(n, m) = <<SendLSRCall>>
    BY <1>4 DEF EventCalls
  <2> HIDE DEF q
  <2>3. q \o <<>> = q
    BY <2>1, ConcatEmptySeq
  <2>4. q \o <<SendLSRCall>> = Append(q, SendLSRCall)
    BY <2>1, DueCallTypes, AppendIsConcat
  <2>5. OneDD(Append(q, SendLSRCall))
    BY <2>1, DDCalls, DueCallTypes, TidyAppend
  <2>6. QED
    BY <2>1, <2>2, <2>3, <2>4, <2>5 DEF q
<1>5. QED
  BY <1>1, <1>2, <1>3, <1>4

-----------------------------------------------------------------------------
(* Descriptions on their way                                                *)

\* The second description was not built before the first one, and one with the init
\* flag begins a new exchange.
NotAfter(a, b) == a.seq <= b.seq /\ (b.init => a.seq < b.seq)

\* The descriptions of a channel are in the order they were built.
InOrder(c) ==
  \A i, j \in DOMAIN c :
    i < j /\ c[i].type = "DD" /\ c[j].type = "DD" => NotAfter(c[i], c[j])

Descriptions(p) == {m \in Elements(chan[p]) : m.type = "DD"}

\* There is at most one description; there is none behind one without the init flag.
DDAt(c) == {i \in DOMAIN c : c[i].type = "DD"}
OneDescription(c) == \A i, j \in DDAt(c) : i = j
AnswerLast(c) == \A i, j \in DDAt(c) : ~c[i].init /\ i <= j => i = j

\* The channel d has no description that is not in c, nor in another order.
NoMore(c, d) ==
  /\ InOrder(c) => InOrder(d)
  /\ OneDescription(c) => OneDescription(d)
  /\ AnswerLast(c) => AnswerLast(d)

\* No description is put on the channel to p.
NoNewDD(p) ==
  /\ Descriptions(p)' \subseteq Descriptions(p)
  /\ NoMore(chan[p], chan'[p])

\* The first packet is taken off, and it is not newer than the ones behind it.
LEMMA InOrderTail ==
  ASSUME NEW c \in Seq(Message), c # <<>>
  PROVE  /\ InOrder(c) => InOrder(Tail(c))
         /\ InOrder(c) => \A m \in Elements(Tail(c)) :
              Head(c).type = "DD" /\ m.type = "DD" => NotAfter(Head(c), m)
<1>1. /\ Tail(c) \in Seq(Message)
      /\ Len(c) \in Nat \ {0} /\ Len(Tail(c)) = Len(c) - 1
      /\ \A i \in 1..Len(Tail(c)) : Tail(c)[i] = c[i + 1]
      /\ DOMAIN c = 1..Len(c) /\ Head(c) = c[1]
  BY HeadTailProperties, EmptySeq, LenProperties
<1>2. \A i \in DOMAIN Tail(c) :
        i \in Nat \ {0} /\ i + 1 \in DOMAIN c /\ Tail(c)[i] = c[i + 1]
  BY <1>1, LenProperties
<1>3. InOrder(c) => InOrder(Tail(c))
  <2> SUFFICES ASSUME InOrder(c), NEW i \in DOMAIN Tail(c), NEW j \in DOMAIN Tail(c), i < j,
                      Tail(c)[i].type = "DD", Tail(c)[j].type = "DD"
               PROVE  NotAfter(Tail(c)[i], Tail(c)[j])
    BY DEF InOrder
  <2>1. i + 1 < j + 1
    BY <1>2
  <2>2. QED
    BY <1>2, <2>1 DEF InOrder
<1>4. ASSUME InOrder(c), NEW m \in Elements(Tail(c)), Head(c).type = "DD", m.type = "DD"
      PROVE  NotAfter(Head(c), m)
  <2>1. PICK i \in DOMAIN Tail(c) : m = Tail(c)[i]
    BY <1>4 DEF Elements
  <2>2. 1 \in DOMAIN c /\ 1 < i + 1 /\ i + 1 \in DOMAIN c /\ m = c[i + 1]
    BY <1>1, <1>2, <2>1
  <2>3. QED
    BY <1>1, <1>4, <2>2 DEF InOrder
<1>5. QED
  BY <1>3, <1>4

\* A packet may join a channel if it is not older than the descriptions there.
LEMMA InOrderAppend ==
  ASSUME NEW c \in Seq(Message), NEW m \in Message, InOrder(c),
         m.type = "DD" => \A e \in Elements(c) : e.type = "DD" => NotAfter(e, m)
  PROVE  InOrder(Append(c, m))
<1>1. /\ Append(c, m) \in Seq(Message)
      /\ Len(c) \in Nat /\ Len(Append(c, m)) = Len(c) + 1
      /\ DOMAIN c = 1..Len(c)
      /\ \A i \in 1..Len(c) : Append(c, m)[i] = c[i]
      /\ Append(c, m)[Len(c) + 1] = m
  BY AppendProperties, LenProperties
<1>2. DOMAIN Append(c, m) = 1..Len(c) + 1
  BY <1>1, LenProperties
<1> SUFFICES ASSUME NEW i \in DOMAIN Append(c, m), NEW j \in DOMAIN Append(c, m), i < j,
                    Append(c, m)[i].type = "DD", Append(c, m)[j].type = "DD"
             PROVE  NotAfter(Append(c, m)[i], Append(c, m)[j])
  BY DEF InOrder
<1>3. i \in DOMAIN c /\ Append(c, m)[i] = c[i]
  BY <1>1, <1>2
<1>4. CASE j \in DOMAIN c
  BY <1>1, <1>3, <1>4 DEF InOrder
<1>5. CASE j = Len(c) + 1
  BY <1>1, <1>3, <1>5 DEF Elements
<1>6. QED
  BY <1>1, <1>2, <1>4, <1>5

\* The places of the descriptions behind the first packet, which is taken off.
LEMMA PlacesTail ==
  ASSUME NEW c \in Seq(Message), c # <<>>
  PROVE  /\ NoMore(c, Tail(c))
         /\ Head(c).type = "DD" /\ OneDescription(c) => DDAt(Tail(c)) = {}
         /\ Head(c).type = "DD" /\ ~Head(c).init /\ AnswerLast(c) => DDAt(Tail(c)) = {}
<1>1. /\ Tail(c) \in Seq(Message)
      /\ Len(c) \in Nat \ {0} /\ Len(Tail(c)) = Len(c) - 1
      /\ \A i \in 1..Len(Tail(c)) : Tail(c)[i] = c[i + 1]
      /\ DOMAIN c = 1..Len(c) /\ Head(c) = c[1]
  BY HeadTailProperties, EmptySeq, LenProperties
<1>2. \A i \in DDAt(Tail(c)) : i \in Nat \ {0} /\ i + 1 \in DDAt(c) /\ Tail(c)[i] = c[i + 1]
  BY <1>1, LenProperties DEF DDAt
<1>3. OneDescription(c) => OneDescription(Tail(c))
  <2> SUFFICES ASSUME OneDescription(c), NEW i \in DDAt(Tail(c)), NEW j \in DDAt(Tail(c))
               PROVE  i = j
    BY DEF OneDescription
  <2>1. i + 1 = j + 1
    BY <1>2 DEF OneDescription
  <2>2. QED
    BY <1>2, <2>1
<1>4. AnswerLast(c) => AnswerLast(Tail(c))
  <2> SUFFICES ASSUME AnswerLast(c), NEW i \in DDAt(Tail(c)), NEW j \in DDAt(Tail(c)),
                      ~Tail(c)[i].init, i <= j
               PROVE  i = j
    BY DEF AnswerLast
  <2>1. i + 1 <= j + 1
    BY <1>2
  <2>2. i + 1 = j + 1
    BY <1>2, <2>1 DEF AnswerLast
  <2>3. QED
    BY <1>2, <2>2
<1>5. ASSUME Head(c).type = "DD", NEW i \in DDAt(Tail(c))
      PROVE  ~OneDescription(c) /\ (~Head(c).init => ~AnswerLast(c))
  <2>1. 1 \in DDAt(c) /\ i + 1 \in DDAt(c) /\ 1 <= i + 1 /\ 1 # i + 1
    BY <1>1, <1>2, <1>5 DEF DDAt
  <2>2. QED
    BY <1>1, <2>1 DEF OneDescription, AnswerLast
<1>6. QED
  BY <1>3, <1>4, <1>5, InOrderTail DEF NoMore

\* The places of the descriptions when a packet joins the channel.
LEMMA PlacesAppend ==
  ASSUME NEW c \in Seq(Message), NEW m \in Message
  PROVE  /\ m.type # "DD" => NoMore(c, Append(c, m))
         /\ DDAt(c) = {} => OneDescription(Append(c, m)) /\ AnswerLast(Append(c, m))
         /\ (\A i \in DDAt(c) : c[i].init) => AnswerLast(Append(c, m))
<1> DEFINE d == Append(c, m)
<1>1. /\ d \in Seq(Message)
      /\ Len(c) \in Nat /\ Len(d) = Len(c) + 1
      /\ DOMAIN c = 1..Len(c)
      /\ \A i \in 1..Len(c) : d[i] = c[i]
      /\ d[Len(c) + 1] = m
  BY AppendProperties, LenProperties
<1>2. DOMAIN d = 1..Len(c) + 1
  BY <1>1, LenProperties
<1> HIDE DEF d
<1>3. ASSUME NEW i \in DDAt(d)
      PROVE  \/ i \in DDAt(c) /\ d[i] = c[i]
             \/ i = Len(c) + 1 /\ m.type = "DD" /\ d[i] = m
  <2>1. i \in 1..Len(c) + 1 /\ d[i].type = "DD"
    BY <1>2 DEF DDAt
  <2>2. i \in 1..Len(c) \/ i = Len(c) + 1
    BY <1>1, <2>1
  <2>3. QED
    BY <1>1, <2>1, <2>2 DEF DDAt
<1>4. m.type # "DD" => NoMore(c, d)
  <2>1. m.type # "DD" => /\ OneDescription(c) => OneDescription(d)
                         /\ AnswerLast(c) => AnswerLast(d)
    BY <1>3 DEF OneDescription, AnswerLast
  <2>2. QED
    BY <2>1, InOrderAppend DEF NoMore, d
<1>5. DDAt(c) = {} => OneDescription(d) /\ AnswerLast(d)
  BY <1>3 DEF OneDescription, AnswerLast
<1>6. ASSUME \A i \in DDAt(c) : c[i].init, NEW i \in DDAt(d), NEW j \in DDAt(d),
             ~d[i].init, i <= j
      PROVE  i = j
  <2>1. i = Len(c) + 1
    BY <1>3, <1>6
  <2>2. j \in 1..Len(c) + 1
    BY <1>2 DEF DDAt
  <2>3. QED
    BY <1>1, <1>6, <2>1, <2>2
<1>7. QED
  BY <1>4, <1>5, <1>6 DEF AnswerLast, d

\* What the ways of using a channel do to the descriptions on it.
LEMMA ChannelSteps ==
  ASSUME TypeOK, NEW p \in Router
  PROVE  /\ chan'[p] = chan[p] => NoNewDD(p)
         /\ chan[p] # <<>> /\ Consume(p) => /\ chan'[p] = Tail(chan[p])
                                            /\ chan'[Peer(p)] = chan[Peer(p)]
                                            /\ NoNewDD(p) /\ NoNewDD(Peer(p))
         /\ \A m \in Message : Send(p, m) =>
              /\ chan'[p] = chan[p] /\ NoNewDD(p)
              /\ chan'[Peer(p)] = Append(chan[Peer(p)], m)
              /\ m.type # "DD" => NoNewDD(Peer(p))
         /\ \A m, b \in Message :
              /\ chan' = [chan EXCEPT ![Peer(p)] = @ \o <<m>> \o <<b>>]
              /\ m.type # "DD" /\ b.type # "DD"
              => NoNewDD(p) /\ NoNewDD(Peer(p))
         /\ \A m \in Message :
              /\ chan' = [chan EXCEPT ![Peer(p)] = @ \o <<m>> \o <<>>]
              /\ m.type # "DD"
              => NoNewDD(p) /\ NoNewDD(Peer(p))
<1> DEFINE q == Peer(p)
<1>1. q \in Router /\ q # p
  BY PeerProperties
<1>2. chan \in [Router -> Seq(Message)]
  BY DEF TypeOK
<1> HIDE DEF q
<1>3. \A r : chan'[r] = chan[r] => NoNewDD(r)
  BY DEF NoNewDD, NoMore, Descriptions
<1>4. ASSUME NEW m \in Message, m.type # "DD", chan'[q] = Append(chan[q], m)
      PROVE  NoNewDD(q)
  <2>1. chan[q] \in Seq(Message)
    BY <1>1, <1>2
  <2>2. Elements(chan'[q]) = Elements(chan[q]) \cup {m}
    BY <1>4, <2>1, QueueElements
  <2>3. NoMore(chan[q], chan'[q])
    BY <1>4, <2>1, PlacesAppend
  <2>4. QED
    BY <1>4, <2>2, <2>3 DEF NoNewDD, Descriptions
<1>5. ASSUME chan[p] # <<>>, Consume(p)
      PROVE  chan'[p] = Tail(chan[p]) /\ chan'[q] = chan[q] /\ NoNewDD(p) /\ NoNewDD(q)
  <2>1. chan'[p] = Tail(chan[p]) /\ chan'[q] = chan[q]
    BY <1>1, <1>2, <1>5 DEF Consume
  <2>2. chan[p] \in Seq(Message)
    BY <1>2
  <2>3. NoMore(chan[p], chan'[p])
    BY <1>5, <2>1, <2>2, PlacesTail
  <2>4. Elements(chan'[p]) \subseteq Elements(chan[p])
    BY <1>5, <2>1, HeadPacket
  <2>5. QED
    BY <1>3, <2>1, <2>3, <2>4 DEF NoNewDD, Descriptions
<1>6. ASSUME NEW m \in Message, Send(p, m)
      PROVE  /\ chan'[p] = chan[p] /\ NoNewDD(p) /\ chan'[q] = Append(chan[q], m)
             /\ m.type # "DD" => NoNewDD(q)
  <2>1. chan'[p] = chan[p] /\ chan'[q] = Append(chan[q], m)
    BY <1>1, <1>2, <1>6 DEF Send, q
  <2>2. QED
    BY <1>3, <1>4, <2>1
<1>7. ASSUME NEW m \in Message, NEW b \in Message, m.type # "DD", b.type # "DD",
             chan' = [chan EXCEPT ![q] = @ \o <<m>> \o <<b>>]
      PROVE  NoNewDD(p) /\ NoNewDD(q)
  <2> DEFINE c == Append(chan[q], m)
  <2>1. /\ chan[q] \in Seq(Message) /\ c \in Seq(Message)
        /\ Elements(c) = Elements(chan[q]) \cup {m}
        /\ c = chan[q] \o <<m>>
    <3>1. chan[q] \in Seq(Message)
      BY <1>1, <1>2
    <3>2. c \in Seq(Message) /\ Elements(c) = Elements(chan[q]) \cup {m}
      BY <3>1, QueueElements
    <3>3. c = chan[q] \o <<m>>
      BY <3>1, AppendIsConcat
    <3>4. QED
      BY <3>1, <3>2, <3>3
  <2>2. chan'[p] = chan[p] /\ chan'[q] = c \o <<b>>
    BY <1>1, <1>2, <1>7, <2>1
  <2>3. NoMore(chan[q], c)
    BY <1>7, <2>1, PlacesAppend
  <2> HIDE DEF c
  <2>4. /\ chan'[q] = Append(c, b) /\ Elements(Append(c, b)) = Elements(c) \cup {b}
        /\ NoMore(c, Append(c, b))
    <3>1. c \in Seq(Message)
      BY <2>1
    <3>2. Elements(Append(c, b)) = Elements(c) \cup {b}
      BY <3>1, QueueElements
    <3>3. c \o <<b>> = Append(c, b)
      BY <3>1, AppendIsConcat
    <3>4. NoMore(c, Append(c, b))
      BY <1>7, <3>1, PlacesAppend
    <3>5. QED
      BY <2>2, <3>2, <3>3, <3>4
  <2>5. NoNewDD(q)
    BY <1>7, <2>1, <2>3, <2>4 DEF NoNewDD, NoMore, Descriptions
  <2>6. QED
    BY <1>3, <2>2, <2>5
<1>8. ASSUME NEW m \in Message, m.type # "DD",
             chan' = [chan EXCEPT ![q] = @ \o <<m>> \o <<>>]
      PROVE  NoNewDD(p) /\ NoNewDD(q)
  <2> DEFINE c == Append(chan[q], m)
  <2>1. chan[q] \in Seq(Message) /\ c \in Seq(Message) /\ c = chan[q] \o <<m>>
    BY <1>1, <1>2, QueueElements, AppendIsConcat
  <2>2. chan'[p] = chan[p] /\ chan'[q] = c \o <<>>
    BY <1>1, <1>2, <1>8, <2>1
  <2>3. c \o <<>> = c
    BY <2>1, ConcatEmptySeq
  <2>4. QED
    BY <1>3, <1>4, <1>8, <2>2, <2>3
<1>9. QED
  BY <1>3, <1>5, <1>6, <1>7, <1>8 DEF q

-----------------------------------------------------------------------------
(* The control part of the neighbour record                                 *)

SameRole(n, m) == m.seq = n.seq /\ m.master = n.master /\ m.last = n.last
SameControl(n, m) == m.state = n.state /\ SameRole(n, m)
StartsExchange(n, m) ==
  m.state = "EXSTART" /\ m.seq = n.seq + 1 /\ m.master = TRUE /\ m.last = n.last

\* What each event does to the state, the role, the sequence number and the last packet.
LEMMA ControlEvents ==
  ASSUME NEW n \in Neighbor, NEW p \in Router
  PROVE  /\ \A ks : SameControl(n, AddRxmtList(n, ks))
         /\ \A ks : SameControl(n, RemoveFromRxmtList(n, ks))
         /\ \A h : SameControl(n, AddRequestList(n, h))
         /\ LET m == IncrementSequenceNumber(n)
            IN  m.state = n.state /\ m.seq = n.seq + 1 /\ m.master = n.master /\ m.last = n.last
         /\ LET m == TwoWayReceived(HelloReceived(n))
            IN  /\ n.state = "DOWN" => StartsExchange(n, m)
                /\ n.state # "DOWN" => m = n
         /\ LET m == NegotDone(n, p)
            IN  n.state = "EXSTART" => m.state = "EXCHANGE" /\ SameRole(n, m)
         /\ LET m == ExchangeDone(n, p)
            IN  /\ n.state = "EXCHANGE" => m.state \in {"LOADING", "FULL"} /\ SameRole(n, m)
                /\ n.state # "EXCHANGE" => m = n
         /\ LET m == RestartExchange(n)
            IN  /\ n.state \in Synchronizing => StartsExchange(n, m)
                /\ n.state \notin Synchronizing => m = n
         /\ KillNbr(n).state = "DOWN" /\ SameRole(n, KillNbr(n))
         /\ \A k \in Lsas : \A v : LET m == AnswerRequest(n, p, k, v)
              IN  /\ SameRole(n, m)
                  /\ m.state = n.state \/ (n.state = "LOADING" /\ m.state = "FULL")
<1>1. /\ \A ks : SameControl(n, AddRxmtList(n, ks))
      /\ \A ks : SameControl(n, RemoveFromRxmtList(n, ks))
      /\ \A h : SameControl(n, AddRequestList(n, h))
  BY DEF SameControl, SameRole, AddRxmtList, RemoveFromRxmtList, AddRequestList, Neighbor
<1>2. LET m == IncrementSequenceNumber(n)
      IN  m.state = n.state /\ m.seq = n.seq + 1 /\ m.master = n.master /\ m.last = n.last
  BY DEF IncrementSequenceNumber, Neighbor
<1>3. LET m == TwoWayReceived(HelloReceived(n))
      IN  /\ n.state = "DOWN" => StartsExchange(n, m)
          /\ n.state # "DOWN" => m = n
  BY DEF TwoWayReceived, HelloReceived, StartExchange, IncrementSequenceNumber,
         StartsExchange, Neighbor, NeighborState
<1>4. LET m == NegotDone(n, p)
      IN  n.state = "EXSTART" => m.state = "EXCHANGE" /\ SameRole(n, m)
  BY DEF NegotDone, SameRole, Neighbor
<1>5. \A m \in Neighbor : EnterFull(m, p).state = "FULL" /\ SameRole(m, EnterFull(m, p))
  BY DEF EnterFull, AddRxmtList, SameRole, Neighbor
<1>6. LET m == ExchangeDone(n, p)
      IN  /\ n.state = "EXCHANGE" => m.state \in {"LOADING", "FULL"} /\ SameRole(n, m)
          /\ n.state # "EXCHANGE" => m = n
  <2>1. LET m == [n EXCEPT !.state = "LOADING"] IN m.state = "LOADING" /\ SameRole(n, m)
    BY DEF SameRole, Neighbor
  <2>2. ExchangeDone(n, p) \in {n, EnterFull(n, p), [n EXCEPT !.state = "LOADING"]}
    BY DEF ExchangeDone
  <2>3. CASE n.state = "EXCHANGE"
    <3>1. ExchangeDone(n, p) \in {EnterFull(n, p), [n EXCEPT !.state = "LOADING"]}
      BY <2>3 DEF ExchangeDone
    <3>2. QED
      BY <1>5, <2>1, <2>3, <3>1
  <2>4. CASE n.state # "EXCHANGE"
    BY <2>4 DEF ExchangeDone
  <2>5. QED
    BY <2>3, <2>4
<1>7. LET m == RestartExchange(n)
      IN  /\ n.state \in Synchronizing => StartsExchange(n, m)
          /\ n.state \notin Synchronizing => m = n
  <2> DEFINE s == [n EXCEPT !.state = "EXSTART"]
             c == ClearList(s)
  <2>1. s \in Neighbor /\ s.state = "EXSTART" /\ SameRole(n, s)
    BY DEF Neighbor, NeighborState, SameRole
  <2>2. n.state \in Synchronizing => RestartExchange(n) = StartExchange(c)
    BY DEF RestartExchange
  <2> HIDE DEF s
  <2>3. c.state = "EXSTART" /\ SameRole(n, c) /\ c \in Neighbor
    BY <2>1, HeadersTypes DEF ClearList, Neighbor, SameRole
  <2> HIDE DEF c
  <2>4. StartsExchange(n, StartExchange(c))
    BY <2>3 DEF StartExchange, IncrementSequenceNumber, StartsExchange, SameRole, Neighbor
  <2>5. n.state \notin Synchronizing => RestartExchange(n) = n
    BY DEF RestartExchange
  <2>6. QED
    BY <2>2, <2>4, <2>5
<1>8. KillNbr(n).state = "DOWN" /\ SameRole(n, KillNbr(n))
  BY DEF KillNbr, ClearList, SameRole, Neighbor
<1>9. ASSUME NEW k \in Lsas, NEW v
      PROVE  LET m == AnswerRequest(n, p, k, v)
             IN  /\ SameRole(n, m)
                 /\ m.state = n.state \/ (n.state = "LOADING" /\ m.state = "FULL")
  <2> DEFINE r == RemoveFromRequestList(n, k)
  <2>1. r \in Neighbor /\ SameControl(n, r)
    BY DEF RemoveFromRequestList, SameControl, SameRole, Neighbor, Headers
  <2> HIDE DEF r
  <2>2. LET m == LoadingDone(r, p)
        IN  /\ SameRole(n, m)
            /\ m.state = n.state \/ (n.state = "LOADING" /\ m.state = "FULL")
    <3>1. \/ LoadingDone(r, p) = r
          \/ r.state = "LOADING" /\ LoadingDone(r, p) = EnterFull(r, p)
      BY DEF LoadingDone
    <3>2. EnterFull(r, p).state = "FULL" /\ SameRole(r, EnterFull(r, p))
      BY <1>5, <2>1
    <3>3. CASE LoadingDone(r, p) = r
      BY <2>1, <3>3 DEF SameControl
    <3>4. CASE r.state = "LOADING" /\ LoadingDone(r, p) = EnterFull(r, p)
      <4>1. n.state = "LOADING" /\ SameRole(n, r)
        BY <2>1, <3>4 DEF SameControl
      <4>2. SameRole(n, EnterFull(r, p))
        BY <3>2, <4>1 DEF SameRole
      <4>3. QED
        BY <3>2, <3>4, <4>1, <4>2
    <3>5. QED
      BY <3>1, <3>3, <3>4
  <2>3. AnswerRequest(n, p, k, v) = n \/ AnswerRequest(n, p, k, v) = LoadingDone(r, p)
    BY Zenon DEF AnswerRequest, r
  <2>4. CASE AnswerRequest(n, p, k, v) = n
    BY <2>4 DEF SameRole
  <2>5. CASE AnswerRequest(n, p, k, v) = LoadingDone(r, p)
    BY <2>2, <2>5
  <2>6. QED
    BY <2>3, <2>4, <2>5
<1>10. QED
  BY <1>1, <1>2, <1>3, <1>4, <1>6, <1>7, <1>8, <1>9

SameLists(n, m) == m.req = n.req /\ m.summary = n.summary

\* What each event does to the request list and the summary list.
LEMMA ListEvents ==
  ASSUME NEW n \in Neighbor, NEW p \in Router
  PROVE  /\ \A ks : SameLists(n, AddRxmtList(n, ks))
         /\ \A ks : SameLists(n, RemoveFromRxmtList(n, ks))
         /\ SameLists(n, IncrementSequenceNumber(n))
         /\ SameLists(n, TwoWayReceived(HelloReceived(n)))
         /\ \A h : LET m == AddRequestList(n, h)
                   IN  /\ m.summary = n.summary
                       /\ m.req = [k \in Lsas |-> IF n.req[k] = 0 THEN h[k] ELSE n.req[k]]
         /\ LET m == NegotDone(n, p)
            IN  /\ m.req = n.req
                /\ n.state = "EXSTART" => m.summary = Pick(lsdb[p], Describable)
         /\ LET m == ExchangeDone(n, p)
            IN  /\ SameLists(n, m)
                /\ n.state # "FULL" /\ m.state = "FULL" => n.req = NoHeaders
         /\ LET m == RestartExchange(n)
            IN  /\ n.state \in Synchronizing => m.req = NoHeaders
                /\ n.state \notin Synchronizing => m = n
         /\ KillNbr(n).req = NoHeaders
         /\ \A k \in Lsas : \A v : AnswerRequest(n, p, k, v).summary = n.summary
         /\ \A k \in Lsas : \A v : LET m == AnswerRequest(n, p, k, v)
              IN  \/ m = n /\ (n.state \notin {"EXCHANGE", "LOADING"} \/ n.req[k] \notin 1..v)
                  \/ /\ m.req = [n.req EXCEPT ![k] = 0] /\ n.req[k] \in 1..v
                     /\ m.state # n.state => m.req = NoHeaders
<1>1. /\ \A ks : SameLists(n, AddRxmtList(n, ks))
      /\ \A ks : SameLists(n, RemoveFromRxmtList(n, ks))
      /\ SameLists(n, IncrementSequenceNumber(n))
      /\ \A h : LET m == AddRequestList(n, h)
                IN  /\ m.summary = n.summary
                    /\ m.req = [k \in Lsas |-> IF n.req[k] = 0 THEN h[k] ELSE n.req[k]]
  BY DEF SameLists, AddRxmtList, RemoveFromRxmtList, IncrementSequenceNumber, AddRequestList,
         Neighbor
<1>2. SameLists(n, TwoWayReceived(HelloReceived(n)))
  BY DEF SameLists, TwoWayReceived, HelloReceived, StartExchange, IncrementSequenceNumber,
         Neighbor
<1>3. LET m == NegotDone(n, p)
      IN  m.req = n.req /\ (n.state = "EXSTART" => m.summary = Pick(lsdb[p], Describable))
  BY DEF NegotDone, Neighbor
<1>4. \A m \in Neighbor : SameLists(m, EnterFull(m, p))
  BY DEF SameLists, EnterFull, AddRxmtList, Neighbor
<1>5. LET m == ExchangeDone(n, p)
      IN  /\ SameLists(n, m)
          /\ n.state # "FULL" /\ m.state = "FULL" => n.req = NoHeaders
  <2>1. LET m == [n EXCEPT !.state = "LOADING"] IN SameLists(n, m) /\ m.state = "LOADING"
    BY DEF SameLists, Neighbor
  <2>2. \/ ExchangeDone(n, p) = n
        \/ ExchangeDone(n, p) = EnterFull(n, p) /\ n.req = NoHeaders
        \/ ExchangeDone(n, p) = [n EXCEPT !.state = "LOADING"]
    BY DEF ExchangeDone
  <2>3. QED
    BY <1>4, <2>1, <2>2 DEF SameLists
<1>6. /\ n.state \in Synchronizing => RestartExchange(n).req = NoHeaders
      /\ n.state \notin Synchronizing => RestartExchange(n) = n
      /\ KillNbr(n).req = NoHeaders
  BY DEF RestartExchange, KillNbr, ClearList, StartExchange, IncrementSequenceNumber, Neighbor
<1>7. ASSUME NEW k \in Lsas, NEW v
      PROVE  LET m == AnswerRequest(n, p, k, v)
             IN  /\ m.summary = n.summary
                 /\ \/ m = n /\ (n.state \notin {"EXCHANGE", "LOADING"} \/ n.req[k] \notin 1..v)
                    \/ /\ m.req = [n.req EXCEPT ![k] = 0] /\ n.req[k] \in 1..v
                       /\ m.state # n.state => m.req = NoHeaders
  <2> DEFINE r == RemoveFromRequestList(n, k)
  <2>1. /\ r \in Neighbor /\ r.summary = n.summary /\ r.state = n.state
        /\ r.req = [n.req EXCEPT ![k] = 0]
    BY DEF RemoveFromRequestList, Neighbor, Headers
  <2>2. \/ /\ AnswerRequest(n, p, k, v) = n
           /\ n.state \notin {"EXCHANGE", "LOADING"} \/ n.req[k] \notin 1..v
        \/ AnswerRequest(n, p, k, v) = LoadingDone(r, p) /\ n.req[k] \in 1..v
    BY Zenon DEF AnswerRequest, r
  <2> HIDE DEF r
  <2>3. \/ LoadingDone(r, p) = r
        \/ LoadingDone(r, p) = EnterFull(r, p) /\ r.req = NoHeaders
    BY DEF LoadingDone
  <2>4. SameLists(r, EnterFull(r, p))
    BY <1>4, <2>1
  <2>5. /\ LoadingDone(r, p).summary = n.summary
        /\ LoadingDone(r, p).req = [n.req EXCEPT ![k] = 0]
        /\ LoadingDone(r, p).state # n.state => LoadingDone(r, p).req = NoHeaders
    BY <2>1, <2>3, <2>4 DEF SameLists
  <2>6. CASE /\ AnswerRequest(n, p, k, v) = n
             /\ n.state \notin {"EXCHANGE", "LOADING"} \/ n.req[k] \notin 1..v
    BY <2>6
  <2>7. CASE AnswerRequest(n, p, k, v) = LoadingDone(r, p) /\ n.req[k] \in 1..v
    BY <2>5, <2>7
  <2>8. QED
    BY <2>2, <2>6, <2>7
<1>8. QED
  BY <1>1, <1>2, <1>3, <1>5, <1>6, <1>7

-----------------------------------------------------------------------------
(* What one step does to the exchange                                       *)

\* The descriptions that wait to be sent stay the same.
SameDue(p) == (InitialDue(p)' <=> InitialDue(p)) /\ (NextDue(p)' <=> NextDue(p))
NoNewDDs(p) == NoNewDD(p) /\ NoNewDD(Peer(p))

\* Nothing but that the request list may have emptied, or a packet been noted.
CalmStep(p) ==
  /\ nbr'[p].seq = nbr[p].seq /\ nbr'[p].master = nbr[p].master
  /\ \/ nbr'[p].state = nbr[p].state
     \/ nbr[p].state = "LOADING" /\ nbr'[p].state = "FULL"
  /\ nbr'[p].last = nbr[p].last \/ due[p] = <<>>
  /\ nbr'[p].summary = nbr[p].summary
  /\ SameDue(p) /\ NoNewDDs(p)

\* What makes a router that synchronises begin again: a description out of turn, a
\* request for an LSA that it lacks, an older instance than it has of an LSA it requests.
Surprised(p) ==
  \/ /\ Arrives(p, "DD") /\ Mismatch(NoteDD(p, Head(chan[p])), Head(chan[p]))
     /\ ~Fragmented(p)
  \/ Arrives(p, "LSR") /\ ~(Head(chan[p]).ids \subseteq Listed(lsdb[p]))
  \/ \E k \in Listed(hand[p]) : hand[p][k] < lsdb[p][k] /\ nbr[p].req[k] # 0

\* TWOWAY_RCVD, BAD_LS_REQ or SEQ_NUM_MISMATCH.
RestartStep(p) ==
  /\ nbr[p].state = "DOWN" \/ (nbr[p].state \in Synchronizing /\ Surprised(p))
  /\ nbr'[p].state = "EXSTART" /\ nbr'[p].seq = nbr[p].seq + 1 /\ nbr'[p].master = TRUE
  /\ due[p] = <<>> /\ InitialDue(p)' /\ ~NextDue(p)' /\ NoNewDDs(p)

KillStep(p) ==
  /\ faults'.inactive = faults.inactive + 1
  /\ nbr'[p].state = "DOWN" /\ SameRole(nbr[p], nbr'[p])
  /\ due[p] = <<>> /\ due'[p] = <<>> /\ NoNewDDs(p)

SendInitialStep(p) ==
  /\ SameControl(nbr[p], nbr'[p])
  /\ InitialDue(p) /\ NoneDue(p)' /\ NoNewDD(p)
  /\ \E m \in Message :
       /\ m.type = "DD" /\ m.init /\ m.seq = nbr[p].seq
       /\ chan'[Peer(p)] = Append(chan[Peer(p)], m)

\* A description says whether the list was empty when it was built, or repeats the flag
\* of the one it answers, and it holds what it takes off the list.
Says(p, m) ==
  /\ m.more <=> IF nbr[p].master THEN nbr[p].summary # NoHeaders ELSE nbr[p].last.more
  /\ nbr[p].last.init => m.headers = NoHeaders
  /\ Listed(nbr'[p].summary) \subseteq Listed(nbr[p].summary)
  /\ \A k \in Listed(nbr[p].summary) :
       k \in Listed(nbr'[p].summary) \/ m.headers[k] \in {nbr[p].summary[k], lsdb[p][k]}

SendNextStep(p) ==
  /\ SameControl(nbr[p], nbr'[p])
  /\ NextDue(p) /\ NoneDue(p)' /\ NoNewDD(p)
  /\ \E m \in Message :
       /\ m.type = "DD" /\ ~m.init /\ m.seq = nbr[p].seq /\ m.master = nbr[p].master
       /\ Says(p, m) /\ chan'[Peer(p)] = Append(chan[Peer(p)], m)

\* p takes the description m, and its answer, if any, is the only one that waits.
Takes(p, m) ==
  /\ chan[p] # <<>> /\ m = Head(chan[p]) /\ m.type = "DD" /\ chan'[p] = Tail(chan[p])
  /\ ~Fragmented(p)
  /\ nbr'[p].last.has
  /\ due[p] = <<>> /\ ~InitialDue(p)' /\ NoNewDDs(p)

NegotiateStep(p) ==
  /\ nbr[p].state = "EXSTART" /\ nbr'[p].state = "EXCHANGE"
  /\ nbr'[p].summary = Pick(lsdb[p], Describable)
  /\ Takes(p, Head(chan[p])) /\ NextDue(p)'
  /\ LET m == Head(chan[p])
     IN  \/ /\ p < Peer(p) /\ m.init
            /\ nbr'[p].master = FALSE /\ nbr'[p].seq = m.seq
            /\ nbr'[p].last.init /\ nbr'[p].last.more
         \/ /\ p > Peer(p) /\ ~m.init /\ ~m.master /\ m.seq = nbr[p].seq
            /\ nbr'[p].master = TRUE /\ nbr'[p].seq = nbr[p].seq + 1

\* The headers of the description m are requested; the exchange ends without the More
\* flag, for the slave with one more answer.
Accepts(p, m) ==
  /\ nbr'[p].summary = nbr[p].summary /\ nbr'[p].last.more = m.more
  /\ nbr'[p].req = [k \in Lsas |-> IF nbr[p].req[k] = 0 THEN Wanted(p, m.headers)[k]
                                                       ELSE nbr[p].req[k]]
  /\ nbr[p].state = "EXCHANGE" =>
       /\ nbr'[p].state = "EXCHANGE" <=> m.more
       /\ nbr'[p].state = "FULL" => nbr'[p].req = NoHeaders
  /\ NextDue(p)' <=> m.more \/ ~nbr[p].master
  /\ hand[p] = NoHeaders /\ hand' = hand
  /\ \A k \in Lsas \ OwnLsas(p) : lsdb'[p][k] = lsdb[p][k]

AcceptStep(p) ==
  /\ nbr[p].state \in Synchronizing /\ nbr'[p].master = nbr[p].master
  /\ nbr'[p].state = nbr[p].state \/ nbr'[p].state \in {"LOADING", "FULL"}
  /\ Takes(p, Head(chan[p]))
  /\ LET m == Head(chan[p])
     IN  /\ Accepts(p, m)
         /\ nbr[p].state = "EXCHANGE" => ~m.init
         /\ \/ /\ nbr[p].master /\ nbr'[p].seq = nbr[p].seq + 1
               /\ nbr[p].state = "EXCHANGE" => m.seq = nbr[p].seq
            \/ /\ ~nbr[p].master /\ nbr'[p].seq = m.seq

ExchangeStep(p) ==
  /\ TidyCalls(p)'
  /\ \/ CalmStep(p) \/ RestartStep(p) \/ KillStep(p)
     \/ SendInitialStep(p) \/ SendNextStep(p)
     \/ NegotiateStep(p) \/ AcceptStep(p)

\* What the ways of using the queue of calls do to the descriptions in it.
LEMMA DueSteps ==
  ASSUME TypeOK, NEW p \in Router
  PROVE  /\ due' = due => due'[p] = due[p] /\ SameDue(p)
         /\ \A cs \in Seq(DueCall) : due[p] = <<>> /\ Schedule(p, cs) => due'[p] = cs
         /\ due[p] # <<>> /\ OneDD(due[p]) /\ due' = [due EXCEPT ![p] = Tail(@)] =>
              /\ OneDD(due'[p]) /\ NoneDue(p)'
              /\ Head(due[p]).call # "SendDD" => NoneDue(p)
              /\ Head(due[p]) \in Elements(due[p])
         /\ due[p] = <<>> => OneDD(due[p]) /\ NoneDue(p)
<1>1. due \in [Router -> Seq(DueCall)]
  BY DEF TypeOK
<1>2. due' = due => due'[p] = due[p] /\ SameDue(p)
  BY DEF SameDue, InitialDue, NextDue
<1>3. ASSUME NEW cs \in Seq(DueCall), due[p] = <<>>, Schedule(p, cs)
      PROVE  due'[p] = cs
  <2>1. due'[p] = <<>> \o cs
    BY <1>1, <1>3 DEF Schedule
  <2>2. <<>> \o cs = cs
    BY <1>3, ConcatEmptySeq
  <2>3. QED
    BY <2>1, <2>2
<1>4. ASSUME due[p] # <<>>, OneDD(due[p]), due' = [due EXCEPT ![p] = Tail(@)]
      PROVE  /\ OneDD(due'[p]) /\ NoneDue(p)'
             /\ Head(due[p]).call # "SendDD" => NoneDue(p)
             /\ Head(due[p]) \in Elements(due[p])
  <2>1. due[p] \in Seq(DueCall) /\ due'[p] = Tail(due[p])
    BY <1>1, <1>4
  <2>2. OneDD(Tail(due[p])) /\ \A c \in Elements(Tail(due[p])) : c.call # "SendDD"
    BY <1>4, <2>1, TidyTail
  <2>3. \A b \in BOOLEAN : SendDDCall(b).call = "SendDD"
    BY DDCalls
  <2>4. NoneDue(p)'
    BY <2>1, <2>2, <2>3 DEF NoneDue, InitialDue, NextDue
  <2>5. Head(due[p]).call # "SendDD" => \A c \in Elements(due[p]) : c.call # "SendDD"
    BY <1>4, <2>1, TidyHead
  <2>6. Head(due[p]).call # "SendDD" => NoneDue(p)
    BY <2>3, <2>5 DEF NoneDue, InitialDue, NextDue
  <2>7. QED
    BY <1>4, <2>1, <2>2, <2>4, <2>6, HeadCall
<1>5. due[p] = <<>> => OneDD(due[p]) /\ NoneDue(p)
  BY ScheduledQueues DEF NoneDue, InitialDue, NextDue
<1>6. QED
  BY <1>2, <1>3, <1>4, <1>5

\* Whether the queue that an event schedules sends a description.
LEMMA ScheduledDue ==
  ASSUME TypeOK, NEW p \in Router, due[p] = <<>>
  PROVE  /\ Schedule(p, <<SendDDCall(FALSE)>>) =>
              OneDD(due'[p]) /\ NextDue(p)' /\ ~InitialDue(p)'
         /\ \A h \in Headers : Schedule(p, <<SendLSUCall(h)>>) => OneDD(due'[p]) /\ NoneDue(p)'
         /\ \A n, m :
              /\ Schedule(p, EventCalls(n, m)) =>
                   /\ OneDD(due'[p]) /\ ~NextDue(p)'
                   /\ InitialDue(p)' <=> Restarts(n, m)
              /\ Schedule(p, Append(EventCalls(n, m), EntryPointCall)) =>
                   /\ OneDD(due'[p]) /\ ~NextDue(p)'
                   /\ InitialDue(p)' <=> Restarts(n, m)
              /\ ~Restarts(n, m) /\ Schedule(p, <<SendDDCall(FALSE)>> \o EventCalls(n, m)) =>
                   OneDD(due'[p]) /\ NextDue(p)' /\ ~InitialDue(p)'
<1>1. /\ SendDDCall(FALSE) \in DueCall /\ SendLSRCall \in DueCall /\ EntryPointCall \in DueCall
      /\ \A h \in Headers : SendLSUCall(h) \in DueCall
      /\ \A n, m : EventCalls(n, m) \in Seq(DueCall)
  BY DueCallTypes
<1>2. \A cs \in Seq(DueCall) : Schedule(p, cs) => due'[p] = cs
  BY DueSteps
<1>3. Schedule(p, <<SendDDCall(FALSE)>>) => OneDD(due'[p]) /\ NextDue(p)' /\ ~InitialDue(p)'
  <2>1. /\ <<SendDDCall(FALSE)>> \in Seq(DueCall) /\ OneDD(<<SendDDCall(FALSE)>>)
        /\ Elements(<<SendDDCall(FALSE)>>) = {SendDDCall(FALSE)}
    BY <1>1, ScheduledQueues
  <2>2. QED
    BY <1>2, <2>1, DDCalls DEF InitialDue, NextDue
<1>4. ASSUME NEW h \in Headers, Schedule(p, <<SendLSUCall(h)>>)
      PROVE  OneDD(due'[p]) /\ NoneDue(p)'
  <2>1. /\ <<SendLSUCall(h)>> \in Seq(DueCall) /\ OneDD(<<SendLSUCall(h)>>)
        /\ Elements(<<SendLSUCall(h)>>) = {SendLSUCall(h)}
    BY <1>1, ScheduledQueues
  <2>2. SendDDCall(TRUE).call = "SendDD" /\ SendDDCall(FALSE).call = "SendDD"
        /\ SendLSUCall(h).call # "SendDD"
    BY DDCalls
  <2>3. due'[p] = <<SendLSUCall(h)>>
    BY <1>2, <1>4, <2>1
  <2>4. SendDDCall(TRUE) # SendLSUCall(h) /\ SendDDCall(FALSE) # SendLSUCall(h)
    BY <2>2
  <2>5. QED
    BY <2>1, <2>3, <2>4 DEF InitialDue, NextDue, NoneDue
<1>5. ASSUME NEW n, NEW m
      PROVE  LET cs == EventCalls(n, m)
             IN  /\ OneDD(cs) /\ SendDDCall(FALSE) \notin Elements(cs)
                 /\ SendDDCall(TRUE) \in Elements(cs) <=> Restarts(n, m)
  <2>1. SendDDCall(TRUE) # SendDDCall(FALSE)
        /\ SendDDCall(TRUE) # SendLSRCall /\ SendDDCall(FALSE) # SendLSRCall
    BY DDCalls
  <2>2. Restarts(n, m) \in BOOLEAN
    BY DEF Restarts
  <2>3. CASE Restarts(n, m)
    <3>1. OneDD(EventCalls(n, m)) /\ Elements(EventCalls(n, m)) = {SendDDCall(TRUE)}
      BY <2>3, ScheduledQueues
    <3>2. QED
      BY <2>1, <2>3, <3>1
  <2>4. CASE ~Restarts(n, m)
    <3>1. OneDD(EventCalls(n, m)) /\ Elements(EventCalls(n, m)) \subseteq {SendLSRCall}
      BY <2>4, ScheduledQueues
    <3>2. QED
      BY <2>1, <2>4, <3>1
  <2>5. QED
    BY <2>2, <2>3, <2>4
<1>6. ASSUME NEW n, NEW m, Schedule(p, EventCalls(n, m))
      PROVE  /\ OneDD(due'[p]) /\ ~NextDue(p)'
             /\ InitialDue(p)' <=> Restarts(n, m)
  <2>1. due'[p] = EventCalls(n, m)
    BY <1>1, <1>2, <1>6
  <2>2. QED
    BY <1>5, <2>1 DEF InitialDue, NextDue
<1>7. ASSUME NEW n, NEW m, Schedule(p, Append(EventCalls(n, m), EntryPointCall))
      PROVE  /\ OneDD(due'[p]) /\ ~NextDue(p)'
             /\ InitialDue(p)' <=> Restarts(n, m)
  <2> DEFINE cs == EventCalls(n, m)
  <2>1. cs \in Seq(DueCall) /\ OneDD(cs) /\ EntryPointCall.call # "SendDD"
    BY <1>1, <1>5, DDCalls
  <2> HIDE DEF cs
  <2>2. /\ Append(cs, EntryPointCall) \in Seq(DueCall)
        /\ Elements(Append(cs, EntryPointCall)) = Elements(cs) \cup {EntryPointCall}
    BY <1>1, <2>1, QueueElements
  <2>3. OneDD(Append(cs, EntryPointCall))
    BY <1>1, <2>1, TidyAppend
  <2>4. due'[p] = Append(cs, EntryPointCall)
    BY <1>2, <1>7, <2>2 DEF cs
  <2>5. SendDDCall(TRUE) # EntryPointCall /\ SendDDCall(FALSE) # EntryPointCall
    BY DDCalls
  <2>6. /\ SendDDCall(FALSE) \notin Elements(cs)
        /\ SendDDCall(TRUE) \in Elements(cs) <=> Restarts(n, m)
    BY <1>5 DEF cs
  <2>7. QED
    BY <2>2, <2>3, <2>4, <2>5, <2>6 DEF InitialDue, NextDue
<1>8. ASSUME NEW n, NEW m, ~Restarts(n, m),
             Schedule(p, <<SendDDCall(FALSE)>> \o EventCalls(n, m))
      PROVE  OneDD(due'[p]) /\ NextDue(p)' /\ ~InitialDue(p)'
  <2> DEFINE q == <<SendDDCall(FALSE)>>
             cs == EventCalls(n, m)
  <2>1. q \in Seq(DueCall) /\ cs \in Seq(DueCall) /\ Elements(q) = {SendDDCall(FALSE)}
    BY <1>1, ScheduledQueues
  <2>2. OneDD(q \o cs)
    BY <1>8, ScheduledQueues
  <2> HIDE DEF q, cs
  <2>3. q \o cs \in Seq(DueCall) /\ Elements(q \o cs) = Elements(q) \cup Elements(cs)
    BY <2>1, QueueElements
  <2>4. due'[p] = q \o cs
    BY <1>2, <1>8, <2>3 DEF q, cs
  <2>5. SendDDCall(TRUE) \notin Elements(cs)
    BY <1>5, <1>8 DEF cs
  <2>6. QED
    BY <2>1, <2>2, <2>3, <2>4, <2>5, DDCalls DEF InitialDue, NextDue
<1>9. QED
  BY <1>3, <1>4, <1>6, <1>7, <1>8

\* What taking a description in turn does to the exchange.
LEMMA AcceptExchange ==
  ASSUME TypeOK, NEW p \in Router, ReceiveDDAsMaster(p) \/ ReceiveDDAsSlave(p)
  PROVE  TidyCalls(p)' /\ AcceptStep(p)
<1> DEFINE dd == Head(chan[p])
           n == NoteDD(p, dd)
           a == AddRequestList(n, Wanted(p, dd.headers))
<1>1. /\ chan[p] # <<>> /\ Consume(p) /\ Idle(p) /\ hand' = hand
      /\ dd.type = "DD" /\ ~Fragmented(p) /\ Accepted(n, dd)
  BY DEF Arrives, ReceiveDDAsMaster, ReceiveDDAsSlave
<1>2. dd \in Message /\ NoNewDDs(p) /\ chan'[p] = Tail(chan[p])
  BY <1>1, ChannelSteps, HeadPacket DEF NoNewDDs
<1>3. due[p] = <<>> /\ hand[p] = NoHeaders
  BY <1>1 DEF Idle
<1>4. nbr[p] \in Neighbor /\ lsdb[p] \in Headers
  BY DEF TypeOK
<1>5. \A m : SetNbr(p, m) => nbr'[p] = m
  BY DEF SetNbr, TypeOK
<1>6. /\ n \in Neighbor /\ n.last.has = TRUE /\ n.last.more = dd.more
      /\ n.state = nbr[p].state /\ n.seq = nbr[p].seq /\ n.master = nbr[p].master
      /\ n.req = nbr[p].req /\ n.summary = nbr[p].summary
      /\ dd.seq \in Nat /\ dd.init \in BOOLEAN /\ dd.more \in BOOLEAN
      /\ Wanted(p, dd.headers) \in Headers
  <2>1. n \in Neighbor /\ Wanted(p, dd.headers) \in Headers
    BY <1>1, <1>2, NoteDDTypes
  <2>2. dd.seq \in Nat /\ dd.init \in BOOLEAN /\ dd.more \in BOOLEAN
    BY <1>1, <1>2, MessageTypes
  <2> HIDE DEF dd
  <2>3. /\ n.last.has = TRUE /\ n.last.more = dd.more
        /\ n.state = nbr[p].state /\ n.seq = nbr[p].seq /\ n.master = nbr[p].master
        /\ n.req = nbr[p].req /\ n.summary = nbr[p].summary
    BY <1>4 DEF NoteDD, Known, Neighbor
  <2>4. QED
    BY <2>1, <2>2, <2>3
<1>7. \A os, js : /\ os \subseteq OwnLsas(p) /\ js \subseteq OwnLsas(p)
                  /\ lsdb' \in {lsdb, [lsdb EXCEPT ![p] = Reoriginate(lsdb[p], os)],
                                [lsdb EXCEPT ![p] = Reoriginate(Reoriginate(lsdb[p], os), js)]}
                  => \A k \in Lsas \ OwnLsas(p) : lsdb'[p][k] = lsdb[p][k]
  BY <1>4 DEF Reoriginate, TypeOK
<1>8. \A x, y : OriginatedBy(x, y, p) \subseteq OwnLsas(p)
  BY DEF OriginatedBy
<1> HIDE DEF dd, n
<1>9. /\ a \in Neighbor /\ SameControl(n, a) /\ a.summary = n.summary
      /\ a.req = [k \in Lsas |-> IF nbr[p].req[k] = 0 THEN Wanted(p, dd.headers)[k]
                                                      ELSE nbr[p].req[k]]
  <2>1. a \in Neighbor
    BY <1>4, <1>6, NeighborTypes
  <2>2. SameControl(n, a)
    BY <1>6, ControlEvents
  <2>3. /\ a.summary = n.summary
        /\ a.req = [k \in Lsas |-> IF n.req[k] = 0 THEN Wanted(p, dd.headers)[k] ELSE n.req[k]]
    BY <1>6, ListEvents
  <2>4. QED
    BY <1>6, <2>1, <2>2, <2>3
<1> HIDE DEF a
<1>10. ASSUME OneDD(due'[p]), ~InitialDue(p)', NextDue(p)' <=> dd.more \/ ~n.master,
              nbr'[p].last = n.last, nbr'[p].master = n.master,
              nbr'[p].req = a.req, nbr'[p].summary = n.summary,
              nbr'[p].state = n.state \/ nbr'[p].state \in {"LOADING", "FULL"},
              n.state = "EXCHANGE" =>
                /\ nbr'[p].state = "EXCHANGE" <=> dd.more
                /\ nbr'[p].state = "FULL" => nbr'[p].req = NoHeaders,
              \A k \in Lsas \ OwnLsas(p) : lsdb'[p][k] = lsdb[p][k],
              \/ n.master /\ nbr'[p].seq = n.seq + 1
              \/ ~n.master /\ nbr'[p].seq = dd.seq
       PROVE  TidyCalls(p)' /\ AcceptStep(p)
  <2>1. /\ n.state \in Synchronizing
        /\ n.state = "EXCHANGE" => ~dd.init /\ (n.master => dd.seq = n.seq)
    BY <1>1 DEF Accepted, Mismatch
  <2>2. Takes(p, Head(chan[p]))
    BY <1>1, <1>2, <1>3, <1>6, <1>10 DEF Takes, dd
  <2>3. Accepts(p, dd)
    BY <1>1, <1>3, <1>6, <1>9, <1>10 DEF Accepts
  <2>4. AcceptStep(p)
    BY <1>6, <1>10, <2>1, <2>2, <2>3 DEF AcceptStep, dd
  <2>5. TidyCalls(p)'
    BY <1>1, <1>3, <1>10 DEF TidyCalls
  <2>6. QED
    BY <2>4, <2>5
<1>11. CASE ReceiveDDAsMaster(p)
  <2> DEFINE i == IncrementSequenceNumber(a)
             m == IF dd.more THEN i ELSE ExchangeDone(i, p)
  <2>1. /\ i.master /\ nbr'[p] = m
        /\ Schedule(p, IF dd.more THEN <<SendDDCall(FALSE)>> ELSE EventCalls(i, m))
        /\ lsdb' = [lsdb EXCEPT ![p] = Reoriginate(lsdb[p], OriginatedBy(i, m, p))]
    BY <1>5, <1>11 DEF ReceiveDDAsMaster, dd, n, a
  <2>2. /\ i \in Neighbor /\ i.state = n.state /\ i.seq = n.seq + 1
        /\ i.master = n.master /\ i.last = n.last /\ SameLists(a, i)
    <3>1. /\ i.state = a.state /\ i.seq = a.seq + 1 /\ i.master = a.master /\ i.last = a.last
          /\ i \in Neighbor /\ SameLists(a, i)
      BY <1>4, <1>9, ControlEvents, ListEvents, NeighborTypes
    <3>2. QED
      BY <1>9, <3>1 DEF SameControl, SameRole
  <2> HIDE DEF i
  <2>3. /\ SameRole(i, m) /\ SameLists(i, m)
        /\ m.state = i.state \/ m.state \in {"LOADING", "FULL"}
        /\ i.state = "EXCHANGE" /\ ~dd.more => m.state \in {"LOADING", "FULL"}
        /\ i.state = "EXCHANGE" /\ m.state = "FULL" => i.req = NoHeaders
        /\ dd.more => m = i
    <3>1. CASE dd.more
      BY <3>1 DEF SameRole, SameLists
    <3>2. CASE ~dd.more
      BY <2>2, <3>2, ControlEvents, ListEvents DEF SameRole
    <3>3. QED
      BY <1>6, <3>1, <3>2
  <2>4. OneDD(due'[p]) /\ ~InitialDue(p)' /\ (NextDue(p)' <=> dd.more)
    <3>1. ~Restarts(i, m)
      BY <2>3 DEF Restarts
    <3>2. CASE dd.more
      BY <1>3, <2>1, <3>2, ScheduledDue
    <3>3. CASE ~dd.more
      BY <1>3, <2>1, <3>1, <3>3, ScheduledDue
    <3>4. QED
      BY <1>6, <3>2, <3>3
  <2> HIDE DEF m
  <2>5. \A k \in Lsas \ OwnLsas(p) : lsdb'[p][k] = lsdb[p][k]
    BY <1>7, <1>8, <2>1
  <2>6. n.state = "EXCHANGE" => /\ nbr'[p].state = "EXCHANGE" <=> dd.more
                                /\ nbr'[p].state = "FULL" => nbr'[p].req = NoHeaders
    BY <2>1, <2>2, <2>3 DEF SameLists
  <2>7. /\ nbr'[p].last = n.last /\ nbr'[p].master = n.master
        /\ nbr'[p].req = a.req /\ nbr'[p].summary = n.summary
        /\ nbr'[p].state = n.state \/ nbr'[p].state \in {"LOADING", "FULL"}
        /\ n.master /\ nbr'[p].seq = n.seq + 1
    BY <1>9, <2>1, <2>2, <2>3 DEF SameRole, SameLists
  <2>8. QED
    BY <1>10, <2>4, <2>5, <2>6, <2>7
<1>12. CASE ReceiveDDAsSlave(p)
  <2> DEFINE i == [a EXCEPT !.seq = dd.seq]
             m == ExchangeDone(i, p)
             own == {RouterLsa(p)}
  <2>1. /\ ~i.master
        /\ \/ /\ dd.more /\ nbr'[p] = i /\ Schedule(p, <<SendDDCall(FALSE)>>) /\ lsdb' = lsdb
           \/ /\ ~dd.more /\ nbr'[p] = AddRxmtList(m, own)
              /\ Schedule(p, <<SendDDCall(FALSE)>> \o EventCalls(i, m))
              /\ lsdb' = [lsdb EXCEPT ![p] =
                            Reoriginate(Reoriginate(lsdb[p], OriginatedBy(i, m, p)), own)]
    BY <1>5, <1>12 DEF ReceiveDDAsSlave, dd, n, a
  <2>2. /\ i \in Neighbor /\ i.state = n.state /\ i.seq = dd.seq
        /\ i.master = n.master /\ i.last = n.last /\ SameLists(a, i)
    BY <1>6, <1>9 DEF SameControl, SameRole, SameLists, Neighbor
  <2> HIDE DEF i
  <2>3. /\ SameRole(i, m) /\ SameLists(i, m) /\ m \in Neighbor
        /\ m.state = i.state \/ m.state \in {"LOADING", "FULL"}
        /\ i.state = "EXCHANGE" => m.state \in {"LOADING", "FULL"}
        /\ i.state = "EXCHANGE" /\ m.state = "FULL" => i.req = NoHeaders
    <3>1. m \in Neighbor
      BY <1>4, <2>2, NeighborTypes
    <3>2. \/ m.state \in {"LOADING", "FULL"} /\ SameRole(i, m)
          \/ m = i /\ i.state # "EXCHANGE"
      BY <2>2, ControlEvents
    <3>3. SameLists(i, m) /\ (i.state # "FULL" /\ m.state = "FULL" => i.req = NoHeaders)
      BY <2>2, ListEvents
    <3>4. QED
      BY <3>1, <3>2, <3>3 DEF SameRole
  <2> HIDE DEF m
  <2>4. \A k \in Lsas \ OwnLsas(p) : lsdb'[p][k] = lsdb[p][k]
    <3>1. own \subseteq OwnLsas(p) /\ OriginatedBy(i, m, p) \subseteq OwnLsas(p)
      BY <1>8, HeadersTypes
    <3>2. lsdb' \in {lsdb, [lsdb EXCEPT ![p] =
                              Reoriginate(Reoriginate(lsdb[p], OriginatedBy(i, m, p)), own)]}
      BY <2>1
    <3>3. QED
      BY <1>7, <3>1, <3>2
  <2>5. /\ OneDD(due'[p]) /\ ~InitialDue(p)' /\ NextDue(p)'
        /\ SameRole(i, nbr'[p]) /\ SameLists(i, nbr'[p])
        /\ nbr'[p].state = i.state \/ nbr'[p].state \in {"LOADING", "FULL"}
        /\ i.state = "EXCHANGE" => (nbr'[p].state = "EXCHANGE" <=> dd.more)
        /\ i.state = "EXCHANGE" /\ nbr'[p].state = "FULL" => i.req = NoHeaders
    <3>1. CASE dd.more /\ nbr'[p] = i /\ Schedule(p, <<SendDDCall(FALSE)>>)
      BY <1>3, <3>1, ScheduledDue DEF SameRole, SameLists
    <3>2. CASE /\ ~dd.more /\ nbr'[p] = AddRxmtList(m, own)
               /\ Schedule(p, <<SendDDCall(FALSE)>> \o EventCalls(i, m))
      <4>1. ~Restarts(i, m)
        BY <2>3 DEF Restarts
      <4>2. SameControl(m, nbr'[p]) /\ SameLists(m, nbr'[p])
        BY <2>3, <3>2, ControlEvents, ListEvents
      <4>3. OneDD(due'[p]) /\ ~InitialDue(p)' /\ NextDue(p)'
        BY <1>3, <3>2, <4>1, ScheduledDue
      <4>4. QED
        BY <2>3, <3>2, <4>2, <4>3 DEF SameControl, SameRole, SameLists
    <3>3. QED
      BY <2>1, <3>1, <3>2
  <2>6. QED
    BY <1>9, <1>10, <2>1, <2>2, <2>4, <2>5 DEF SameRole, SameLists
<1>13. QED
  BY <1>11, <1>12

\* What handling a packet does to the exchange.
LEMMA ReceiveExchange ==
  ASSUME TypeOK, NEW p \in Router, Receive(p)
  PROVE  ExchangeStep(p)
<1> DEFINE dd == Head(chan[p])
           n == NoteDD(p, dd)
           k == Known(p)
<1>1. chan[p] # <<>> /\ Consume(p) /\ Idle(p)
  BY DEF Receive, Arrives, ReceiveHelloPacket, ReceiveDDIgnored, ReceiveDDNegotiate,
         ReceiveDDMismatch, ReceiveDDAsMaster, ReceiveDDAsSlave,
         ReceiveLinkStateRequestPacket, ReceiveLinkStateUpdatePacket,
         ReceiveLinkStateAckPacket
<1>2. dd \in Message /\ NoNewDDs(p) /\ chan'[p] = Tail(chan[p])
  BY <1>1, ChannelSteps, HeadPacket DEF NoNewDDs
<1>3. due[p] = <<>> /\ hand[p] = NoHeaders /\ OneDD(due[p]) /\ NoneDue(p)
  BY <1>1, DueSteps DEF Idle
<1>4. /\ nbr[p] \in Neighbor /\ lsdb[p] \in Headers
      /\ k \in Neighbor /\ SameControl(nbr[p], k) /\ k.summary = nbr[p].summary
  BY NoteDDTypes DEF TypeOK, Known, SameControl, SameRole, Neighbor
<1>5. \A m : SetNbr(p, m) => nbr'[p] = m
  BY DEF SetNbr, TypeOK
<1>6. ASSUME dd.type = "DD"
      PROVE  /\ n \in Neighbor /\ n.last.has = TRUE
             /\ n.last.init = dd.init /\ n.last.more = dd.more
             /\ n.state = nbr[p].state /\ n.seq = nbr[p].seq /\ n.master = nbr[p].master
             /\ n.req = nbr[p].req /\ n.summary = nbr[p].summary
             /\ dd.seq \in Nat /\ dd.init \in BOOLEAN /\ dd.master \in BOOLEAN
             /\ dd.more \in BOOLEAN /\ dd.headers \in Headers /\ Wanted(p, dd.headers) \in Headers
  <2>1. n \in Neighbor /\ Wanted(p, dd.headers) \in Headers
    BY <1>2, <1>6, NoteDDTypes
  <2>2. /\ dd.seq \in Nat /\ dd.init \in BOOLEAN /\ dd.master \in BOOLEAN
        /\ dd.more \in BOOLEAN /\ dd.headers \in Headers
    BY <1>2, <1>6, MessageTypes
  <2> HIDE DEF dd
  <2>3. /\ n.last.has = TRUE /\ n.last.init = dd.init /\ n.last.more = dd.more
        /\ n.state = k.state /\ n.seq = k.seq /\ n.master = k.master
        /\ n.req = k.req /\ n.summary = k.summary /\ k.req = nbr[p].req
    BY <1>4 DEF NoteDD, Known, Neighbor, n, k
  <2>4. QED
    BY <1>4, <2>1, <2>2, <2>3 DEF SameControl, SameRole
<1>7. hand' = hand => (TidyCalls(p)' <=> OneDD(due'[p]))
  BY <1>3 DEF TidyCalls
<1> HIDE DEF dd, n, k
<1>7a. ASSUME SameControl(k, nbr'[p]), nbr'[p].summary = k.summary, hand' = hand, OneDD(due'[p]), NoneDue(p)'
       PROVE  ExchangeStep(p)
  <2>1. SameControl(nbr[p], nbr'[p])
    BY <1>4, <1>7a DEF SameControl, SameRole
  <2>2. SameDue(p)
    BY <1>3, <1>7a DEF SameDue, NoneDue
  <2>3. CalmStep(p)
    BY <1>2, <1>4, <1>7a, <2>1, <2>2 DEF CalmStep, SameControl, SameRole
  <2>4. QED
    BY <1>7, <1>7a, <2>3 DEF ExchangeStep
<1>8. CASE ReceiveHelloPacket(p)
  <2> DEFINE m == TwoWayReceived(HelloReceived(k))
  <2>1. /\ nbr'[p] = m /\ hand' = hand
        /\ Schedule(p, Append(EventCalls(nbr[p], m), EntryPointCall))
    BY <1>5, <1>8 DEF ReceiveHelloPacket, k
  <2>2. /\ k.state = "DOWN" => StartsExchange(k, m)
        /\ k.state # "DOWN" => m = k
    BY <1>4, ControlEvents
  <2> HIDE DEF m
  <2>3. /\ OneDD(due'[p]) /\ ~NextDue(p)'
        /\ InitialDue(p)' <=> Restarts(nbr[p], m)
    BY <1>3, <2>1, ScheduledDue
  <2>4. CASE k.state = "DOWN"
    <3>1. Restarts(nbr[p], m)
      BY <1>4, <2>2, <2>4 DEF Restarts, StartsExchange, SameControl
    <3>2. RestartStep(p)
      BY <1>2, <1>3, <1>4, <2>1, <2>2, <2>3, <2>4, <3>1
      DEF RestartStep, StartsExchange, SameControl, SameRole
    <3>3. QED
      BY <1>7, <2>1, <2>3, <3>2 DEF ExchangeStep
  <2>5. CASE k.state # "DOWN"
    <3>1. ~Restarts(nbr[p], m)
      BY <1>4, <2>2, <2>5 DEF Restarts, SameControl
    <3>2. SameControl(k, m) /\ m.summary = k.summary /\ NoneDue(p)'
      BY <2>2, <2>3, <2>5, <3>1 DEF SameControl, SameRole, NoneDue
    <3>3. QED
      BY <1>7a, <2>1, <2>3, <3>2
  <2>6. QED
    BY <2>4, <2>5
<1>9. CASE ReceiveLinkStateRequestPacket(p)
  <2>1. PICK m, ks :
          /\ \/ m = k
             \/ m = RestartExchange(k) /\ ~(dd.ids \subseteq Listed(lsdb[p]))
          /\ SetNbr(p, m) /\ hand' = hand
          /\ \/ m.state \in Synchronizing /\ Schedule(p, <<SendLSUCall(Pick(lsdb[p], ks))>>)
             \/ m.state \notin Synchronizing /\ Schedule(p, EventCalls(k, m))
    BY <1>9, Zenon DEF ReceiveLinkStateRequestPacket, k, dd
  <2>2. Pick(lsdb[p], ks) \in Headers /\ nbr'[p] = m
    BY <1>4, <1>5, <2>1, HeadersTypes
  <2>3. \/ SameControl(k, m) /\ m.summary = k.summary
        \/ StartsExchange(k, m) /\ k.state \in Synchronizing /\ Surprised(p)
    <3>1. SameControl(k, k)
      BY DEF SameControl, SameRole
    <3>2. \/ RestartExchange(k) = k
          \/ StartsExchange(k, RestartExchange(k)) /\ k.state \in Synchronizing
      BY <1>4, ControlEvents
    <3>4. ~(dd.ids \subseteq Listed(lsdb[p])) => Surprised(p)
      BY <1>9 DEF ReceiveLinkStateRequestPacket, Surprised, dd
    <3>3. QED
      BY <2>1, <3>1, <3>2, <3>4
  <2>4. CASE m.state \in Synchronizing
    <3>1. SameControl(k, m) /\ m.summary = k.summary
      BY <2>3, <2>4 DEF StartsExchange, Synchronizing
    <3>2. OneDD(due'[p]) /\ NoneDue(p)'
      BY <1>3, <2>1, <2>2, <2>4, ScheduledDue
    <3>3. QED
      BY <1>7a, <2>1, <2>2, <3>1, <3>2
  <2>5. CASE m.state \notin Synchronizing
    <3>1. /\ OneDD(due'[p]) /\ ~NextDue(p)'
          /\ InitialDue(p)' <=> Restarts(k, m)
      BY <1>3, <2>1, <2>5, ScheduledDue
    <3>2. CASE SameControl(k, m) /\ m.summary = k.summary
      <4>1. ~Restarts(k, m)
        BY <3>2 DEF Restarts, SameControl
      <4>2. NoneDue(p)'
        BY <3>1, <4>1 DEF NoneDue
      <4>3. QED
        BY <1>7a, <2>1, <2>2, <3>1, <3>2, <4>2
    <3>3. CASE StartsExchange(k, m) /\ k.state \in Synchronizing /\ Surprised(p)
      <4>1. Restarts(k, m)
        BY <3>3 DEF Restarts, StartsExchange, Synchronizing
      <4>2. RestartStep(p)
        BY <1>2, <1>3, <1>4, <2>2, <3>1, <3>3, <4>1
        DEF RestartStep, StartsExchange, SameControl, SameRole
      <4>3. QED
        BY <1>7, <2>1, <3>1, <4>2 DEF ExchangeStep
    <3>4. QED
      BY <2>3, <3>2, <3>3
  <2>6. QED
    BY <2>4, <2>5
<1>10. CASE ReceiveLinkStateUpdatePacket(p) \/ ReceiveLinkStateAckPacket(p)
  <2>1. /\ due' = due
        /\ SetNbr(p, k) \/ \E ks : SetNbr(p, RemoveFromRxmtList(k, ks))
    BY <1>10, Zenon DEF ReceiveLinkStateUpdatePacket, ReceiveLinkStateAckPacket, k
  <2>2. SameControl(k, nbr'[p]) /\ nbr'[p].summary = k.summary
    BY <1>4, <1>5, <2>1, ControlEvents, ListEvents DEF SameControl, SameRole, SameLists
  <2>3. due'[p] = <<>> /\ SameDue(p)
    BY <1>3, <2>1, DueSteps
  <2>4. TidyCalls(p)'
    BY <1>3, <2>3 DEF TidyCalls
  <2>5. CalmStep(p)
    BY <1>2, <1>4, <2>2, <2>3 DEF CalmStep, SameControl, SameRole
  <2>6. QED
    BY <2>4, <2>5 DEF ExchangeStep
<1>11. CASE ReceiveDDIgnored(p)
  <2>1. dd.type = "DD" /\ nbr'[p] = n /\ due' = due /\ hand' = hand
    BY <1>5, <1>11 DEF ReceiveDDIgnored, Arrives, dd, n
  <2>2. due'[p] = <<>> /\ SameDue(p)
    BY <1>3, <2>1, DueSteps
  <2>3. CalmStep(p)
    BY <1>2, <1>6, <2>1, <2>2 DEF CalmStep
  <2>4. QED
    BY <1>3, <1>7, <2>1, <2>2, <2>3 DEF ExchangeStep
<1>12. CASE ReceiveDDMismatch(p)
  <2> DEFINE m == RestartExchange(n)
  <2>1. /\ dd.type = "DD" /\ nbr'[p] = m /\ Schedule(p, EventCalls(n, m)) /\ hand' = hand
        /\ n.state = "EXCHANGE" /\ Surprised(p)
    BY <1>5, <1>12 DEF ReceiveDDMismatch, Arrives, Mismatch, Surprised, dd, n
  <2>2. StartsExchange(n, m)
    BY <1>6, <2>1, ControlEvents DEF Synchronizing
  <2> HIDE DEF m
  <2>3. Restarts(n, m)
    BY <2>1, <2>2 DEF Restarts, StartsExchange
  <2>4. OneDD(due'[p]) /\ ~NextDue(p)' /\ InitialDue(p)'
    BY <1>3, <2>1, <2>3, ScheduledDue
  <2>5. RestartStep(p)
    BY <1>2, <1>3, <1>6, <2>1, <2>2, <2>4 DEF RestartStep, StartsExchange, Synchronizing
  <2>6. QED
    BY <1>7, <2>1, <2>4, <2>5 DEF ExchangeStep
<1>13. ASSUME dd.type = "DD", ~Fragmented(p), nbr'[p].last.has, ~InitialDue(p)'
       PROVE  Takes(p, Head(chan[p]))
  BY <1>1, <1>2, <1>3, <1>13 DEF Takes, dd
<1>14. CASE ReceiveDDNegotiate(p)
  <2>1. /\ dd.type = "DD" /\ ~Fragmented(p) /\ Schedule(p, <<SendDDCall(FALSE)>>) /\ hand' = hand
    BY <1>14 DEF ReceiveDDNegotiate, Arrives, dd
  <2>2. OneDD(due'[p]) /\ NextDue(p)' /\ ~InitialDue(p)'
    BY <1>3, <2>1, ScheduledDue
  <2> DEFINE s == [n EXCEPT !.master = FALSE, !.seq = dd.seq]
             t == [n EXCEPT !.master = TRUE]
  <2>3. \/ AsSlave(p, n, dd) /\ nbr'[p] = NegotDone(s, p)
        \/ AsMaster(p, n, dd) /\ nbr'[p] = IncrementSequenceNumber(NegotDone(t, p))
    BY <1>5, <1>14 DEF ReceiveDDNegotiate, dd, n
  <2>4. s \in Neighbor /\ s.state = n.state /\ s.master = FALSE /\ s.seq = dd.seq
        /\ s.last = n.last
    <3>1. [n EXCEPT !.seq = dd.seq] \in Neighbor
      BY <1>6, <2>1 DEF Neighbor
    <3>2. QED
      BY <1>6, <2>1, <3>1 DEF Neighbor
  <2>5. t \in Neighbor /\ t.state = n.state /\ t.master = TRUE /\ t.seq = n.seq
        /\ t.last = n.last
    BY <1>6, <2>1 DEF Neighbor
  <2> HIDE DEF s, t
  <2>6. CASE AsSlave(p, n, dd) /\ nbr'[p] = NegotDone(s, p)
    <3>1. n.state = "EXSTART" /\ dd.init /\ dd.more /\ p < Peer(p)
      BY <2>6 DEF AsSlave
    <3>2. /\ nbr'[p].state = "EXCHANGE" /\ SameRole(s, nbr'[p])
          /\ nbr'[p].summary = Pick(lsdb[p], Describable)
      BY <2>4, <2>6, <3>1, ControlEvents, ListEvents
    <3>3. NegotiateStep(p)
      BY <1>6, <1>13, <2>1, <2>2, <2>4, <3>1, <3>2 DEF NegotiateStep, SameRole, dd
    <3>4. QED
      BY <1>7, <2>1, <2>2, <3>3 DEF ExchangeStep
  <2>7. CASE AsMaster(p, n, dd) /\ nbr'[p] = IncrementSequenceNumber(NegotDone(t, p))
    <3>1. n.state = "EXSTART" /\ ~dd.init /\ ~dd.master /\ dd.seq = n.seq /\ p > Peer(p)
      BY <2>7 DEF AsMaster
    <3>2. /\ NegotDone(t, p).state = "EXCHANGE" /\ SameRole(t, NegotDone(t, p))
          /\ NegotDone(t, p) \in Neighbor
          /\ NegotDone(t, p).summary = Pick(lsdb[p], Describable)
      <4>1. NegotDone(t, p).state = "EXCHANGE" /\ SameRole(t, NegotDone(t, p))
        BY <2>5, <3>1, ControlEvents
      <4>2. NegotDone(t, p) \in Neighbor
        BY <1>4, <2>5, NeighborTypes
      <4>3. NegotDone(t, p).summary = Pick(lsdb[p], Describable)
        BY <2>5, <3>1, ListEvents
      <4>4. QED
        BY <4>1, <4>2, <4>3
    <3>3. /\ nbr'[p].summary = NegotDone(t, p).summary
          /\ nbr'[p].state = "EXCHANGE" /\ nbr'[p].seq = NegotDone(t, p).seq + 1
          /\ nbr'[p].master = NegotDone(t, p).master /\ nbr'[p].last = NegotDone(t, p).last
      BY <2>7, <3>2, ControlEvents, ListEvents DEF SameLists
    <3>4. NegotiateStep(p)
      BY <1>6, <1>13, <2>1, <2>2, <2>5, <3>1, <3>2, <3>3 DEF NegotiateStep, SameRole, dd
    <3>5. QED
      BY <1>7, <2>1, <2>2, <3>4 DEF ExchangeStep
  <2>8. QED
    BY <2>3, <2>6, <2>7
<1>15. CASE ReceiveDDAsMaster(p) \/ ReceiveDDAsSlave(p)
  BY <1>15, AcceptExchange DEF ExchangeStep
<1>16. QED
  BY <1>8, <1>9, <1>10, <1>11, <1>12, <1>14, <1>15 DEF Receive

\* A step that leaves the neighbour record's control part and the descriptions alone.
LEMMA CalmIfSame ==
  ASSUME NEW p \in Router, TidyCalls(p)', SameControl(nbr[p], nbr'[p]),
         nbr'[p].summary = nbr[p].summary, SameDue(p), NoNewDDs(p)
  PROVE  ExchangeStep(p)
BY DEF ExchangeStep, CalmStep, SameControl, SameRole

\* What the calls made by ScheduleNow do to the exchange.
LEMMA RunDueExchange ==
  ASSUME TypeOK, NEW p \in Router, TidyCalls(p), RunDue(p)
  PROVE  ExchangeStep(p)
<1>1. due[p] # <<>> /\ due' = [due EXCEPT ![p] = Tail(@)] /\ hand' = hand
  BY DEF RunDue, SendInitialDD, SendDD, SendLSR, SendLSUDirect, EntryPoint
<1>2. /\ OneDD(due'[p]) /\ NoneDue(p)'
      /\ Head(due[p]).call # "SendDD" => NoneDue(p)
      /\ Head(due[p]) \in Elements(due[p])
  BY <1>1, DueSteps DEF TidyCalls
<1>3. TidyCalls(p)'
  BY <1>1, <1>2 DEF TidyCalls
<1>4. nbr[p] \in Neighbor /\ lsdb[p] \in Headers
  BY DEF TypeOK
<1>5. ASSUME Head(due[p]).call # "SendDD", nbr' = nbr,
             chan' = chan \/ \E m \in Message : m.type # "DD" /\ Send(p, m)
      PROVE  ExchangeStep(p)
  <2>1. SameDue(p)
    BY <1>2, <1>5 DEF SameDue, NoneDue
  <2>2. NoNewDDs(p)
    BY <1>5, ChannelSteps DEF NoNewDDs, NoNewDD, NoMore, Descriptions
  <2>3. SameControl(nbr[p], nbr'[p]) /\ nbr'[p].summary = nbr[p].summary
    BY <1>5 DEF SameControl, SameRole
  <2>4. QED
    BY <1>3, <2>1, <2>2, <2>3, CalmIfSame
<1>6. CASE SendInitialDD(p)
  <2> DEFINE m == [type |-> "DD", init |-> TRUE, more |-> TRUE, master |-> TRUE,
                   seq |-> nbr[p].seq, headers |-> NoHeaders]
  <2>1. m \in Message
    BY <1>4, HeadersTypes, MessageTypes DEF Neighbor
  <2>2. m.type = "DD" /\ m.init /\ m.seq = nbr[p].seq
    OBVIOUS
  <2>3. Send(p, m) /\ nbr' = nbr /\ Head(due[p]) = SendDDCall(TRUE)
    BY <1>6 DEF SendInitialDD
  <2> HIDE DEF m
  <2>4. NoNewDD(p) /\ chan'[Peer(p)] = Append(chan[Peer(p)], m)
    BY <2>1, <2>3, ChannelSteps
  <2>5. SendInitialStep(p)
    BY <1>2, <2>1, <2>2, <2>3, <2>4 DEF SendInitialStep, SameControl, SameRole, InitialDue
  <2>6. QED
    BY <1>3, <2>5 DEF ExchangeStep
<1>7. CASE SendDD(p)
  <2>1. PICK ks \in NextSummary(nbr[p]), shared \in BOOLEAN :
          /\ SetNbr(p, [nbr[p] EXCEPT !.summary = Pick(@, Lsas \ ks)])
          /\ Send(p, [type |-> "DD", init |-> FALSE,
                      more |-> IF nbr[p].master THEN nbr[p].summary # NoHeaders
                                                ELSE nbr[p].last.more,
                      master |-> nbr[p].master, seq |-> nbr[p].seq,
                      headers |-> Described(p, ks, shared)])
    BY <1>7 DEF SendDD
  <2> DEFINE more == IF nbr[p].master THEN nbr[p].summary # NoHeaders ELSE nbr[p].last.more
             m == [type |-> "DD", init |-> FALSE, more |-> more,
                   master |-> nbr[p].master, seq |-> nbr[p].seq,
                   headers |-> Described(p, ks, shared)]
  <2>2. more \in BOOLEAN /\ nbr[p].master \in BOOLEAN /\ nbr[p].seq \in Nat
    BY <1>4 DEF Neighbor, LastDD
  <2>3. Described(p, ks, shared) \in Headers
    BY <1>4 DEF Described, Neighbor, Headers
  <2>4. m.type = "DD" /\ ~m.init /\ m.seq = nbr[p].seq /\ m.master = nbr[p].master
    OBVIOUS
  <2>5. Send(p, m)
    BY <2>1
  <2> HIDE DEF more
  <2>6. m \in Message
    BY <2>2, <2>3, MessageTypes
  <2>7. Head(due[p]) = SendDDCall(FALSE)
    BY <1>7 DEF SendDD
  <2>8. SameControl(nbr[p], nbr'[p]) /\ nbr'[p].summary = Pick(nbr[p].summary, Lsas \ ks)
    BY <1>4, <2>1 DEF SetNbr, TypeOK, SameControl, SameRole, Neighbor
  <2>12. Says(p, m)
    <3>1. m.more <=> IF nbr[p].master THEN nbr[p].summary # NoHeaders ELSE nbr[p].last.more
      BY DEF more
    <3>2. nbr[p].last.init => m.headers = NoHeaders
      BY <2>1 DEF NextSummary, Described, NoHeaders
    <3>3. Listed(nbr'[p].summary) \subseteq Listed(nbr[p].summary)
      BY <2>8 DEF Listed, Pick
    <3>4. \A k \in Listed(nbr[p].summary) :
            k \in Listed(nbr'[p].summary) \/ m.headers[k] \in {nbr[p].summary[k], lsdb[p][k]}
      BY <2>8 DEF Listed, Pick, Described
    <3>5. QED
      BY <3>1, <3>2, <3>3, <3>4 DEF Says
  <2> HIDE DEF m
  <2>9. NoNewDD(p) /\ chan'[Peer(p)] = Append(chan[Peer(p)], m)
    BY <2>5, <2>6, ChannelSteps
  <2>10. SendNextStep(p)
    BY <1>2, <2>4, <2>6, <2>7, <2>8, <2>9, <2>12 DEF SendNextStep, NextDue
  <2>11. QED
    BY <1>3, <2>10 DEF ExchangeStep
<1>8. CASE SendLSR(p)
  <2> DEFINE m == [type |-> "LSR", ids |-> Listed(nbr[p].req)]
  <2>1. m \in Message
    BY <1>4, HeadersTypes, MessageTypes DEF Neighbor
  <2>2. /\ (chan' = chan \/ Send(p, m)) /\ nbr' = nbr /\ m.type # "DD"
        /\ Head(due[p]) = SendLSRCall
    BY <1>8 DEF SendLSR
  <2> HIDE DEF m
  <2>3. QED
    BY <1>5, <2>1, <2>2, DDCalls
<1>9. CASE SendLSUDirect(p)
  <2> DEFINE m == [type |-> "LSU", headers |-> Current(p, Head(due[p]).headers)]
  <2>1. Head(due[p]).call = "SendLSU" /\ Head(due[p]) \in DueCall
    BY <1>1, <1>9, HeadCall DEF SendLSUDirect
  <2>2. Head(due[p]).headers \in Headers
    BY <2>1, DueCallTypes
  <2>3. Current(p, Head(due[p]).headers) \in Headers
    BY <1>4, <2>2 DEF Current, Headers
  <2>4. m \in Message /\ m.type # "DD"
    BY <2>3, MessageTypes
  <2>5. Send(p, m) /\ nbr' = nbr
    BY <1>9 DEF SendLSUDirect
  <2> HIDE DEF m
  <2>6. QED
    BY <1>5, <2>1, <2>4, <2>5
<1>10. CASE EntryPoint(p)
  <2> DEFINE m == [type |-> "LSU", headers |-> Pick(lsdb[p], nbr[p].rxmt)]
  <2>1. m \in Message /\ m.type # "DD"
    BY <1>4, HeadersTypes, MessageTypes
  <2>2. (chan' = chan \/ Send(p, m)) /\ nbr' = nbr /\ Head(due[p]) = EntryPointCall
    BY <1>10 DEF EntryPoint, SendRxmtList
  <2> HIDE DEF m
  <2>3. QED
    BY <1>5, <2>1, <2>2, DDCalls
<1>11. QED
  BY <1>6, <1>7, <1>8, <1>9, <1>10 DEF RunDue

\* What handling one LSA of an update does to the exchange.
LEMMA HandleLSAExchange ==
  ASSUME TypeOK, NEW p \in Router, TidyCalls(p), HandleLSA(p)
  PROVE  ExchangeStep(p)
<1>1. nbr[p] \in Neighbor /\ lsdb[p] \in Headers /\ hand[p] \in Headers
  BY DEF TypeOK
<1>2. PICK k \in Listed(hand[p]) :
        \/ InstallLSA(p, k) \/ DropEarlyLSA(p, k) \/ BadLSRequest(p, k)
        \/ AnswerOldLSA(p, k) \/ SameLSA(p, k)
  BY DEF HandleLSA
<1>3. k \in Lsas /\ hand[p][k] \in Nat /\ hand[p] # NoHeaders
  BY <1>1 DEF Listed, Headers, NoHeaders
<1>4. due[p] = <<>> /\ OneDD(due[p]) /\ NoneDue(p)
  BY <1>3, DueSteps DEF TidyCalls
<1>5. due' = due => TidyCalls(p)' /\ SameDue(p)
  BY <1>4, DueSteps DEF TidyCalls
<1>6. \A m : SetNbr(p, m) => nbr'[p] = m
  BY DEF SetNbr, TypeOK
<1>7. /\ chan' = chan => NoNewDDs(p)
      /\ \A m \in Message : m.type # "DD" /\ Send(p, m) => NoNewDDs(p)
  BY ChannelSteps DEF NoNewDDs, NoNewDD, NoMore, Descriptions
<1>8. CASE InstallLSA(p, k)
  <2> DEFINE v == hand[p][k]
             m == AnswerRequest(nbr[p], p, k, v)
             a == FloodPacket(k, v)
             b == FloodPacket(k, v + 1)
  <2>1. /\ due' = due /\ SetNbr(p, RemoveFromRxmtList(m, {k}))
        /\ chan' = [chan EXCEPT ![Peer(p)] =
                      @ \o <<a>> \o (IF k \in OwnLsas(p) THEN <<b>> ELSE <<>>)]
    BY <1>8 DEF InstallLSA
  <2>2. /\ a \in Message /\ a.type # "DD"
        /\ b \in Message /\ b.type # "DD"
    BY <1>3, HeadersTypes, MessageTypes DEF FloodPacket
  <2>3. NoNewDDs(p)
    <3> HIDE DEF a, b
    <3>1. CASE k \in OwnLsas(p)
      <4>1. chan' = [chan EXCEPT ![Peer(p)] = @ \o <<a>> \o <<b>>]
        BY <2>1, <3>1
      <4>2. QED
        BY <2>2, <4>1, ChannelSteps DEF NoNewDDs
    <3>2. CASE k \notin OwnLsas(p)
      <4>1. chan' = [chan EXCEPT ![Peer(p)] = @ \o <<a>> \o <<>>]
        BY <2>1, <3>2
      <4>2. QED
        BY <2>2, <4>1, ChannelSteps DEF NoNewDDs
    <3>3. QED
      BY <3>1, <3>2
  <2>4. m \in Neighbor /\ SameRole(nbr[p], m)
        /\ (m.state = nbr[p].state \/ (nbr[p].state = "LOADING" /\ m.state = "FULL"))
        /\ m.summary = nbr[p].summary
    <3>1. m \in Neighbor
      BY <1>1, <1>3, NoteDDTypes
    <3>2. /\ SameRole(nbr[p], m)
          /\ (m.state = nbr[p].state \/ (nbr[p].state = "LOADING" /\ m.state = "FULL"))
      BY <1>1, <1>3, ControlEvents
    <3>3. m.summary = nbr[p].summary
      BY <1>1, <1>3, ListEvents
    <3>4. QED
      BY <3>1, <3>2, <3>3
  <2> HIDE DEF m
  <2>5. SameControl(m, nbr'[p]) /\ SameLists(m, nbr'[p])
    BY <1>6, <2>1, <2>4, ControlEvents, ListEvents
  <2>6. CalmStep(p)
    BY <1>5, <2>1, <2>3, <2>4, <2>5 DEF CalmStep, SameControl, SameRole, SameLists
  <2>7. QED
    BY <1>5, <2>1, <2>6 DEF ExchangeStep
<1>9. CASE BadLSRequest(p, k)
  <2> DEFINE m == RestartExchange(nbr[p])
  <2>1. /\ Schedule(p, EventCalls(nbr[p], m)) /\ nbr'[p] = m /\ chan' = chan
        /\ hand' = [hand EXCEPT ![p] = NoHeaders] /\ Surprised(p)
    BY <1>2, <1>6, <1>9 DEF BadLSRequest, Surprised
  <2>2. \/ StartsExchange(nbr[p], m) /\ nbr[p].state \in Synchronizing
        \/ m = nbr[p]
    BY <1>1, ControlEvents
  <2> HIDE DEF m
  <2>3. /\ OneDD(due'[p]) /\ ~NextDue(p)'
        /\ InitialDue(p)' <=> Restarts(nbr[p], m)
    BY <1>4, <2>1, ScheduledDue
  <2>4. hand'[p] = NoHeaders /\ TidyCalls(p)'
    BY <2>1, <2>3 DEF TypeOK, TidyCalls
  <2>5. CASE StartsExchange(nbr[p], m) /\ nbr[p].state \in Synchronizing
    <3>1. Restarts(nbr[p], m)
      BY <2>5 DEF Restarts, StartsExchange, Synchronizing
    <3>2. RestartStep(p)
      BY <1>4, <1>7, <2>1, <2>3, <2>5, <3>1 DEF RestartStep, StartsExchange
    <3>3. QED
      BY <2>4, <3>2 DEF ExchangeStep
  <2>6. CASE m = nbr[p]
    <3>1. ~Restarts(nbr[p], m)
      BY <2>6 DEF Restarts
    <3>2. SameDue(p)
      BY <1>4, <2>3, <3>1 DEF SameDue, NoneDue
    <3>3. SameControl(nbr[p], nbr'[p]) /\ nbr'[p].summary = nbr[p].summary
      BY <2>1, <2>6 DEF SameControl, SameRole
    <3>4. QED
      BY <1>7, <2>1, <2>4, <3>2, <3>3, CalmIfSame
  <2>7. QED
    BY <2>2, <2>5, <2>6
<1>10. CASE DropEarlyLSA(p, k) \/ AnswerOldLSA(p, k) \/ SameLSA(p, k)
  <2> DEFINE m == [type |-> "Ack", headers |-> Pick(lsdb[p], {k})]
  <2>1. /\ due' = due /\ (chan' = chan \/ Send(p, m))
        /\ \/ nbr' = nbr
           \/ SetNbr(p, nbr[p])
           \/ SetNbr(p, AddRxmtList(nbr[p], {k}))
           \/ SetNbr(p, RemoveFromRxmtList(nbr[p], {k}))
    BY <1>10 DEF DropEarlyLSA, AnswerOldLSA, SameLSA
  <2>2. m \in Message /\ m.type # "DD"
    BY <1>1, HeadersTypes, MessageTypes
  <2> HIDE DEF m
  <2>3. SameControl(nbr[p], nbr[p])
    BY DEF SameControl, SameRole
  <2>4. SameControl(nbr[p], nbr'[p]) /\ nbr'[p].summary = nbr[p].summary
    BY <1>1, <1>6, <2>1, <2>3, ControlEvents, ListEvents DEF SameLists
  <2>5. QED
    BY <1>5, <1>7, <2>1, <2>2, <2>4, CalmIfSame
<1>11. QED
  BY <1>2, <1>8, <1>9, <1>10

\* What the timers, the losses and the other links do to the exchange.
LEMMA OtherExchange ==
  ASSUME TypeOK, NEW p \in Router, TidyCalls(p),
         \/ SendHelloPacket(p) \/ LSRTimer(p) \/ ClearLastPacket(p) \/ EntryPointTimer(p)
         \/ InactivityTimer(p) \/ Lose(p) \/ ForeignUpdate(p) \/ OriginateElsewhere(p)
  PROVE  ExchangeStep(p)
<1>1. due' = due /\ hand' = hand
  BY DEF SendHelloPacket, LSRTimer, ClearLastPacket, EntryPointTimer, InactivityTimer, Lose,
         ForeignUpdate, OriginateElsewhere
<1>2. TidyCalls(p)' /\ SameDue(p)
  BY <1>1, DueSteps DEF TidyCalls
<1>3. nbr[p] \in Neighbor /\ lsdb[p] \in Headers
  BY DEF TypeOK
<1>4. /\ chan' = chan => NoNewDDs(p)
      /\ \A m \in Message : m.type # "DD" /\ Send(p, m) => NoNewDDs(p)
  BY ChannelSteps DEF NoNewDDs, NoNewDD, NoMore, Descriptions
<1>5. \A m : SetNbr(p, m) => nbr'[p] = m
  BY DEF SetNbr, TypeOK
<1>6. SameControl(nbr[p], nbr[p]) /\ (nbr' = nbr => nbr'[p].summary = nbr[p].summary)
  BY DEF SameControl, SameRole
<1>7. CASE SendHelloPacket(p) \/ LSRTimer(p) \/ EntryPointTimer(p)
  <2>1. /\ nbr' = nbr
        /\ \/ chan' = chan
           \/ \E b \in BOOLEAN : Send(p, [type |-> "Hello", seen |-> b])
           \/ Send(p, [type |-> "LSR", ids |-> Listed(nbr[p].req)])
           \/ Send(p, [type |-> "LSU", headers |-> Pick(lsdb[p], nbr[p].rxmt)])
    <3>1. (nbr[p].state \in Active) \in BOOLEAN
      OBVIOUS
    <3>2. QED
      BY <1>7, <3>1, Zenon DEF SendHelloPacket, LSRTimer, EntryPointTimer, SendRxmtList
  <2>2. \A b \in BOOLEAN : LET m == [type |-> "Hello", seen |-> b]
                           IN  m \in Message /\ m.type # "DD"
    BY MessageTypes
  <2>3. LET m == [type |-> "LSR", ids |-> Listed(nbr[p].req)]
        IN  m \in Message /\ m.type # "DD"
    BY <1>3, HeadersTypes, MessageTypes DEF Neighbor
  <2>4. LET m == [type |-> "LSU", headers |-> Pick(lsdb[p], nbr[p].rxmt)]
        IN  m \in Message /\ m.type # "DD"
    BY <1>3, HeadersTypes, MessageTypes
  <2>5. NoNewDDs(p)
    BY <1>4, <2>1, <2>2, <2>3, <2>4, Zenon
  <2>6. QED
    BY <1>2, <1>6, <2>1, <2>5, CalmIfSame
<1>8. CASE ClearLastPacket(p)
  <2>1. /\ due[p] = <<>> /\ chan' = chan
        /\ nbr'[p] = [nbr[p] EXCEPT !.last = NoDD]
    BY <1>5, <1>8 DEF ClearLastPacket, Idle
  <2>2. /\ nbr'[p].state = nbr[p].state /\ nbr'[p].seq = nbr[p].seq
        /\ nbr'[p].master = nbr[p].master /\ nbr'[p].summary = nbr[p].summary
    BY <1>3, <2>1 DEF Neighbor
  <2>3. CalmStep(p)
    BY <1>2, <1>4, <2>1, <2>2 DEF CalmStep
  <2>4. QED
    BY <1>2, <2>3 DEF ExchangeStep
<1>9. CASE InactivityTimer(p)
  <2>1. /\ due[p] = <<>> /\ chan' = chan /\ nbr'[p] = KillNbr(nbr[p])
        /\ faults'.inactive = faults.inactive + 1
    BY <1>5, <1>9 DEF InactivityTimer, Idle, TypeOK
  <2>2. nbr'[p].state = "DOWN" /\ SameRole(nbr[p], nbr'[p])
    BY <1>3, <2>1, ControlEvents
  <2>3. KillStep(p)
    BY <1>1, <1>4, <2>1, <2>2 DEF KillStep
  <2>4. QED
    BY <1>2, <2>3 DEF ExchangeStep
<1>10. CASE Lose(p)
  <2>1. nbr' = nbr /\ chan[p] # <<>> /\ Consume(p)
    BY <1>10 DEF Lose
  <2>2. NoNewDDs(p)
    BY <2>1, ChannelSteps DEF NoNewDDs
  <2>3. QED
    BY <1>2, <1>6, <2>1, <2>2, CalmIfSame
<1>11. CASE ForeignUpdate(p)
  <2>1. PICK k, v, m :
          /\ k \in Foreign /\ v \in 1..MaxForeign
          /\ m \in {nbr[p], AnswerRequest(nbr[p], p, k, v)}
          /\ SetNbr(p, RemoveFromRxmtList(m, {k}))
          /\ chan' = chan \/ Send(p, FloodPacket(k, v))
    BY <1>11 DEF ForeignUpdate
  <2>2. k \in Lsas /\ v \in Nat
    BY <2>1 DEF Lsas
  <2>3. FloodPacket(k, v) \in Message /\ FloodPacket(k, v).type # "DD"
    BY <2>2, HeadersTypes, MessageTypes DEF FloodPacket
  <2>4. m \in Neighbor /\ SameRole(nbr[p], m)
        /\ (m.state = nbr[p].state \/ (nbr[p].state = "LOADING" /\ m.state = "FULL"))
        /\ m.summary = nbr[p].summary
    <3>1. m = nbr[p] \/ m = AnswerRequest(nbr[p], p, k, v)
      BY <2>1
    <3>2. CASE m = nbr[p]
      BY <1>3, <3>2 DEF SameRole
    <3>3. CASE m = AnswerRequest(nbr[p], p, k, v)
      <4>1. m \in Neighbor
        BY <1>3, <2>2, <3>3, NoteDDTypes
      <4>2. /\ SameRole(nbr[p], m)
            /\ (m.state = nbr[p].state \/ (nbr[p].state = "LOADING" /\ m.state = "FULL"))
        BY <1>3, <2>2, <3>3, ControlEvents
      <4>3. m.summary = nbr[p].summary
        BY <1>3, <2>2, <3>3, ListEvents
      <4>4. QED
        BY <4>1, <4>2, <4>3
    <3>4. QED
      BY <3>1, <3>2, <3>3
  <2>5. SameControl(m, nbr'[p]) /\ SameLists(m, nbr'[p])
    BY <1>5, <2>1, <2>4, ControlEvents, ListEvents
  <2>6. NoNewDDs(p)
    BY <1>4, <2>1, <2>3
  <2>7. CalmStep(p)
    BY <1>2, <2>4, <2>5, <2>6 DEF CalmStep, SameControl, SameRole, SameLists
  <2>8. QED
    BY <1>2, <2>7 DEF ExchangeStep
<1>12. CASE OriginateElsewhere(p)
  <2>1. /\ chan' = chan
        /\ \/ SetNbr(p, nbr[p])
           \/ \E ks : SetNbr(p, AddRxmtList(nbr[p], ks))
    BY <1>12, Zenon DEF OriginateElsewhere
  <2>2. SameControl(nbr[p], nbr'[p]) /\ nbr'[p].summary = nbr[p].summary
    BY <1>3, <1>5, <1>6, <2>1, ControlEvents, ListEvents DEF SameLists
  <2>3. QED
    BY <1>2, <1>4, <2>1, <2>2, CalmIfSame
<1>13. QED
  BY <1>7, <1>8, <1>9, <1>10, <1>11, <1>12

\* Every step of a router is one of the steps of the exchange.
LEMMA ActorExchange ==
  ASSUME TypeOK, NEW p \in Router, TidyCalls(p), Acts(p)
  PROVE  ExchangeStep(p)
BY ReceiveExchange, RunDueExchange, HandleLSAExchange, OtherExchange DEF Acts

-----------------------------------------------------------------------------
(* The calls, the roles and the last packet                                 *)

\* The inductive invariant of one router: the description that waits to be sent is of
\* the state the router is in, and a synchronising router has the role of its id.
ControlInv(p) ==
  /\ TidyCalls(p)
  /\ InitialDue(p) => nbr[p].state = "EXSTART"
  /\ NextDue(p) => nbr[p].state \in Synchronizing /\ nbr[p].last.has
  /\ nbr[p].state \in Synchronizing => (nbr[p].master <=> p > Peer(p))

\* Every step of a router keeps its own invariant.
LEMMA ActorControl ==
  ASSUME TypeOK, NEW p \in Router, ControlInv(p), ExchangeStep(p)
  PROVE  ControlInv(p)'
<1> DEFINE q == Peer(p)
<1>1. p \in Nat /\ q \in Nat /\ q # p
  BY PeerProperties, RouterAssumption
<1>2. due[p] = <<>> => NoneDue(p)
  BY DueSteps
<1>3. TidyCalls(p)'
  BY DEF ExchangeStep
<1>4. CASE CalmStep(p)
  <2>1. InitialDue(p)' => InitialDue(p)
    BY <1>4 DEF CalmStep, SameDue
  <2>2. NextDue(p)' => NextDue(p) /\ due[p] # <<>>
    BY <1>2, <1>4 DEF CalmStep, SameDue, NoneDue
  <2>3. nbr'[p].state \in Synchronizing <=> nbr[p].state \in Synchronizing
    BY <1>4 DEF CalmStep, Synchronizing
  <2>4. nbr[p].state = "EXSTART" => nbr'[p].state = "EXSTART"
    BY <1>4 DEF CalmStep
  <2>5. /\ nbr'[p].last = nbr[p].last \/ due[p] = <<>>
        /\ nbr'[p].master = nbr[p].master
    BY <1>4 DEF CalmStep
  <2>6. QED
    BY <1>3, <2>1, <2>2, <2>3, <2>4, <2>5 DEF ControlInv
<1>5. CASE RestartStep(p)
  BY <1>3, <1>5 DEF RestartStep, ControlInv, Synchronizing
<1>6. CASE KillStep(p)
  <2>1. ~InitialDue(p)' /\ ~NextDue(p)'
    BY <1>6, ScheduledQueues DEF KillStep, InitialDue, NextDue
  <2>2. QED
    BY <1>3, <1>6, <2>1 DEF KillStep, ControlInv, Synchronizing
<1>7. CASE SendInitialStep(p) \/ SendNextStep(p)
  BY <1>3, <1>7 DEF SendInitialStep, SendNextStep, SameControl, SameRole, NoneDue, ControlInv
<1>8. CASE NegotiateStep(p)
  <2>1. /\ nbr'[p].state = "EXCHANGE" /\ ~InitialDue(p)' /\ nbr'[p].last.has
        /\ \/ p < q /\ nbr'[p].master = FALSE
           \/ p > q /\ nbr'[p].master = TRUE
    BY <1>8 DEF NegotiateStep, Takes
  <2>2. QED
    BY <1>1, <1>3, <2>1 DEF ControlInv, Synchronizing
<1>9. CASE AcceptStep(p)
  <2>1. /\ nbr[p].state \in Synchronizing /\ nbr'[p].state \in Synchronizing
        /\ ~InitialDue(p)' /\ nbr'[p].last.has /\ nbr'[p].master = nbr[p].master
    BY <1>9 DEF AcceptStep, Takes, Synchronizing
  <2>2. QED
    BY <1>3, <2>1 DEF ControlInv
<1>10. QED
  BY <1>4, <1>5, <1>6, <1>7, <1>8, <1>9 DEF ExchangeStep

\* What a step leaves alone keeps the invariant of a router.
LEMMA SameControlInv ==
  ASSUME NEW p \in Router, ControlInv(p),
         nbr'[p] = nbr[p], due'[p] = due[p], hand'[p] = hand[p]
  PROVE  ControlInv(p)'
BY DEF ControlInv, TidyCalls, InitialDue, NextDue

-----------------------------------------------------------------------------
(* Interfaces whose MTUs differ                                             *)

\* A router that drops every description never leaves EXSTART and sends no description
\* but the first; its neighbour goes no further than EXCHANGE.
Stuck(p) ==
  /\ nbr[p].state \in {"DOWN", "EXSTART"}
  /\ nbr[Peer(p)].state \in {"DOWN", "EXSTART", "EXCHANGE"}
  /\ \A a \in Descriptions(Peer(p)) : a.init
MtuInv(p) == Fragmented(p) => Stuck(p)

\* The types of the fields of a description.
LEMMA DescriptionTypes ==
  ASSUME TypeOK, NEW p \in Router
  PROVE  \A m \in Descriptions(p) : m \in Message /\ m.seq \in Nat /\ m.init \in BOOLEAN
<1>1. chan[p] \in Seq(Message)
  BY DEF TypeOK
<1>2. \A m \in Descriptions(p) : m \in Message /\ m.type = "DD"
  BY <1>1, QueueElements DEF Descriptions
<1>3. QED
  BY <1>2, MessageTypes

\* The descriptions on a channel after one more has been sent, or one been taken.
LEMMA DescriptionSteps ==
  ASSUME TypeOK, NEW p \in Router
  PROVE  /\ \A m \in Message :
              chan'[p] = Append(chan[p], m) => Descriptions(p)' \subseteq Descriptions(p) \cup {m}
         /\ Takes(p, Head(chan[p])) =>
              /\ Head(chan[p]) \in Descriptions(p)
              /\ InOrder(chan[p]) => \A m \in Descriptions(p)' : NotAfter(Head(chan[p]), m)
<1>1. chan[p] \in Seq(Message)
  BY DEF TypeOK
<1>2. ASSUME NEW m \in Message, chan'[p] = Append(chan[p], m)
      PROVE  Descriptions(p)' \subseteq Descriptions(p) \cup {m}
  <2>1. Elements(chan'[p]) = Elements(chan[p]) \cup {m}
    BY <1>1, <1>2, QueueElements
  <2>2. QED
    BY <2>1 DEF Descriptions
<1>3. ASSUME Takes(p, Head(chan[p]))
      PROVE  /\ Head(chan[p]) \in Descriptions(p)
             /\ InOrder(chan[p]) => \A m \in Descriptions(p)' : NotAfter(Head(chan[p]), m)
  <2>1. chan[p] # <<>> /\ Head(chan[p]).type = "DD" /\ chan'[p] = Tail(chan[p])
    BY <1>3 DEF Takes
  <2>2. Head(chan[p]) \in Elements(chan[p])
    BY <1>1, <2>1, HeadPacket
  <2>3. InOrder(chan[p]) => \A m \in Elements(Tail(chan[p])) :
          m.type = "DD" => NotAfter(Head(chan[p]), m)
    BY <1>1, <2>1, InOrderTail
  <2>4. QED
    BY <2>1, <2>2, <2>3 DEF Descriptions
<1>4. QED
  BY <1>2, <1>3

\* No step of the router that drops the descriptions frees it.
LEMMA ActorStuck ==
  ASSUME TypeOK, NEW p \in Router, ControlInv(p), ExchangeStep(p), OnlyActor(p),
         Fragmented(p), Stuck(p)
  PROVE  Stuck(p)'
<1> DEFINE q == Peer(p)
<1>1. q \in Router /\ nbr'[q] = nbr[q]
  BY PeerProperties DEF OnlyActor
<1>2. nbr[p].state \notin Synchronizing /\ nbr[p].state # "LOADING"
  BY DEF Stuck, Synchronizing
<1>3. /\ CalmStep(p) => nbr'[p].state = nbr[p].state /\ NoNewDD(q)
      /\ RestartStep(p) => nbr'[p].state = "EXSTART" /\ NoNewDD(q)
      /\ KillStep(p) => nbr'[p].state = "DOWN" /\ NoNewDD(q)
  BY <1>2 DEF CalmStep, RestartStep, KillStep, NoNewDDs
<1>4. ~NegotiateStep(p) /\ ~AcceptStep(p)
  BY DEF NegotiateStep, AcceptStep, Takes
<1>5. ~SendNextStep(p)
  BY <1>2 DEF SendNextStep, ControlInv
<1>6. CASE SendInitialStep(p)
  <2>1. PICK m \in Message : m.init /\ chan'[q] = Append(chan[q], m)
    BY <1>6 DEF SendInitialStep
  <2>2. Descriptions(q)' \subseteq Descriptions(q) \cup {m}
    BY <1>1, <2>1, DescriptionSteps
  <2>3. nbr'[p].state = nbr[p].state
    BY <1>6 DEF SendInitialStep, SameControl
  <2>4. QED
    BY <1>1, <2>1, <2>2, <2>3 DEF Stuck
<1>7. CASE nbr'[p].state \in {nbr[p].state, "EXSTART", "DOWN"} /\ NoNewDD(q)
  BY <1>1, <1>7 DEF Stuck, NoNewDD
<1>8. QED
  BY <1>3, <1>4, <1>5, <1>6, <1>7 DEF ExchangeStep

\* Nor does a step of its neighbour.
LEMMA PeerStuck ==
  ASSUME TypeOK, NEW p \in Router, ExchangeStep(Peer(p)), OnlyActor(Peer(p)), Stuck(p)
  PROVE  Stuck(p)'
<1> DEFINE q == Peer(p)
<1>1. q \in Router /\ Peer(q) = p /\ nbr'[p] = nbr[p]
  BY PeerProperties DEF OnlyActor
<1>2. nbr[q].state \in {"DOWN", "EXSTART", "EXCHANGE"} /\ \A a \in Descriptions(q) : a.init
  BY DEF Stuck
<1>3. Descriptions(q)' \subseteq Descriptions(q)
  BY <1>1 DEF OnlyActor, Descriptions
<1>4. nbr'[q].state \in {"DOWN", "EXSTART", "EXCHANGE"}
  <2>1. CASE AcceptStep(q)
    <3>1. Takes(q, Head(chan[q])) /\ nbr[q].state \in Synchronizing
          /\ (nbr[q].state = "EXCHANGE" => ~Head(chan[q]).init)
      BY <2>1 DEF AcceptStep
    <3>2. Head(chan[q]) \in Descriptions(q)
      BY <1>1, <3>1, DescriptionSteps
    <3>3. QED
      BY <1>2, <3>1, <3>2 DEF Synchronizing
  <2>2. QED
    BY <1>2, <2>1 DEF ExchangeStep, CalmStep, RestartStep, KillStep, SendInitialStep,
         SendNextStep, SameControl, NegotiateStep
<1>5. QED
  BY <1>1, <1>2, <1>3, <1>4 DEF Stuck

-----------------------------------------------------------------------------
(* The sequence numbers of the two ends                                     *)

\* What is on its way from the master p, what has been answered and what waits to be
\* sent is in the order of the sequence numbers: an answer is no newer than the slave,
\* the slave no newer than what it has yet to read, and that no newer than the master.
\* A master about to begin again is ahead of all of it.  Once the master exchanges, no
\* packet that begins an exchange is on its way.
Ordered(p) ==
  LET q == Peer(p)
      answers == {s \in Descriptions(p) : ~s.init}
  IN  /\ InOrder(chan[q])
      /\ \A a \in Descriptions(q) : a.seq <= nbr[p].seq
      /\ \A s \in answers :
           /\ ~s.master /\ s.seq <= nbr[p].seq
           /\ \A a \in Descriptions(q) : NotAfter(s, a)
           /\ nbr[q].state \in Synchronizing => s.seq <= nbr[q].seq
      /\ nbr[q].state \in Synchronizing =>
           /\ nbr[q].seq <= nbr[p].seq
           /\ \A a \in Descriptions(q) : NotAfter(nbr[q], a)
      /\ InitialDue(p) =>
           /\ \A a \in Descriptions(q) : a.seq < nbr[p].seq
           /\ \A s \in answers : s.seq < nbr[p].seq
           /\ nbr[q].state \in Synchronizing => nbr[q].seq < nbr[p].seq
      /\ nbr[p].state \in Synchronizing => \A a \in Descriptions(q) : ~a.init
      /\ nbr[p].state = "EXCHANGE" /\ nbr[q].state = "EXCHANGE" =>
           nbr[p].seq <= nbr[q].seq + 1

\* A step that sends and takes no description, and moves no sequence number of a router
\* that goes on, keeps the order.
LEMMA QuietOrdered ==
  ASSUME TypeOK, NEW p \in Router, Ordered(p), NoNewDD(p), NoNewDD(Peer(p)),
         nbr'[p].seq = nbr[p].seq, InitialDue(p)' => InitialDue(p),
         nbr'[p].state \in Synchronizing => nbr[p].state \in Synchronizing,
         nbr'[p].state = "EXCHANGE" => nbr[p].state = "EXCHANGE",
         nbr'[Peer(p)].state \in Synchronizing =>
           nbr[Peer(p)].state \in Synchronizing /\ nbr'[Peer(p)].seq = nbr[Peer(p)].seq,
         nbr'[Peer(p)].state = "EXCHANGE" => nbr[Peer(p)].state = "EXCHANGE"
  PROVE  Ordered(p)'
<1> DEFINE q == Peer(p)
<1>1. /\ Descriptions(p)' \subseteq Descriptions(p) /\ Descriptions(q)' \subseteq Descriptions(q)
      /\ InOrder(chan'[q])
  BY DEF NoNewDD, NoMore, Ordered
<1>2. nbr'[q].state \in Synchronizing => \A a \in Descriptions(q)' : NotAfter(nbr'[q], a)
  <2>1. SUFFICES ASSUME nbr'[q].state \in Synchronizing, NEW a \in Descriptions(q)'
                 PROVE  NotAfter(nbr'[q], a)
    OBVIOUS
  <2>2. NotAfter(nbr[q], a) /\ nbr'[q].seq = nbr[q].seq
    BY <1>1, <2>1 DEF Ordered
  <2>3. QED
    BY <2>2 DEF NotAfter
<1>3. nbr'[p].state = "EXCHANGE" /\ nbr'[q].state = "EXCHANGE" => nbr'[p].seq <= nbr'[q].seq + 1
  BY DEF Ordered, Synchronizing
<1>4. QED
  BY <1>1, <1>2, <1>3 DEF Ordered

\* A step of the master keeps the order.
LEMMA MasterOrdered ==
  ASSUME TypeOK, TypeOK', NEW p \in Router, p > Peer(p), ControlInv(p), Ordered(p),
         ExchangeStep(p), OnlyActor(p)
  PROVE  Ordered(p)'
<1> DEFINE q == Peer(p)
<1>1. q \in Router /\ Peer(q) = p /\ nbr'[q] = nbr[q] /\ p \in Nat /\ q \in Nat
  BY PeerProperties, RouterAssumption DEF OnlyActor
<1>2. nbr[p].seq \in Nat /\ nbr[q].seq \in Nat /\ nbr'[p].seq \in Nat
  BY <1>1 DEF TypeOK, Neighbor
<1>3. /\ \A m \in Descriptions(p) : m \in Message /\ m.seq \in Nat /\ m.init \in BOOLEAN
      /\ \A m \in Descriptions(q) : m \in Message /\ m.seq \in Nat /\ m.init \in BOOLEAN
  BY <1>1, DescriptionTypes
<1>4. CASE CalmStep(p) \/ KillStep(p)
  <2>1. /\ NoNewDD(p) /\ NoNewDD(q) /\ nbr'[p].seq = nbr[p].seq
        /\ nbr'[p].state \in Synchronizing => nbr[p].state \in Synchronizing
        /\ nbr'[p].state = "EXCHANGE" => nbr[p].state = "EXCHANGE"
    BY <1>4 DEF CalmStep, KillStep, SameRole, NoNewDDs, Synchronizing
  <2>2. InitialDue(p)' => InitialDue(p)
    BY <1>4, ScheduledQueues DEF CalmStep, KillStep, SameDue, InitialDue
  <2>3. QED
    BY <1>1, <2>1, <2>2, QuietOrdered
<1>5. CASE RestartStep(p)
  <2>1. /\ Descriptions(p)' \subseteq Descriptions(p) /\ Descriptions(q)' \subseteq Descriptions(q)
        /\ InOrder(chan'[q])
        /\ nbr'[p].seq = nbr[p].seq + 1 /\ nbr'[p].state = "EXSTART"
    BY <1>5 DEF RestartStep, NoNewDDs, NoNewDD, NoMore, Ordered
  <2>2. \A a \in Descriptions(q)' : a.seq < nbr'[p].seq
    BY <1>2, <1>3, <2>1 DEF Ordered
  <2>3. \A s \in Descriptions(p)' : ~s.init =>
          /\ ~s.master /\ s.seq < nbr'[p].seq
          /\ \A a \in Descriptions(q)' : NotAfter(s, a)
          /\ nbr'[q].state \in Synchronizing => s.seq <= nbr'[q].seq
    BY <1>1, <1>2, <1>3, <2>1 DEF Ordered
  <2>4. nbr'[q].state \in Synchronizing =>
          nbr'[q].seq < nbr'[p].seq /\ \A a \in Descriptions(q)' : NotAfter(nbr'[q], a)
    BY <1>1, <1>2, <2>1 DEF Ordered
  <2>5. QED
    BY <1>1, <1>2, <1>3, <2>1, <2>2, <2>3, <2>4 DEF Ordered, Synchronizing
<1>6. CASE SendInitialStep(p)
  <2>1. PICK m \in Message : /\ m.type = "DD" /\ m.init /\ m.seq = nbr[p].seq
                             /\ chan'[q] = Append(chan[q], m)
    BY <1>6 DEF SendInitialStep
  <2>2. Descriptions(q)' \subseteq Descriptions(q) \cup {m} /\ Descriptions(p)' \subseteq Descriptions(p)
    BY <1>1, <1>6, <2>1, DescriptionSteps DEF SendInitialStep, NoNewDD
  <2>3. /\ nbr'[p].seq = nbr[p].seq /\ nbr'[p].state = "EXSTART" /\ InitialDue(p)
        /\ ~InitialDue(p)'
    BY <1>6 DEF SendInitialStep, SameControl, SameRole, ControlInv, NoneDue
  <2>4. \A a \in Descriptions(q) : NotAfter(a, m)
    BY <1>2, <1>3, <2>1, <2>3 DEF Ordered, NotAfter
  <2>5. InOrder(chan'[q])
    <3>1. chan[q] \in Seq(Message) /\ InOrder(chan[q])
      BY <1>1 DEF TypeOK, Ordered
    <3>2. QED
      BY <2>1, <2>4, <3>1, InOrderAppend DEF Descriptions
  <2>6. \A s \in Descriptions(p)' : ~s.init =>
          /\ ~s.master /\ s.seq <= nbr'[p].seq
          /\ \A a \in Descriptions(q)' : NotAfter(s, a)
          /\ nbr'[q].state \in Synchronizing => s.seq <= nbr'[q].seq
    BY <1>1, <1>2, <1>3, <2>1, <2>2, <2>3 DEF Ordered, NotAfter
  <2>7. nbr'[q].state \in Synchronizing =>
          nbr'[q].seq <= nbr'[p].seq /\ \A a \in Descriptions(q)' : NotAfter(nbr'[q], a)
    BY <1>1, <1>2, <2>1, <2>2, <2>3 DEF Ordered, NotAfter
  <2>8. \A a \in Descriptions(q)' : a.seq <= nbr'[p].seq
    BY <1>2, <2>1, <2>2, <2>3 DEF Ordered
  <2>9. QED
    BY <2>3, <2>5, <2>6, <2>7, <2>8 DEF Ordered, Synchronizing
<1>7. CASE SendNextStep(p)
  <2>1. PICK m \in Message : /\ m.type = "DD" /\ ~m.init /\ m.seq = nbr[p].seq
                             /\ chan'[q] = Append(chan[q], m)
    BY <1>7 DEF SendNextStep
  <2>2. Descriptions(q)' \subseteq Descriptions(q) \cup {m} /\ Descriptions(p)' \subseteq Descriptions(p)
    BY <1>1, <1>7, <2>1, DescriptionSteps DEF SendNextStep, NoNewDD
  <2>3. /\ nbr'[p].seq = nbr[p].seq /\ nbr'[p].state = nbr[p].state /\ ~InitialDue(p)'
    BY <1>7 DEF SendNextStep, SameControl, SameRole, NoneDue
  <2>4. \A a \in Descriptions(q) : NotAfter(a, m)
    BY <1>2, <1>3, <2>1, <2>3 DEF Ordered, NotAfter
  <2>5. InOrder(chan'[q])
    <3>1. chan[q] \in Seq(Message) /\ InOrder(chan[q])
      BY <1>1 DEF TypeOK, Ordered
    <3>2. QED
      BY <2>1, <2>4, <3>1, InOrderAppend DEF Descriptions
  <2>6. \A s \in Descriptions(p)' : ~s.init =>
          /\ ~s.master /\ s.seq <= nbr'[p].seq
          /\ \A a \in Descriptions(q)' : NotAfter(s, a)
          /\ nbr'[q].state \in Synchronizing => s.seq <= nbr'[q].seq
    BY <1>1, <1>2, <1>3, <2>1, <2>2, <2>3 DEF Ordered, NotAfter
  <2>7. nbr'[q].state \in Synchronizing =>
          nbr'[q].seq <= nbr'[p].seq /\ \A a \in Descriptions(q)' : NotAfter(nbr'[q], a)
    BY <1>1, <1>2, <2>1, <2>2, <2>3 DEF Ordered, NotAfter
  <2>8. /\ \A a \in Descriptions(q)' : a.seq <= nbr'[p].seq
        /\ nbr'[p].state \in Synchronizing => \A a \in Descriptions(q)' : ~a.init
    BY <1>2, <2>1, <2>2, <2>3 DEF Ordered
  <2>9. nbr'[p].state = "EXCHANGE" /\ nbr'[q].state = "EXCHANGE" =>
          nbr'[p].seq <= nbr'[q].seq + 1
    BY <1>1, <2>3 DEF Ordered
  <2>10. QED
    BY <2>3, <2>5, <2>6, <2>7, <2>8, <2>9 DEF Ordered
<1>8. CASE NegotiateStep(p) \/ AcceptStep(p)
  <2> DEFINE m == Head(chan[p])
  <2>1. Takes(p, m) /\ m \in Descriptions(p)
    BY <1>8, DescriptionSteps DEF NegotiateStep, AcceptStep
  <2>2. /\ Descriptions(p)' \subseteq Descriptions(p) /\ Descriptions(q)' \subseteq Descriptions(q)
        /\ InOrder(chan'[q]) /\ ~InitialDue(p)'
    BY <2>1 DEF Takes, NoNewDDs, NoNewDD, NoMore, Ordered
  <2>3. /\ nbr'[p].seq = nbr[p].seq + 1
        /\ nbr[p].state \in Synchronizing \/ (~m.init /\ m.seq = nbr[p].seq)
        /\ nbr'[p].state = "EXCHANGE" => ~m.init /\ m.seq = nbr[p].seq
    <3>1. CASE NegotiateStep(p)
      BY <1>1, <3>1 DEF NegotiateStep
    <3>2. CASE AcceptStep(p)
      BY <1>1, <3>2 DEF AcceptStep, ControlInv
    <3>3. QED
      BY <1>8, <3>1, <3>2
  <2>4. \A a \in Descriptions(q)' : ~a.init
    <3>1. CASE nbr[p].state \in Synchronizing
      BY <2>2, <3>1 DEF Ordered
    <3>2. CASE ~m.init /\ m.seq = nbr[p].seq
      <4>1. ASSUME NEW a \in Descriptions(q) PROVE ~a.init
        <5>1. a.seq <= nbr[p].seq /\ NotAfter(m, a)
          BY <2>1, <3>2 DEF Ordered
        <5>2. QED
          BY <1>2, <1>3, <3>2, <5>1 DEF NotAfter
      <4>2. QED
        BY <2>2, <4>1
    <3>3. QED
      BY <2>3, <3>1, <3>2
  <2>5. nbr'[p].state = "EXCHANGE" /\ nbr'[q].state = "EXCHANGE" =>
          nbr'[p].seq <= nbr'[q].seq + 1
    BY <1>1, <1>2, <1>3, <2>1, <2>3 DEF Ordered, Synchronizing
  <2>6. \A s \in Descriptions(p)' : ~s.init =>
          /\ ~s.master /\ s.seq <= nbr'[p].seq
          /\ \A a \in Descriptions(q)' : NotAfter(s, a)
          /\ nbr'[q].state \in Synchronizing => s.seq <= nbr'[q].seq
    BY <1>1, <1>2, <1>3, <2>2, <2>3 DEF Ordered
  <2>7. nbr'[q].state \in Synchronizing =>
          nbr'[q].seq <= nbr'[p].seq /\ \A a \in Descriptions(q)' : NotAfter(nbr'[q], a)
    BY <1>1, <1>2, <2>2, <2>3 DEF Ordered
  <2>8. \A a \in Descriptions(q)' : a.seq <= nbr'[p].seq
    BY <1>2, <1>3, <2>2, <2>3 DEF Ordered
  <2>9. QED
    BY <2>2, <2>4, <2>5, <2>6, <2>7, <2>8 DEF Ordered
<1>9. QED
  BY <1>4, <1>5, <1>6, <1>7, <1>8 DEF ExchangeStep

\* A step of the slave keeps the order.
LEMMA SlaveOrdered ==
  ASSUME TypeOK, TypeOK', NEW p \in Router, p > Peer(p), ControlInv(Peer(p)), Ordered(p),
         ExchangeStep(Peer(p)), OnlyActor(Peer(p))
  PROVE  Ordered(p)'
<1> DEFINE q == Peer(p)
<1>1. /\ q \in Router /\ Peer(q) = p /\ p \in Nat /\ q \in Nat
      /\ nbr'[p] = nbr[p] /\ InitialDue(p)' = InitialDue(p)
  BY PeerProperties, RouterAssumption DEF OnlyActor, InitialDue
<1>2. nbr[p].seq \in Nat /\ nbr[q].seq \in Nat /\ nbr'[q].seq \in Nat
  BY <1>1 DEF TypeOK, Neighbor
<1>3. /\ \A m \in Descriptions(p) : m \in Message /\ m.seq \in Nat /\ m.init \in BOOLEAN
      /\ \A m \in Descriptions(q) : m \in Message /\ m.seq \in Nat /\ m.init \in BOOLEAN
  BY <1>1, DescriptionTypes
<1>4. CASE CalmStep(q) \/ KillStep(q) \/ RestartStep(q)
  <2>1. /\ NoNewDD(p) /\ NoNewDD(q)
        /\ nbr'[q].state \in Synchronizing =>
             nbr[q].state \in Synchronizing /\ nbr'[q].seq = nbr[q].seq
        /\ nbr'[q].state = "EXCHANGE" => nbr[q].state = "EXCHANGE"
    BY <1>1, <1>4 DEF CalmStep, KillStep, RestartStep, NoNewDDs, Synchronizing
  <2>2. QED
    BY <1>1, <2>1, QuietOrdered
<1>5. CASE SendInitialStep(q) \/ SendNextStep(q)
  <2>1. PICK m \in Message :
          /\ m.type = "DD" /\ m.seq = nbr[q].seq
          /\ m.init \/ (~m.init /\ m.master = nbr[q].master /\ NextDue(q))
          /\ chan'[p] = Append(chan[p], m)
    BY <1>1, <1>5 DEF SendInitialStep, SendNextStep
  <2>2. /\ Descriptions(p)' \subseteq Descriptions(p) \cup {m}
        /\ Descriptions(q)' \subseteq Descriptions(q) /\ InOrder(chan'[q])
    BY <1>1, <1>5, <2>1, DescriptionSteps DEF SendInitialStep, SendNextStep, NoNewDD, NoMore,
        Ordered
  <2>3. nbr'[q].seq = nbr[q].seq /\ nbr'[q].state = nbr[q].state
    BY <1>5 DEF SendInitialStep, SendNextStep, SameControl, SameRole
  <2>4. ~m.init => nbr[q].state \in Synchronizing /\ ~m.master
    BY <1>1, <2>1 DEF ControlInv
  <2>5. nbr[q].state \in Synchronizing =>
          nbr[q].seq <= nbr[p].seq /\ \A a \in Descriptions(q) : NotAfter(nbr[q], a)
    BY DEF Ordered
  <2>6. ~m.init => \A a \in Descriptions(q) : NotAfter(m, a)
    BY <2>1, <2>4, <2>5 DEF NotAfter
  <2>7. \A s \in Descriptions(p)' : ~s.init =>
          /\ ~s.master /\ s.seq <= nbr'[p].seq
          /\ \A a \in Descriptions(q)' : NotAfter(s, a)
          /\ nbr'[q].state \in Synchronizing => s.seq <= nbr'[q].seq
          /\ InitialDue(p) => s.seq < nbr'[p].seq
    <3>1. SUFFICES ASSUME NEW s \in Descriptions(p)', ~s.init
                   PROVE  /\ ~s.master /\ s.seq <= nbr[p].seq
                          /\ \A a \in Descriptions(q) : NotAfter(s, a)
                          /\ nbr[q].state \in Synchronizing => s.seq <= nbr[q].seq
                          /\ InitialDue(p) => s.seq < nbr[p].seq
      BY <1>1, <2>2, <2>3
    <3>2. CASE s = m
      BY <1>2, <2>1, <2>4, <2>5, <2>6, <3>1, <3>2 DEF Ordered
    <3>3. CASE s \in Descriptions(p)
      BY <3>1, <3>3 DEF Ordered
    <3>4. QED
      BY <2>2, <3>2, <3>3
  <2>8. nbr'[q].state \in Synchronizing => \A a \in Descriptions(q)' : NotAfter(nbr'[q], a)
    BY <2>2, <2>3, <2>5 DEF NotAfter
  <2>9. QED
    BY <1>1, <2>2, <2>3, <2>7, <2>8 DEF Ordered
<1>6. CASE NegotiateStep(q) \/ AcceptStep(q)
  <2> DEFINE m == Head(chan[q])
  <2>1. Takes(q, m) /\ m \in Descriptions(q) /\ \A a \in Descriptions(q)' : NotAfter(m, a)
    BY <1>1, <1>6, DescriptionSteps DEF NegotiateStep, AcceptStep, Ordered
  <2>2. /\ Descriptions(p)' \subseteq Descriptions(p) /\ Descriptions(q)' \subseteq Descriptions(q)
        /\ InOrder(chan'[q])
    BY <1>1, <2>1 DEF Takes, NoNewDDs, NoNewDD, NoMore, Ordered
  <2>3. /\ nbr'[q].seq = m.seq
        /\ nbr'[q].state = "EXCHANGE" => m.init \/ nbr[q].state = "EXCHANGE"
    <3>1. CASE NegotiateStep(q)
      BY <1>1, <3>1 DEF NegotiateStep
    <3>2. CASE AcceptStep(q)
      BY <1>1, <3>2 DEF AcceptStep, ControlInv
    <3>3. QED
      BY <1>6, <3>1, <3>2
  <2>4. m.seq <= nbr[p].seq /\ (InitialDue(p) => m.seq < nbr[p].seq)
    BY <2>1 DEF Ordered
  <2>5. \A s \in Descriptions(p)' : ~s.init =>
          /\ ~s.master /\ s.seq <= nbr[p].seq /\ s.seq <= m.seq
          /\ \A a \in Descriptions(q)' : NotAfter(s, a)
          /\ InitialDue(p) => s.seq < nbr[p].seq
    BY <2>1, <2>2 DEF Ordered, NotAfter
  <2>6. \A a \in Descriptions(q)' : NotAfter(nbr'[q], a)
    BY <2>1, <2>3 DEF NotAfter
  <2>7. nbr[p].state = "EXCHANGE" /\ nbr'[q].state = "EXCHANGE" => nbr[p].seq <= m.seq + 1
    <3>1. SUFFICES ASSUME nbr[p].state = "EXCHANGE", nbr'[q].state = "EXCHANGE"
                   PROVE  nbr[p].seq <= m.seq + 1
      OBVIOUS
    <3>2. ~m.init
      BY <2>1, <3>1 DEF Ordered, Synchronizing
    <3>3. nbr[q].state = "EXCHANGE"
      BY <2>3, <3>1, <3>2
    <3>4. nbr[q].seq <= m.seq /\ nbr[p].seq <= nbr[q].seq + 1
      BY <2>1, <3>1, <3>3 DEF Ordered, NotAfter, Synchronizing
    <3>5. QED
      BY <1>2, <1>3, <2>1, <3>4
  <2>8. QED
    BY <1>1, <2>2, <2>3, <2>4, <2>5, <2>6, <2>7 DEF Ordered
<1>7. QED
  BY <1>4, <1>5, <1>6 DEF ExchangeStep

-----------------------------------------------------------------------------
(* The theorems                                                             *)

\* The inductive invariant of the exchange.  The sequence numbers need the roles (who
\* steps a number and who copies it), the roles need the calls (what is sent in which
\* state), and the MTUs need what has been sent.
ExchangeInv ==
  \A p \in Router :
    /\ ControlInv(p)
    /\ p > Peer(p) => Ordered(p)
    /\ MtuInv(p)

\* No description is scheduled or on its way at the start.
LEMMA InitExchange == Init => ExchangeInv
<1> SUFFICES ASSUME Init, NEW p \in Router
             PROVE  ControlInv(p) /\ Ordered(p) /\ Stuck(p)
  BY DEF ExchangeInv, MtuInv
<1> DEFINE h == [type |-> "Hello", seen |-> FALSE]
<1>1. Peer(p) \in Router
  BY PeerProperties
<1>2. h \in Message /\ h.type = "Hello"
  BY MessageTypes
<1>3. ASSUME NEW r \in Router
      PROVE  /\ nbr[r].state = "DOWN" /\ due[r] = <<>> /\ hand[r] = NoHeaders
             /\ Descriptions(r) = {} /\ InOrder(chan[r])
  <2>1. PICK b \in [Router -> BOOLEAN] : nbr = [s \in Router |-> FreshNeighbor(b[s])]
    BY DEF Init
  <2>2. nbr[r].state = "DOWN" /\ due[r] = <<>> /\ hand[r] = NoHeaders
    BY <2>1 DEF Init, FreshNeighbor
  <2>3. chan[r] = <<h>>
    BY DEF Init
  <2> HIDE DEF h
  <2>4. Elements(<<h>>) = {h}
    BY <1>2, OneElement
  <2>5. \A i \in DOMAIN <<h>> : <<h>>[i] = h
    BY <2>4 DEF Elements
  <2>6. QED
    BY <1>2, <2>2, <2>3, <2>4, <2>5 DEF Descriptions, InOrder
<1>4. OneDD(<<>>) /\ NoneDue(p)
  BY <1>3, ScheduledQueues DEF NoneDue, InitialDue, NextDue
<1>5. ControlInv(p)
  BY <1>3, <1>4 DEF ControlInv, TidyCalls, NoneDue, Synchronizing
<1>6. Ordered(p)
  BY <1>1, <1>3, <1>4 DEF Ordered, NoneDue, Synchronizing
<1>7. Stuck(p)
  BY <1>1, <1>3 DEF Stuck
<1>8. QED
  BY <1>5, <1>6, <1>7

\* Every step preserves the invariant.
LEMMA StepExchange == TypeOK /\ ExchangeInv /\ [Next]_vars => ExchangeInv'
<1> SUFFICES ASSUME TypeOK, ExchangeInv, [Next]_vars PROVE ExchangeInv'
  OBVIOUS
<1>1. TypeOK'
  BY StepTypes
<1>2. CASE UNCHANGED vars \/ MinLSArrivalPasses
  <2>1. UNCHANGED <<mtu, nbr, due, hand, chan>>
    BY <1>2 DEF vars, MinLSArrivalPasses
  <2>2. ASSUME NEW p \in Router
        PROVE  ControlInv(p)' /\ (Ordered(p) => Ordered(p)') /\ MtuInv(p)'
    <3>1. ControlInv(p)' /\ MtuInv(p)'
      BY <2>1 DEF ExchangeInv, ControlInv, TidyCalls, InitialDue, NextDue, MtuInv, Fragmented,
           Stuck, Descriptions
    <3>2. Ordered(p) => Ordered(p)'
      BY <2>1 DEF Ordered, InitialDue, Descriptions
    <3>3. QED
      BY <3>1, <3>2
  <2>3. QED
    BY <2>2 DEF ExchangeInv
<1>3. ASSUME NEW p \in Router, Acts(p), mtu' = mtu PROVE ExchangeInv'
  <2> DEFINE q == Peer(p)
  <2>1. /\ q \in Router /\ Peer(q) = p /\ p \in Nat /\ q \in Nat
        /\ \A r \in Router : r = p \/ r = q
    BY PeerProperties, RouterAssumption
  <2>2. OnlyActor(p)
    BY <1>3, ActorOnly
  <2>3. /\ ControlInv(p) /\ MtuInv(p) /\ (p > q => Ordered(p))
        /\ ControlInv(q) /\ MtuInv(q) /\ (q > p => Ordered(q))
    BY <2>1 DEF ExchangeInv
  <2>4. ExchangeStep(p)
    BY <1>3, <2>3, ActorExchange DEF ControlInv
  <2>5. ControlInv(p)'
    BY <2>3, <2>4, ActorControl
  <2>6. ControlInv(q)'
    BY <2>1, <2>2, <2>3, SameControlInv DEF OnlyActor
  <2>7. p > q => Ordered(p)'
    BY <1>1, <2>2, <2>3, <2>4, MasterOrdered
  <2>8. q > p => Ordered(q)'
    BY <1>1, <2>1, <2>2, <2>3, <2>4, SlaveOrdered
  <2>9. (Fragmented(p)' <=> Fragmented(p)) /\ (Fragmented(q)' <=> Fragmented(q))
    BY <1>3 DEF Fragmented
  <2>10. MtuInv(p)'
    BY <2>2, <2>3, <2>4, <2>9, ActorStuck DEF MtuInv
  <2>11. MtuInv(q)'
    BY <2>1, <2>2, <2>3, <2>4, <2>9, PeerStuck DEF MtuInv
  <2>12. \A r \in Router : ControlInv(r)' /\ (r > Peer(r) => Ordered(r)') /\ MtuInv(r)'
    BY <2>1, <2>5, <2>6, <2>7, <2>8, <2>10, <2>11
  <2>13. QED
    BY <2>12 DEF ExchangeInv
<1>4. Next => MinLSArrivalPasses \/ \E p \in Router : Acts(p) /\ mtu' = mtu
  <2>1. ASSUME NEW p \in Router, Acts(p) PROVE mtu' = mtu
    <3>1. CASE Receive(p)
      BY <3>1, Zenon DEF Receive, ReceiveHelloPacket, ReceiveDDIgnored, ReceiveDDNegotiate,
           ReceiveDDMismatch, ReceiveDDAsMaster, ReceiveDDAsSlave,
           ReceiveLinkStateRequestPacket, ReceiveLinkStateUpdatePacket,
           ReceiveLinkStateAckPacket
    <3>2. CASE RunDue(p)
      BY <3>2, Zenon DEF RunDue, SendInitialDD, SendDD, SendLSR, SendLSUDirect, EntryPoint
    <3>3. CASE HandleLSA(p)
      BY <3>3, Zenon DEF HandleLSA, InstallLSA, DropEarlyLSA, BadLSRequest, AnswerOldLSA, SameLSA
    <3>4. CASE SendHelloPacket(p) \/ LSRTimer(p) \/ ClearLastPacket(p) \/ EntryPointTimer(p)
               \/ InactivityTimer(p) \/ Lose(p) \/ ForeignUpdate(p) \/ OriginateElsewhere(p)
      BY <3>4, Zenon DEF SendHelloPacket, LSRTimer, ClearLastPacket, EntryPointTimer,
           InactivityTimer, Lose, ForeignUpdate, OriginateElsewhere
    <3>5. QED
      BY <2>1, <3>1, <3>2, <3>3, <3>4 DEF Acts
  <2>2. Next => MinLSArrivalPasses \/ \E p \in Router : Acts(p)
    BY Zenon DEF Next, Acts
  <2>3. QED
    BY <2>1, <2>2
<1>5. QED
  BY <1>2, <1>3, <1>4

\* The invariant holds always.
THEOREM ExchangeInvariant == Spec => []ExchangeInv
BY InitTypes, StepTypes, InitExchange, StepExchange, PTL DEF Spec

\* Whatever packets are lost, delayed or left over from before a restart, a router that
\* exchanges databases has the role that its id gives it
\* (ReceiveDatabaseDescriptionPacket, SetAsMaster, SetAsSlave).
THEOREM RolesById == Spec => []RoleById
<1>1. ExchangeInv => RoleById
  BY DEF ExchangeInv, ControlInv, RoleById
<1>2. QED
  BY <1>1, ExchangeInvariant, PTL

\* SendDatabaseDescriptionPacket never runs without a last packet: the calls that
\* NEGOT_DONE and the answers schedule run before ClearLastPacket can.
THEOREM LastPacketAlwaysPresent == Spec => []LastPacketPresent
<1>1. ExchangeInv => LastPacketPresent
  BY DEF ExchangeInv, ControlInv, LastPacketPresent, NextDue, Elements
<1>2. QED
  BY <1>1, ExchangeInvariant, PTL

\* Two routers whose interface MTUs differ never become FULL, neither the one that drops
\* the descriptions of the other nor the one that waits for its answers.
THEOREM MtuMismatchStaysDown == Spec => []MtuMismatchNeverFull
<1>1. TypeOK /\ ExchangeInv => MtuMismatchNeverFull
  <2>1. SUFFICES ASSUME TypeOK, ExchangeInv, NEW p \in Router, mtu[p] # mtu[Peer(p)]
                 PROVE  \A r \in Router : nbr[r].state # "FULL"
    BY DEF MtuMismatchNeverFull
  <2>2. Peer(p) \in Router /\ Peer(Peer(p)) = p /\ \A r \in Router : r = p \/ r = Peer(p)
    BY PeerProperties
  <2>3. Fragmented(p) \/ Fragmented(Peer(p))
    <3>1. mtu[p] \in Nat /\ mtu[Peer(p)] \in Nat
      BY <2>1, <2>2, BoundAssumption DEF TypeOK
    <3>2. QED
      BY <2>1, <2>2, <3>1 DEF Fragmented
  <2>4. Stuck(p) \/ Stuck(Peer(p))
    BY <2>1, <2>2, <2>3 DEF ExchangeInv, MtuInv
  <2>5. QED
    BY <2>2, <2>4 DEF Stuck
<1>2. QED
  BY <1>1, TypeCorrect, ExchangeInvariant, PTL

\* While both ends exchange, the slave answers the packet the master sent last, whatever
\* is left on the link of earlier exchanges (ReceiveDatabaseDescriptionPacket).
THEOREM AlwaysInLockstep == Spec => []Lockstep
<1>1. TypeOK /\ ExchangeInv => Lockstep
  <2>1. SUFFICES ASSUME TypeOK, ExchangeInv, NEW p \in Router, p > Peer(p),
                        nbr[p].state = "EXCHANGE", nbr[Peer(p)].state = "EXCHANGE"
                 PROVE  nbr[Peer(p)].seq \in {nbr[p].seq - 1, nbr[p].seq}
    BY DEF Lockstep
  <2>2. nbr[p].seq \in Nat /\ nbr[Peer(p)].seq \in Nat
    BY <2>1, PeerProperties DEF TypeOK, Neighbor
  <2>3. nbr[Peer(p)].seq <= nbr[p].seq /\ nbr[p].seq <= nbr[Peer(p)].seq + 1
    BY <2>1 DEF ExchangeInv, Ordered, Synchronizing
  <2>4. QED
    BY <2>2, <2>3
<1>2. QED
  BY <1>1, TypeCorrect, ExchangeInvariant, PTL
=============================================================================
