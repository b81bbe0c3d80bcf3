---------------------------- MODULE OspfAdjacency ----------------------------
(***************************************************************************)
(* Two OSPFv3 routers at the ends of one point-to-point link: the neighbour *)
(* state machine, the Database Description exchange, the link-state request *)
(* and retransmission lists, and the part of the flooding procedure that    *)
(* runs over this link.                                                     *)
(*                                                                          *)
(* A step is one simulator event of one router: a packet handed to          *)
(* HandleProtocolMessage, a timer, or a call made by ScheduleNow.  Such     *)
(* calls wait in the queue "due" of the router, in order, and read the      *)
(* router's state when they run.  A Link State Update is handled one LSA    *)
(* per step while "hand" holds the LSAs still to be looked at; the router   *)
(* does nothing else meanwhile, as in the loop of the handler.              *)
(*                                                                          *)
(* The rest of the network is the environment: another link may deliver a   *)
(* newer foreign LSA (ForeignUpdate) or complete an adjacency of its own    *)
(* (OriginateElsewhere).  The ages of two copies of an instance differ by   *)
(* less than MaxAgeDiff: the model covers the first 15 minutes after it is  *)
(* installed, and no LSA reaches MaxAge.                                    *)
(***************************************************************************)
EXTENDS Integers, Sequences, FiniteSets

CONSTANTS
  Router,       \* the two router ids; the larger id becomes the master
  Kinds,        \* the kinds of LSA a router originates: "router", "link", "prefix"
  Foreign,      \* LSAs originated by routers that are not on this link
  OffLink,      \* those of Foreign that are Link-LSAs of another link
  Transit,      \* the routers that have another link, too
  Mtus,         \* the MTUs the two interfaces may be configured with
  DdCap,        \* LSA headers that fit in one Database Description packet
  MaxInFlight,  \* a timer fires only while fewer packets and calls wait
  MaxLoss,      \* packets the link may lose
  MaxInactive,  \* inactivity timers that may expire
  MaxForeign,   \* newest foreign instance the other links deliver
  MaxOwn        \* own instances beyond which other links cause no more

OwnLsas(p)  == Kinds \X {p}
RouterLsa(p) == <<"router", p>>
Lsas == (Kinds \X Router) \cup Foreign

ASSUME RouterAssumption ==
  /\ Router \subseteq Nat
  /\ \E a, b \in Router : a # b /\ Router = {a, b}
ASSUME LsaAssumption ==
  /\ Kinds \subseteq {"router", "link", "prefix"}
  /\ "router" \in Kinds
  /\ (Kinds \X Router) \cap Foreign = {}
  /\ OffLink \subseteq Foreign
  /\ Transit \subseteq Router
ASSUME BoundAssumption ==
  /\ Mtus \subseteq Nat
  /\ DdCap \in Nat \ {0}
  /\ MaxInFlight \in Nat
  /\ MaxLoss \in Nat
  /\ MaxInactive \in Nat
  /\ MaxForeign \in Nat
  /\ MaxOwn \in Nat

Peer(p) == CHOOSE q \in Router : q # p

(***************************************************************************)
(* A list of LSA headers is a function from LSAs to versions; 0 stands for  *)
(* "not in the list".  A version is m_seqNum counted from the first         *)
(* instance, so that at these ages IsSameInstance is equality of versions   *)
(* and IsMoreRecentThan their order.                                        *)
(***************************************************************************)
Headers == [Lsas -> Nat]
NoHeaders == [k \in Lsas |-> 0]
Listed(h) == {k \in Lsas : h[k] # 0}
MoreRecentIfDifferent(v, w) == v # w   \* bug: not the same instance
MoreRecent(v, w) == v > w              \* IsMoreRecentThan
Pick(h, ks) == [k \in Lsas |-> IF k \in ks THEN h[k] ELSE 0]

\* The states a neighbour is in between two events.  On a point-to-point link
\* ATTEMPT and TWOWAY are never entered, and INIT only inside ReceiveHelloPacket.
NeighborState == {"DOWN", "EXSTART", "EXCHANGE", "LOADING", "FULL"}
Synchronizing == {"EXCHANGE", "LOADING", "FULL"}   \* state >= EXCHANGE
Active == Synchronizing \cup {"EXSTART"}           \* state >= TWOWAY

NoDD == [has |-> FALSE, init |-> FALSE, more |-> FALSE, master |-> FALSE]
LastDD == [has : BOOLEAN, init : BOOLEAN, more : BOOLEAN, master : BOOLEAN]

Message ==
  [type : {"Hello"}, seen : BOOLEAN]
    \cup [type : {"DD"}, init : BOOLEAN, more : BOOLEAN, master : BOOLEAN,
          seq : Nat, headers : Headers]
    \cup [type : {"LSR"}, ids : SUBSET Lsas]
    \cup [type : {"LSU"}, headers : Headers]
    \cup [type : {"Ack"}, headers : Headers]

SendDDCall(init) == [call |-> "SendDD", init |-> init]
SendLSRCall == [call |-> "SendLSR"]
SendLSUCall(h) == [call |-> "SendLSU", headers |-> h]
EntryPointCall == [call |-> "EntryPoint"]
DueCall ==
  [call : {"SendDD"}, init : BOOLEAN]
    \cup [call : {"SendLSR", "EntryPoint"}]
    \cup [call : {"SendLSU"}, headers : Headers]

VARIABLES
  mtu,     \* mtu[p]: interface MTU of p, which never changes
  nbr,     \* nbr[p]: p's NeighborData for the other router
  lsdb,    \* lsdb[p]: version of each LSA in p's database
  young,   \* young[p]: LSAs installed less than MinLSArrival ago
  warm,    \* has MinLSArrival passed since the simulation started?
  due,     \* due[p]: calls of p that ScheduleNow has queued
  hand,    \* hand[p]: LSAs of the update being handled, still to be looked at
  timers,  \* timers[p]: pending SendLinkStateRequestPacket and ClearLastPacket events
  chan,    \* chan[p]: packets on their way to p, oldest first
  faults   \* losses and expired inactivity timers so far

vars == <<mtu, nbr, lsdb, young, warm, due, hand, timers, chan, faults>>

Neighbor ==
  [known : BOOLEAN, state : NeighborState, master : BOOLEAN, seq : Nat,
   last : LastDD, rxmt : SUBSET Lsas, req : Headers, summary : Headers]

TypeOK ==
  /\ mtu \in [Router -> Mtus]
  /\ nbr \in [Router -> Neighbor]
  /\ lsdb \in [Router -> Headers]
  /\ young \in [Router -> SUBSET Lsas]
  /\ warm \in BOOLEAN
  /\ due \in [Router -> Seq(DueCall)]
  /\ hand \in [Router -> Headers]
  /\ timers \in [Router -> [lsr : Nat, clear : Nat]]
  /\ chan \in [Router -> Seq(Message)]
  /\ faults \in [loss : Nat, inactive : Nat]

\* NeighborData's constructor; m_isMaster is left uninitialised there.
FreshNeighbor(m) ==
  [known |-> FALSE, state |-> "DOWN", master |-> m, seq |-> 0, last |-> NoDD,
   rxmt |-> {}, req |-> NoHeaders, summary |-> NoHeaders]

\* Start has run on both routers at time 0: the interfaces are up, their first LSA
\* instances are originated, and SendHelloPacket, called by ScheduleNow, has sent
\* the first Hello before any packet can arrive.
Init ==
  /\ mtu \in [Router -> Mtus]
  /\ \E m \in [Router -> BOOLEAN] : nbr = [p \in Router |-> FreshNeighbor(m[p])]
  /\ lsdb = [p \in Router |-> [k \in Lsas |-> IF k \in OwnLsas(p) THEN 1 ELSE 0]]
  /\ young = [p \in Router |-> OwnLsas(p)]
  /\ warm = FALSE
  /\ due = [p \in Router |-> <<>>]
  /\ hand = [p \in Router |-> NoHeaders]
  /\ timers = [p \in Router |-> [lsr |-> 0, clear |-> 0]]
  /\ chan = [p \in Router |-> <<[type |-> "Hello", seen |-> FALSE]>>]
  /\ faults = [loss |-> 0, inactive |-> 0]

-----------------------------------------------------------------------------
(* NeighborData and the events of the neighbour state machine.  Each        *)
(* operator returns the record after the event; the calls an event          *)
(* schedules are appended to "due" by the action that raises it.            *)

AnyDescribable == Lsas   \* bug: link-local scope not looked at
Describable == Lsas \ OffLink

ClearList(n) == [n EXCEPT !.rxmt = {}, !.req = NoHeaders, !.summary = NoHeaders]
IncrementSequenceNumberTwice(n) == [n EXCEPT !.seq = @ + 2]   \* bug: stepped twice
IncrementSequenceNumber(n) == [n EXCEPT !.seq = @ + 1]
StartExchange(n) == [IncrementSequenceNumber(n) EXCEPT !.master = TRUE]
AddRxmtList(n, ks) == [n EXCEPT !.rxmt = @ \cup ks]
RemoveFromRxmtList(n, ks) == [n EXCEPT !.rxmt = @ \ ks]

\* AddRequestList does not look for an older entry; readers find the first one.
AddRequestList(n, h) ==
  [n EXCEPT !.req = [k \in Lsas |-> IF @[k] = 0 THEN h[k] ELSE @[k]]]
RemoveFromRequestList(n, k) == [n EXCEPT !.req[k] = 0]

HelloReceived(n) ==
  IF n.state = "DOWN" THEN [n EXCEPT !.state = "INIT"] ELSE n

TwoWayIgnored(n) == n   \* bug: the neighbour stays in INIT

\* A point-to-point neighbour is always to be adjacent (IsNeighborToBeAdjacent).
TwoWayReceived(n) ==
  IF n.state = "INIT" THEN StartExchange([n EXCEPT !.state = "EXSTART"]) ELSE n

NegotDone(n, p) ==
  IF n.state = "EXSTART"
  THEN [n EXCEPT !.state = "EXCHANGE", !.summary = Pick(lsdb[p], Describable)]
  ELSE n

\* Reaching FULL originates all the router's LSAs, which joins them to the
\* retransmission list (OriginateRouterSpecificLSAs).
EnterFull(n, p) == AddRxmtList([n EXCEPT !.state = "FULL"], OwnLsas(p))

\* bug: FULL without looking at the request list
ExchangeDoneAtOnce(n, p) == IF n.state = "EXCHANGE" THEN EnterFull(n, p) ELSE n

ExchangeDone(n, p) ==
  IF n.state # "EXCHANGE" THEN n
  ELSE IF n.req = NoHeaders THEN EnterFull(n, p)
  ELSE [n EXCEPT !.state = "LOADING"]

LoadingDone(n, p) ==
  IF n.state = "LOADING" /\ n.req = NoHeaders THEN EnterFull(n, p) ELSE n

\* BAD_LS_REQ and SEQ_NUM_MISMATCH
RestartExchange(n) ==
  IF n.state \in Synchronizing
  THEN StartExchange(ClearList([n EXCEPT !.state = "EXSTART"]))
  ELSE n

\* KILL_NBR, LL_DOWN and INACTIVE
KillNbr(n) == ClearList([n EXCEPT !.state = "DOWN"])

Restarts(n, m) == n.state # "EXSTART" /\ m.state = "EXSTART"
BecomesFull(n, m) == n.state # "FULL" /\ m.state = "FULL"
BecomesLoading(n, m) == n.state # "LOADING" /\ m.state = "LOADING"

\* What the event that took the neighbour from n to m schedules.
EventCalls(n, m) ==
  CASE Restarts(n, m) -> <<SendDDCall(TRUE)>>
    [] BecomesLoading(n, m) -> <<SendLSRCall>>
    [] OTHER -> <<>>

\* bug: the old instance is flushed and no new one installed
ReoriginateFlush(db, ks) == [k \in Lsas |-> IF k \in ks THEN 0 ELSE db[k]]

\* New instances of p's LSAs ks: the sequence number grows in place.
Reoriginate(db, ks) == [k \in Lsas |-> IF k \in ks THEN db[k] + 1 ELSE db[k]]
OriginatedBy(n, m, p) == IF BecomesFull(n, m) THEN OwnLsas(p) ELSE {}

(***************************************************************************)
(* Step 1.b of AppendToRxmtList: an LSA about to be flooded answers the     *)
(* entry of the request list that is not newer, and an emptied list ends    *)
(* LOADING.                                                                 *)
(***************************************************************************)
AnswerRequest(n, p, k, v) ==
  IF n.state \in {"EXCHANGE", "LOADING"} /\ n.req[k] \in 1..v
  THEN LoadingDone(RemoveFromRequestList(n, k), p)
  ELSE n

-----------------------------------------------------------------------------
(* The link and the scheduler.                                              *)

\* p may handle a new event: nothing scheduled for this instant is left.
Idle(p) == due[p] = <<>> /\ hand[p] = NoHeaders

Arrives(p, type) == Idle(p) /\ chan[p] # <<>> /\ Head(chan[p]).type = type
Consume(p) == chan' = [chan EXCEPT ![p] = Tail(@)]
Send(p, m) == chan' = [chan EXCEPT ![Peer(p)] = Append(@, m)]
HasRoom(p) == Len(chan[p]) + Len(chan[Peer(p)]) + Len(due[Peer(p)]) < MaxInFlight
Schedule(p, cs) == due' = [due EXCEPT ![p] = @ \o cs]
SetNbr(p, n) == nbr' = [nbr EXCEPT ![p] = n]

\* GetNeighbor creates the entry on any packet of the other router.
Known(p) == [nbr[p] EXCEPT !.known = TRUE]

-----------------------------------------------------------------------------
(* Hello                                                                    *)

\* The Hello timer.  The packet lists the neighbours that are at least TWOWAY.
SendHelloPacket(p) ==
  /\ Idle(p) /\ HasRoom(p)
  /\ Send(p, [type |-> "Hello", seen |-> nbr[p].state \in Active])
  /\ UNCHANGED <<mtu, nbr, lsdb, young, warm, due, hand, timers, faults>>

\* GetNeighbor has created the entry, so IsKnownNeighbor is true whatever the
\* packet lists, and the Hello counts as two-way.
ReceiveHelloPacket(p) ==
  LET n == TwoWayReceived(HelloReceived(Known(p)))
  IN  /\ Arrives(p, "Hello")
      /\ Consume(p)
      /\ SetNbr(p, n)
      /\ Schedule(p, Append(EventCalls(nbr[p], n), EntryPointCall))
      /\ UNCHANGED <<mtu, lsdb, young, warm, hand, timers, faults>>

\* The inactivity timer: no Hello for RouterDeadInterval.
InactivityTimer(p) ==
  /\ Idle(p) /\ nbr[p].state # "DOWN" /\ faults.inactive < MaxInactive
  /\ SetNbr(p, KillNbr(nbr[p]))
  /\ faults' = [faults EXCEPT !.inactive = @ + 1]
  /\ UNCHANGED <<mtu, lsdb, young, warm, due, hand, timers, chan>>

-----------------------------------------------------------------------------
(* Database Description                                                     *)

\* SendDatabaseDescriptionPacket(isInit = true)
SendInitialDD(p) ==
  /\ due[p] # <<>> /\ Head(due[p]) = SendDDCall(TRUE)
  /\ due' = [due EXCEPT ![p] = Tail(@)]
  /\ Send(p, [type |-> "DD", init |-> TRUE, more |-> TRUE, master |-> TRUE,
              seq |-> nbr[p].seq, headers |-> NoHeaders])
  /\ UNCHANGED <<mtu, nbr, lsdb, young, warm, hand, timers, faults>>

\* The entries of the summary list that the next packet takes: as many as fit,
\* none in answer to a packet with the init flag.
Fitting(ks) ==
  {js \in SUBSET ks : Cardinality(js) = IF Cardinality(ks) < DdCap THEN Cardinality(ks)
                                                                   ELSE DdCap}
NextSummary(n) == IF n.last.init THEN {{}} ELSE Fitting(Listed(n.summary))

\* The headers of the entries ks of the summary list.  The header objects of p's own
\* LSAs are shared with the database unless an update sent meanwhile replaced
\* them (AgingBeforeFlooding), so either version of them may be sent.
Described(p, ks, shared) ==
  [k \in Lsas |-> IF k \notin ks THEN 0
                  ELSE IF shared /\ k \in OwnLsas(p) THEN lsdb[p][k]
                  ELSE nbr[p].summary[k]]

\* SendDatabaseDescriptionPacket(isInit = false)
SendDD(p) ==
  LET n == nbr[p]
  IN  /\ due[p] # <<>> /\ Head(due[p]) = SendDDCall(FALSE)
      /\ due' = [due EXCEPT ![p] = Tail(@)]
      /\ \E ks \in NextSummary(n), shared \in BOOLEAN :
           /\ SetNbr(p, [n EXCEPT !.summary = Pick(@, Lsas \ ks)])
           /\ Send(p, [type |-> "DD", init |-> FALSE,
                       more |-> IF n.master THEN n.summary # NoHeaders ELSE n.last.more,
                       master |-> n.master, seq |-> n.seq,
                       headers |-> Described(p, ks, shared)])
      /\ UNCHANGED <<mtu, lsdb, young, warm, hand, timers, faults>>

NoteDDForgotten(p, dd) == Known(p)   \* bug: the last packet is not kept

\* SetLastReceivedDD comes first, whatever becomes of the packet.
NoteDD(p, dd) ==
  [Known(p) EXCEPT !.last =
    [has |-> TRUE, init |-> dd.init, more |-> dd.more, master |-> dd.master]]

FragmentedNever(p) == FALSE   \* bug: MTUs not compared
Fragmented(p) == mtu[Peer(p)] > mtu[p]
AsSlaveAnyId(p, n, dd) ==   \* bug: router ids not compared
  n.state = "EXSTART" /\ dd.init /\ dd.more /\ dd.master
AsSlave(p, n, dd) ==
  n.state = "EXSTART" /\ dd.init /\ dd.more /\ dd.master /\ p < Peer(p)
\* bug: the sequence number of the answer is off by one
AsMasterNextSeq(p, n, dd) ==
  n.state = "EXSTART" /\ ~dd.init /\ ~dd.master /\ dd.seq = n.seq + 1 /\ p > Peer(p)
AsMaster(p, n, dd) ==
  n.state = "EXSTART" /\ ~dd.init /\ ~dd.master /\ dd.seq = n.seq /\ p > Peer(p)
\* In EXCHANGE the packet is compared with the last one, which is itself by now.
Mismatch(n, dd) ==
  /\ n.state = "EXCHANGE"
  /\ \/ dd.master # n.last.master
     \/ dd.init
     \/ n.master /\ dd.seq # n.seq
     \/ ~n.master /\ dd.seq <= n.seq
Accepted(n, dd) == n.state \in Synchronizing /\ ~Mismatch(n, dd)

ReceiveDDIgnored(p) ==
  LET dd == Head(chan[p])
      n == NoteDD(p, dd)
  IN  /\ Arrives(p, "DD") /\ Consume(p)
      /\ \/ Fragmented(p)
         \/ n.state = "DOWN"
         \/ n.state = "EXSTART" /\ ~AsSlave(p, n, dd) /\ ~AsMaster(p, n, dd)
      /\ SetNbr(p, n)
      /\ UNCHANGED <<mtu, lsdb, young, warm, due, hand, timers, faults>>

\* NEGOT_DONE schedules the next packet, which is built after the master has
\* stepped its sequence number.
ReceiveDDNegotiate(p) ==
  LET dd == Head(chan[p])
      n == NoteDD(p, dd)
  IN  /\ Arrives(p, "DD") /\ Consume(p) /\ ~Fragmented(p)
      /\ \/ /\ AsSlave(p, n, dd)
            /\ SetNbr(p, NegotDone([n EXCEPT !.master = FALSE, !.seq = dd.seq], p))
         \/ /\ AsMaster(p, n, dd)
            /\ SetNbr(p, IncrementSequenceNumber(NegotDone([n EXCEPT !.master = TRUE], p)))
      /\ Schedule(p, <<SendDDCall(FALSE)>>)
      /\ UNCHANGED <<mtu, lsdb, young, warm, hand, timers, faults>>

ReceiveDDMismatch(p) ==
  LET dd == Head(chan[p])
      n == NoteDD(p, dd)
      m == RestartExchange(n)
  IN  /\ Arrives(p, "DD") /\ Consume(p) /\ ~Fragmented(p)
      /\ Mismatch(n, dd)
      /\ SetNbr(p, m)
      /\ Schedule(p, EventCalls(n, m))
      /\ UNCHANGED <<mtu, lsdb, young, warm, hand, timers, faults>>

\* bug: the same instance is requested, too
WantedSame(p, h) == [k \in Lsas |-> IF h[k] >= lsdb[p][k] THEN h[k] ELSE 0]

\* The headers that are more recent than the copy in the database, if any.
Wanted(p, h) == [k \in Lsas |-> IF MoreRecent(h[k], lsdb[p][k]) THEN h[k] ELSE 0]

ReceiveDDAsMaster(p) ==
  LET dd == Head(chan[p])
      n == IncrementSequenceNumber(AddRequestList(NoteDD(p, dd), Wanted(p, dd.headers)))
      m == IF dd.more THEN n ELSE ExchangeDone(n, p)
  IN  /\ Arrives(p, "DD") /\ Consume(p) /\ ~Fragmented(p)
      /\ Accepted(NoteDD(p, dd), dd) /\ n.master
      /\ SetNbr(p, m)
      /\ lsdb' = [lsdb EXCEPT ![p] = Reoriginate(@, OriginatedBy(n, m, p))]
      /\ Schedule(p, IF dd.more THEN <<SendDDCall(FALSE)>> ELSE EventCalls(n, m))
      /\ UNCHANGED <<mtu, young, warm, hand, timers, faults>>

\* The slave answers every packet; after the last one it also originates its
\* router-LSA (again) and starts the timer of ClearLastPacket.
ReceiveDDAsSlave(p) ==
  LET dd == Head(chan[p])
      n == [AddRequestList(NoteDD(p, dd), Wanted(p, dd.headers)) EXCEPT !.seq = dd.seq]
      m == ExchangeDone(n, p)
      own == {RouterLsa(p)}
  IN  /\ Arrives(p, "DD") /\ Consume(p) /\ ~Fragmented(p)
      /\ Accepted(NoteDD(p, dd), dd) /\ ~n.master
      /\ \/ /\ dd.more
            /\ SetNbr(p, n)
            /\ Schedule(p, <<SendDDCall(FALSE)>>)
            /\ UNCHANGED <<lsdb, timers>>
         \/ /\ ~dd.more
            /\ SetNbr(p, AddRxmtList(m, own))
            /\ Schedule(p, <<SendDDCall(FALSE)>> \o EventCalls(n, m))
            /\ lsdb' = [lsdb EXCEPT ![p] =
                          Reoriginate(Reoriginate(@, OriginatedBy(n, m, p)), own)]
            /\ timers' = [timers EXCEPT ![p].clear = @ + 1]
      /\ UNCHANGED <<mtu, young, warm, hand, faults>>

\* The timer the slave starts after the last packet of the exchange.
ClearLastPacket(p) ==
  /\ Idle(p) /\ timers[p].clear > 0
  /\ SetNbr(p, [nbr[p] EXCEPT !.last = NoDD])
  /\ timers' = [timers EXCEPT ![p].clear = @ - 1]
  /\ UNCHANGED <<mtu, lsdb, young, warm, due, hand, chan, faults>>

-----------------------------------------------------------------------------
(* Link State Request                                                       *)

\* SendLinkStateRequestPacket, called by ScheduleNow or by its own timer; the
\* timer is set again for as long as the request list is not empty.
SendLSR(p) ==
  /\ due[p] # <<>> /\ Head(due[p]) = SendLSRCall
  /\ due' = [due EXCEPT ![p] = Tail(@)]
  /\ IF nbr[p].req = NoHeaders THEN UNCHANGED <<timers, chan>>
     ELSE /\ Send(p, [type |-> "LSR", ids |-> Listed(nbr[p].req)])
          /\ timers' = [timers EXCEPT ![p].lsr = @ + 1]
  /\ UNCHANGED <<mtu, nbr, lsdb, young, warm, hand, faults>>

\* bug: the request is not sent again
LSRTimerOnce(p) ==
  /\ Idle(p) /\ timers[p].lsr > 0
  /\ timers' = [timers EXCEPT ![p].lsr = @ - 1]
  /\ UNCHANGED <<mtu, nbr, lsdb, young, warm, due, hand, chan, faults>>

LSRTimer(p) ==
  /\ Idle(p) /\ timers[p].lsr > 0 /\ HasRoom(p)
  /\ IF nbr[p].req = NoHeaders
     THEN /\ timers' = [timers EXCEPT ![p].lsr = @ - 1]
          /\ UNCHANGED chan
     ELSE /\ Send(p, [type |-> "LSR", ids |-> Listed(nbr[p].req)])
          /\ UNCHANGED timers
  /\ UNCHANGED <<mtu, nbr, lsdb, young, warm, due, hand, faults>>

\* BAD_LS_REQ if some requested LSA is not in the database.
ReceiveLinkStateRequestPacket(p) ==
  LET ids == Head(chan[p]).ids
      n == Known(p)
      m == IF n.state \in Synchronizing /\ ~(ids \subseteq Listed(lsdb[p]))
           THEN RestartExchange(n) ELSE n
  IN  /\ Arrives(p, "LSR") /\ Consume(p)
      /\ SetNbr(p, m)
      /\ Schedule(p, IF m.state \in Synchronizing
                     THEN <<SendLSUCall(Pick(lsdb[p], ids))>> ELSE EventCalls(n, m))
      /\ UNCHANGED <<mtu, lsdb, young, warm, hand, timers, faults>>

-----------------------------------------------------------------------------
(* Link State Update and Acknowledgment                                     *)

\* The LSAs of a call are shared with the database, where p's own may have got a new
\* instance since.
Current(p, h) == [k \in Lsas |-> IF h[k] # 0 /\ k \in OwnLsas(p) THEN lsdb[p][k] ELSE h[k]]

\* SendLinkStateUpdatePacketDirect
SendLSUDirect(p) ==
  /\ due[p] # <<>> /\ Head(due[p]).call = "SendLSU"
  /\ due' = [due EXCEPT ![p] = Tail(@)]
  /\ Send(p, [type |-> "LSU", headers |-> Current(p, Head(due[p]).headers)])
  /\ UNCHANGED <<mtu, nbr, lsdb, young, warm, hand, timers, faults>>

RetransmitsDown(p) == nbr[p].state = "DOWN" /\ nbr[p].rxmt # {}   \* bug: not in FULL

\* SendLinkStateUpdatePacketEntryPoint: everything on the retransmission list,
\* unless the neighbour is in EXSTART, EXCHANGE or LOADING.
Retransmits(p) == nbr[p].state \in {"DOWN", "FULL"} /\ nbr[p].rxmt # {}
SendRxmtList(p) ==
  IF Retransmits(p)
  THEN Send(p, [type |-> "LSU", headers |-> Pick(lsdb[p], nbr[p].rxmt)])
  ELSE UNCHANGED chan

EntryPoint(p) ==
  /\ due[p] # <<>> /\ Head(due[p]) = EntryPointCall
  /\ due' = [due EXCEPT ![p] = Tail(@)]
  /\ SendRxmtList(p)
  /\ UNCHANGED <<mtu, nbr, lsdb, young, warm, hand, timers, faults>>

\* Every entry point schedules the next one 5 s later.
EntryPointTimer(p) ==
  /\ Idle(p) /\ HasRoom(p) /\ Retransmits(p)
  /\ SendRxmtList(p)
  /\ UNCHANGED <<mtu, nbr, lsdb, young, warm, due, hand, timers, faults>>

ReceiveLinkStateUpdatePacket(p) ==
  /\ Arrives(p, "LSU") /\ Consume(p)
  /\ SetNbr(p, Known(p))
  /\ hand' = [hand EXCEPT ![p] =
                IF nbr[p].state \in Synchronizing THEN Head(chan[p]).headers ELSE @]
  /\ UNCHANGED <<mtu, lsdb, young, warm, due, timers, faults>>

Done(p, k) == hand' = [hand EXCEPT ![p][k] = 0]

\* The update that floods one LSA.
FloodPacket(k, v) == [type |-> "LSU", headers |-> [NoHeaders EXCEPT ![k] = v]]

\* Steps 5 to 5.d of the loop.  The LSA is flooded at once over every active
\* interface, this one included, and not put on a retransmission list.  An LSA of
\* p itself that is newer than its own (13.4) is answered by a still newer
\* instance, and then installed in its place.
InstallLSA(p, k) ==
  LET v == hand[p][k]
      n == nbr[p]
      m == AnswerRequest(n, p, k, v)
      own == k \in OwnLsas(p)
      db == Reoriginate(lsdb[p], OriginatedBy(n, m, p))
  IN  /\ MoreRecent(v, lsdb[p][k])
      /\ lsdb[p][k] = 0 \/ own \/ k \notin young[p]
      /\ SetNbr(p, RemoveFromRxmtList(m, {k}))
      /\ lsdb' = [lsdb EXCEPT ![p] = [db EXCEPT ![k] = v]]
      /\ young' = [young EXCEPT ![p] = @ \cup {k}]
      /\ chan' = [chan EXCEPT ![Peer(p)] =
                    @ \o <<FloodPacket(k, v)>>
                      \o (IF own THEN <<FloodPacket(k, v + 1)>> ELSE <<>>)]
      /\ Done(p, k)
      /\ UNCHANGED <<mtu, warm, due, timers, faults>>

\* Step 5.a: a newer instance within MinLSArrival of the last one is dropped.
DropEarlyLSA(p, k) ==
  /\ MoreRecent(hand[p][k], lsdb[p][k]) /\ lsdb[p][k] # 0
  /\ k \notin OwnLsas(p) /\ k \in young[p]
  /\ Done(p, k)
  /\ UNCHANGED <<mtu, nbr, lsdb, young, warm, due, timers, chan, faults>>

\* Step 6: an older instance of an LSA on the request list; the rest of the
\* packet is dropped.
BadLSRequest(p, k) ==
  LET m == RestartExchange(nbr[p])
  IN  /\ hand[p][k] < lsdb[p][k] /\ nbr[p].req[k] # 0
      /\ SetNbr(p, m)
      /\ Schedule(p, EventCalls(nbr[p], m))
      /\ hand' = [hand EXCEPT ![p] = NoHeaders]
      /\ UNCHANGED <<mtu, lsdb, young, warm, timers, chan, faults>>

\* Step 8: an older instance.  m_lastLsuSendTime is never set, so that the guard
\* "at least MinLSArrival after the last one" is about the start of the program.
AnswerOldLSA(p, k) ==
  /\ hand[p][k] < lsdb[p][k] /\ nbr[p].req[k] = 0
  /\ SetNbr(p, IF warm THEN AddRxmtList(nbr[p], {k}) ELSE nbr[p])
  /\ Done(p, k)
  /\ UNCHANGED <<mtu, lsdb, young, warm, due, timers, chan, faults>>

\* Step 7: the same instance is an implied acknowledgment of an LSA on the
\* retransmission list, and is acknowledged otherwise.
SameLSA(p, k) ==
  /\ hand[p][k] = lsdb[p][k]
  /\ IF k \in nbr[p].rxmt
     THEN /\ SetNbr(p, RemoveFromRxmtList(nbr[p], {k}))
          /\ UNCHANGED chan
     ELSE /\ Send(p, [type |-> "Ack", headers |-> Pick(lsdb[p], {k})])
          /\ UNCHANGED nbr
  /\ Done(p, k)
  /\ UNCHANGED <<mtu, lsdb, young, warm, due, timers, faults>>

HandleLSA(p) ==
  \E k \in Listed(hand[p]) :
    \/ InstallLSA(p, k)
    \/ DropEarlyLSA(p, k)
    \/ BadLSRequest(p, k)
    \/ AnswerOldLSA(p, k)
    \/ SameLSA(p, k)

AckedAnyInstance(p, h) == Listed(h)   \* bug: instances not compared

\* The acknowledged LSAs whose listed instance is the one acknowledged.
Acked(p, h) == {k \in Listed(h) : h[k] = lsdb[p][k]}

ReceiveLinkStateAckPacket(p) ==
  LET h == Head(chan[p]).headers
  IN  /\ Arrives(p, "Ack") /\ Consume(p)
      /\ SetNbr(p, IF nbr[p].state \in Synchronizing
                   THEN RemoveFromRxmtList(Known(p), Acked(p, h)) ELSE Known(p))
      /\ UNCHANGED <<mtu, lsdb, young, warm, due, hand, timers, faults>>

-----------------------------------------------------------------------------
(* The environment                                                          *)

\* The link drops the oldest packet (its queue is full, or the medium loses it).
Lose(p) ==
  /\ chan[p] # <<>> /\ faults.loss < MaxLoss
  /\ Consume(p)
  /\ faults' = [faults EXCEPT !.loss = @ + 1]
  /\ UNCHANGED <<mtu, nbr, lsdb, young, warm, due, hand, timers>>

MinLSArrivalPasses ==
  /\ ~warm \/ \E p \in Router : young[p] # {}
  /\ \A p \in Router : Idle(p)
  /\ warm' = TRUE
  /\ young' = [p \in Router |-> {}]
  /\ UNCHANGED <<mtu, nbr, lsdb, due, hand, timers, chan, faults>>

\* Another link of p delivers a newer instance of a foreign LSA, which p installs
\* and floods over this link, whatever the state of the neighbour here.
ForeignUpdate(p) ==
  \E k \in Foreign, v \in 1..MaxForeign :
    LET n == nbr[p]
        m == IF k \in OffLink THEN n ELSE AnswerRequest(n, p, k, v)
        db == Reoriginate(lsdb[p], OriginatedBy(n, m, p))
    IN  /\ p \in Transit /\ hand[p] = NoHeaders /\ HasRoom(p)
        /\ MoreRecent(v, lsdb[p][k])
        /\ lsdb[p][k] = 0 \/ k \notin young[p]
        /\ SetNbr(p, RemoveFromRxmtList(m, {k}))
        /\ lsdb' = [lsdb EXCEPT ![p] = [db EXCEPT ![k] = v]]
        /\ young' = [young EXCEPT ![p] = @ \cup {k}]
        /\ IF k \in OffLink THEN UNCHANGED chan
           ELSE Send(p, FloodPacket(k, v))
        /\ UNCHANGED <<mtu, warm, due, hand, timers, faults>>

\* An adjacency of p on another link becomes FULL: p originates its router-LSA and
\* prefix-LSA, and adds them to this neighbour's list whatever its state.
OriginateElsewhere(p) ==
  LET ks == OwnLsas(p) \ {<<"link", p>>}
  IN  /\ p \in Transit /\ hand[p] = NoHeaders
      /\ lsdb[p][RouterLsa(p)] < MaxOwn
      /\ lsdb' = [lsdb EXCEPT ![p] = Reoriginate(@, ks)]
      /\ SetNbr(p, IF nbr[p].known THEN AddRxmtList(nbr[p], ks) ELSE nbr[p])
      /\ UNCHANGED <<mtu, young, warm, due, hand, timers, chan, faults>>

-----------------------------------------------------------------------------
Receive(p) ==
  \/ ReceiveHelloPacket(p)
  \/ ReceiveDDIgnored(p)
  \/ ReceiveDDNegotiate(p)
  \/ ReceiveDDMismatch(p)
  \/ ReceiveDDAsMaster(p)
  \/ ReceiveDDAsSlave(p)
  \/ ReceiveLinkStateRequestPacket(p)
  \/ ReceiveLinkStateUpdatePacket(p)
  \/ ReceiveLinkStateAckPacket(p)

RunDue(p) ==
  \/ SendInitialDD(p)
  \/ SendDD(p)
  \/ SendLSR(p)
  \/ SendLSUDirect(p)
  \/ EntryPoint(p)

Next ==
  \/ \E p \in Router :
       \/ Receive(p)
       \/ RunDue(p)
       \/ HandleLSA(p)
       \/ SendHelloPacket(p)
       \/ LSRTimer(p)
       \/ ClearLastPacket(p)
       \/ EntryPointTimer(p)
       \/ InactivityTimer(p)
       \/ Lose(p)
       \/ ForeignUpdate(p)
       \/ OriginateElsewhere(p)
  \/ MinLSArrivalPasses

Spec == Init /\ [][Next]_vars

(***************************************************************************)
(* Fairness: the simulator runs every event it holds, and the periodic      *)
(* timers are set again each time they expire.  The timers that send are    *)
(* strongly fair because the bound MaxInFlight, which the code does not     *)
(* have, may disable them in between, and so is the passing of time, which  *)
(* waits for the calls of the current instant.  Nothing is assumed of       *)
(* losses, expired inactivity timers and the other links.                   *)
(***************************************************************************)
Fairness ==
  /\ \A p \in Router :
       /\ WF_vars(Receive(p))
       /\ WF_vars(RunDue(p))
       /\ WF_vars(HandleLSA(p))
       /\ SF_vars(SendHelloPacket(p))
       /\ SF_vars(LSRTimer(p))
       /\ SF_vars(EntryPointTimer(p))
  /\ SF_vars(MinLSArrivalPasses)
FairSpec == Spec /\ Fairness

-----------------------------------------------------------------------------
(* Safety                                                                   *)

\* The larger router id is the master: a router that exchanges databases has the
\* role its id gives it (ReceiveDatabaseDescriptionPacket, SetAsMaster, SetAsSlave).
RoleById ==
  \A p \in Router :
    nbr[p].state \in Synchronizing => (nbr[p].master <=> p > Peer(p))

\* While both ends exchange, the slave answers the packet the master sent last: its
\* DD sequence number is the master's or one behind.
Lockstep ==
  \A p \in Router :
    /\ p > Peer(p)
    /\ nbr[p].state = "EXCHANGE" /\ nbr[Peer(p)].state = "EXCHANGE"
    => nbr[Peer(p)].seq \in {nbr[p].seq - 1, nbr[p].seq}

\* Every statement p has made or is about to make of an LSA, in a packet, a scheduled
\* call or the summary list.
Elements(q) == {q[i] : i \in DOMAIN q}
SaidBy(p) ==
  {nbr[p].summary}
    \cup {c.headers : c \in {d \in Elements(due[p]) : d.call = "SendLSU"}}
    \cup {m.headers : m \in {d \in Elements(chan[Peer(p)]) : d.type \in {"DD", "LSU", "Ack"}}}
AtMost(h, g) == \A k \in Lsas : h[k] <= g[k]

\* What a router says of an LSA its database backs, in that version or a newer one,
\* however long the packet was on its way; so does the neighbour for what a router
\* still handles or requests (SendDD, SendLSU, SendLSAck, ReceiveDD).
Backed ==
  \A p \in Router :
    /\ \A h \in SaidBy(p) : AtMost(h, lsdb[p])
    /\ AtMost(hand[p], lsdb[Peer(p)])
    /\ AtMost(nbr[p].req, lsdb[Peer(p)])

\* No router holds a newer instance than the originator, so that step 5.f of the
\* flooding procedure (a newer self-originated LSA) is never reached on one link.
CopiesNotAhead ==
  \A p \in Router : \A k \in OwnLsas(p) : lsdb[Peer(p)][k] <= lsdb[p][k]

\* A Link State Request never names an LSA the receiver lacks, so that handling one
\* never restarts the exchange (BAD_LS_REQ in ReceiveLinkStateRequestPacket).
RequestsAnswerable ==
  \A p \in Router : \A i \in DOMAIN chan[p] :
    chan[p][i].type = "LSR" => chan[p][i].ids \subseteq Listed(lsdb[p])

\* A router never asks the other one for an LSA of its own, so that its own
\* originations never meet the request list in AppendToRxmtList.
OwnNeverRequested ==
  \A p \in Router : \A k \in OwnLsas(p) : nbr[p].req[k] = 0

\* Flooding of a router's own LSAs is reliable while it is FULL: the neighbour has
\* the current instance or it is still on the retransmission list, whatever
\* acknowledgments of older instances arrive.
OwnLsaCovered ==
  \A p \in Router : nbr[p].state = "FULL" =>
    \A k \in OwnLsas(p) : k \in nbr[p].rxmt \/ lsdb[Peer(p)][k] = lsdb[p][k]

\* A router that is FULL has every LSA that the neighbour originates, except those
\* that a slave has not described yet: its More flag is the master's, so that the
\* exchange ends with what is left on its Database Summary List unsaid.
FullKnowsDescribed ==
  \A p \in Router : nbr[p].state = "FULL" =>
    OwnLsas(Peer(p)) \subseteq Listed(lsdb[p]) \cup
      (IF p > Peer(p) THEN Listed(nbr[Peer(p)].summary) ELSE {})

\* A Link-LSA of another link stays on that link's routers (the link-local scope
\* tests of NEGOT_DONE and AppendToRxmtList).
LinkScope ==
  \A p \in Router \ Transit : \A k \in OffLink : lsdb[p][k] = 0

\* SendDatabaseDescriptionPacket never dereferences a last packet that is missing,
\* or that ClearLastPacket has reset.
LastPacketPresent ==
  \A p \in Router : \A i \in DOMAIN due[p] :
    due[p][i] = SendDDCall(FALSE) => nbr[p].last.has

\* Neighbours whose MTUs differ never become FULL, on either side: the one that
\* drops the other's packets keeps both from finishing.
MtuMismatchNeverFull ==
  (\E p \in Router : mtu[p] # mtu[Peer(p)]) => \A p \in Router : nbr[p].state # "FULL"

\* The database never forgets an LSA and never goes back to an older instance.
NeverRegresses ==
  [][\A p \in Router : AtMost(lsdb[p], lsdb'[p])]_vars

\* Without an expired inactivity timer two routers exchange their databases once: no
\* interleaving, loss or flooding makes one of them raise SEQ_NUM_MISMATCH or BAD_LS_REQ.
SynchronizesOnce ==
  [][faults'.inactive = 0 => \A p \in Router :
       nbr[p].state \in Synchronizing => nbr'[p].state \in Synchronizing]_vars

\* The databases replicate every LSA of the two routers as LsdbReplication says, its
\* versions being the instances and this link the only one: whatever is exchanged,
\* requested, flooded or retransmitted, a router only learns what the other one has.
Copies(k) == [r \in Router |-> lsdb[r][k]]
Replica(p, k) == INSTANCE LsdbReplication WITH
  Router <- Router, Origin <- p, Link <- {<<r, Peer(r)>> : r \in Router}, copy <- Copies(k)
DatabasesReplicate ==
  /\ \A p \in Router : \A k \in OwnLsas(p) : Replica(p, k)!Init
  /\ [][\A p \in Router : \A k \in OwnLsas(p) : [Replica(p, k)!Next]_(Copies(k))]_lsdb

-----------------------------------------------------------------------------
(* Liveness                                                                 *)

AllFull == \A p \in Router : nbr[p].state = "FULL"
Agree(ks) == \A k \in ks : \A p \in Router : lsdb[p][k] = lsdb[Peer(p)][k]

\* While no packet is lost and no router dies, two routers with the same MTU come up
\* and stay FULL.
AdjacencyForms ==
  (\A p \in Router : mtu[p] = mtu[Peer(p)]) /\ [](faults = [loss |-> 0, inactive |-> 0])
    => <>[]AllFull

\* LOADING is left whatever the link loses, because requests are sent again.
LoadingEnds ==
  \A p \in Router : nbr[p].state = "LOADING" ~> nbr[p].state # "LOADING"

\* Once both ends stay FULL, the retransmissions bring each router the other one's
\* own LSAs in their last instance, although updates may be lost or come too early.
OwnLsasDelivered == <>[]AllFull => <>[]Agree(Kinds \X Router)

-----------------------------------------------------------------------------
(* What the repository's notes say of the program and the code does not do  *)

\* _MEMO.md: the Database Summary List is the complete list of the LSAs of the
\* database, and the Database Description packets send this list.
SummarySent ==
  \A p \in Router :
    nbr[p].state \in {"LOADING", "FULL"} /\ Idle(p) => nbr[p].summary = NoHeaders

\* _MEMO.md: ... so that a router that is FULL has every LSA the neighbour originates.
FullKnowsNeighbour ==
  \A p \in Router : nbr[p].state = "FULL" =>
    OwnLsas(Peer(p)) \subseteq Listed(lsdb[p])

\* _MEMO.md: every LSA is acknowledged on its own to make flooding reliable, so that
\* routers that stay FULL end with the same foreign LSAs.
FloodingReliable == <>[]AllFull => <>[]Agree(Foreign \ OffLink)
=============================================================================
