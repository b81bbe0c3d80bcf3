---------------------------- MODULE PacketTransfer ----------------------------
(****************************************************************************)
(* Packets from hop to hop: what a router puts into updates, and whether    *)
(* the next router reads what was meant.                                    *)
(*                                                                          *)
(* A router holds LSAs. Its neighbour gets them in one of two ways: it      *)
(* requests them and SendLinkStateUpdatePacketDirect answers, or they are   *)
(* on the retransmission list and are sent until they are acknowledged.     *)
(* Then the neighbour is the router that holds them, and so on. Between     *)
(* two such rounds other packets are sent as well. One packet is on the     *)
(* way at a time and none is lost: what loss does is the matter of          *)
(* OspfAdjacency and LsaFlooding.                                           *)
(****************************************************************************)
EXTENDS PacketFormats

CONSTANTS
    Lists,    \* the LSAs a router may hold: a set of sequences
    Packets,  \* the hellos and database descriptions that may be sent
    MaxBytes, \* mtu - 40
    Hops      \* bound: how many routers pass the LSAs on

ASSUME BytesAssumption == MaxBytes \in Nat \ {0} /\ Hops \in Nat

VARIABLES
    origin,  \* the LSAs of the first router (history)
    held,    \* the LSAs of the router that sends
    list,    \* lsas of SendLinkStateUpdatePacketDirect, or m_lsRxmtList
    mode,    \* "idle", "requested", "direct" or "rxmt"
    has,     \* the LSAs the neighbour has received
    wire,    \* the packet on the way, in bytes
    sent,    \* the packet last sent (history)
    got,     \* the packet last received, as it was read
    meant,   \* that packet as it was sent (history)
    hop,     \* routers passed
    bad      \* a request for an LSA that the database has not (BadLSReq)

vars == <<origin, held, list, mode, has, wire, sent, got, meant, hop, bad>>

None == [type |-> 0]

\* The header that every packet gets; m_packetLength is not used by a sender.
Packet(type, items) ==
    [version |-> 3, type |-> type, length |-> 0, routerId |-> hop + 1,
     areaId |-> 0, instanceId |-> 0, items |-> items]

Send(packet) ==
    /\ \E p \in {packet} : sent' = p /\ wire' = WritePacket(p)
    /\ UNCHANGED <<got, meant>>

Receive(p) == got' = p /\ meant' = sent

\* HandleProtocolMessage looks at the type in the header, and the handler for
\* it reads the packet.
Arriving(type) ==
    IF wire # <<>> /\ Read(OSPFHeader, wire, 0).type = type
    THEN {ReadPacket(wire, order) : order \in Orders}
    ELSE {}

Init ==
    /\ origin \in Lists
    /\ held = origin
    /\ list = <<>>
    /\ mode = "idle"
    /\ has = <<>>
    /\ wire = <<>>
    /\ sent = None
    /\ got = None
    /\ meant = None
    /\ hop = 0
    /\ bad = FALSE
-----------------------------------------------------------------------------
(****************************************************************************)
(* What goes into one update.                                               *)
(****************************************************************************)

\* AgingBeforeFlooding, InfTransDelay being 1.
Aged(lsa) == [lsa EXCEPT !.hdr.age = (@ + 1) % 65536]

AgedAll(lsas) == [i \in DOMAIN lsas |-> Aged(lsas[i])]

\* Of a list, what is at the indices in I.
Selected(s, I) ==
    LET f[k \in 0 .. Len(s)] == IF k = 0 THEN <<>>
                               ELSE IF k \in I THEN Append(f[k - 1], s[k]) ELSE f[k - 1]
    IN  f[Len(s)]

SizeOf(lsas) == Total([i \in DOMAIN lsas |-> LSASize(lsas[i])])

\* bug: the limit is looked at after the LSA was taken
DirectCountLate(lsas) ==
    CHOOSE k \in 0 .. Len(lsas) :
        /\ k > 0 => SizeOf(SubSeq(lsas, 1, k - 1)) < MaxBytes
        /\ k < Len(lsas) => SizeOf(SubSeq(lsas, 1, k)) >= MaxBytes

\* How many LSAs SendLinkStateUpdatePacketDirect takes (of those that come
\* first): while some of the bytes are left.
DirectCount(lsas) ==
    CHOOSE k \in 0 .. Len(lsas) :
        /\ k > 0 => SizeOf(SubSeq(lsas, 1, k)) < MaxBytes
        /\ k < Len(lsas) => SizeOf(SubSeq(lsas, 1, k + 1)) >= MaxBytes

\* bug: a list that is too long for one packet is not begun
RetransmittedIfAll(lsas) == IF SizeOf(lsas) < MaxBytes THEN lsas ELSE <<>>

(* What GetRxmtList takes. The rest of the bytes is unsigned, so it is      *)
(* "<= 0" only when it is 0: a list that jumps over the limit is taken      *)
(* whole.                                                                   *)
Retransmitted(lsas) ==
    LET Exact == {k \in DOMAIN lsas : SizeOf(SubSeq(lsas, 1, k)) = MaxBytes}
    IN  IF Exact = {} THEN lsas
        ELSE SubSeq(lsas, 1, (CHOOSE k \in Exact : \A j \in Exact : k <= j) - 1)
-----------------------------------------------------------------------------
(****************************************************************************)
(* Actions.                                                                 *)
(****************************************************************************)

\* A hello or a database description, before all the rest.
SendPacket ==
    /\ mode = "idle"
    /\ sent = None
    /\ \E p \in Packets : Send(p)
    /\ UNCHANGED <<origin, held, list, mode, has, hop, bad>>

ReceivePacket ==
    /\ \E p \in Arriving(OSPF_TYPE_HELLO)
                  \cup Arriving(OSPF_TYPE_DATABASE_DESCRIPTION) : Receive(p)
    /\ wire' = <<>>
    /\ UNCHANGED <<origin, held, list, mode, has, sent, hop, bad>>

\* The neighbour requests all it was told of.
SendRequest ==
    /\ mode = "idle"
    /\ wire = <<>>
    /\ hop < Hops
    /\ held # <<>>
    /\ Send(Packet(OSPF_TYPE_LINK_STATE_REQUEST,
                   [i \in DOMAIN held |->
                      [type |-> held[i].hdr.type, id |-> held[i].hdr.id,
                       advRtr |-> held[i].hdr.advRtr]]))
    /\ mode' = "requested"
    /\ UNCHANGED <<origin, held, list, has, hop, bad>>

\* The LSAs in the order of the identifiers, or BadLSReq.
ReceiveRequest ==
    /\ \E p \in Arriving(OSPF_TYPE_LINK_STATE_REQUEST) :
          LET Find(id) == {i \in DOMAIN held :
                             Identifier(held[i].hdr) = Identifier(id)}
              Found == \A k \in DOMAIN p.items : Find(p.items[k]) # {}
          IN  /\ Receive(p)
              /\ bad' = ~Found
              /\ list' = IF Found
                         THEN [k \in DOMAIN p.items |->
                                 held[CHOOSE i \in Find(p.items[k]) : TRUE]]
                         ELSE <<>>
              /\ mode' = IF Found THEN "direct" ELSE "idle"
    /\ wire' = <<>>
    /\ UNCHANGED <<origin, held, has, sent, hop>>

\* bug: the LSA that does not fit is popped before the loop ends
SendDirectPopped ==
    /\ mode = "direct"
    /\ wire = <<>>
    /\ list # <<>>
    /\ LET back == Reverse(list)
           k == DirectCount(back)
           left == Len(list) - k
       IN  /\ Send(Packet(OSPF_TYPE_LINK_STATE_UPDATE,
                          AgedAll(SubSeq(back, 1, k))))
           /\ list' = SubSeq(list, 1, IF left > 0 THEN left - 1 ELSE 0)
    /\ UNCHANGED <<origin, held, mode, has, hop, bad>>

\* One run of SendLinkStateUpdatePacketDirect: from the back of lsas. It
\* schedules itself while some are left.
SendDirect ==
    /\ mode = "direct"
    /\ wire = <<>>
    /\ list # <<>>
    /\ LET back == Reverse(list)
           k == DirectCount(back)
       IN  /\ Send(Packet(OSPF_TYPE_LINK_STATE_UPDATE,
                          AgedAll(SubSeq(back, 1, k))))
           /\ list' = SubSeq(list, 1, Len(list) - k)
    /\ UNCHANGED <<origin, held, mode, has, hop, bad>>

\* The LSAs come on the retransmission list of the neighbour.
Flood ==
    /\ mode = "idle"
    /\ wire = <<>>
    /\ hop < Hops
    /\ held # <<>>
    /\ mode' = "rxmt"
    /\ list' = held
    /\ UNCHANGED <<origin, held, has, wire, sent, got, meant, hop, bad>>

\* SendLinkStateUpdatePacket. The LSAs on the list are those that are sent:
\* they age as well.
SendRetransmission ==
    /\ mode = "rxmt"
    /\ wire = <<>>
    /\ list # <<>>
    /\ LET part == AgedAll(Retransmitted(list))
       IN  /\ Send(Packet(OSPF_TYPE_LINK_STATE_UPDATE, part))
           /\ list' = part \o SubSeq(list, Len(part) + 1, Len(list))
    /\ UNCHANGED <<origin, held, mode, has, hop, bad>>

\* The neighbour keeps what it has not got yet, and acknowledges all of it
\* with the headers as they came.
ReceiveUpdate ==
    /\ \E p \in Arriving(OSPF_TYPE_LINK_STATE_UPDATE) :
          /\ has' = has \o Selected(p.items,
                {k \in DOMAIN p.items : \A i \in DOMAIN has :
                   Identifier(has[i].hdr) # Identifier(p.items[k].hdr)})
          /\ Receive(p)
          /\ sent' = Packet(OSPF_TYPE_LINK_STATE_ACK,
                            [i \in DOMAIN p.items |-> p.items[i].hdr])
          /\ wire' = WritePacket(sent')
    /\ UNCHANGED <<origin, held, list, mode, hop, bad>>

ReceiveAck ==
    /\ \E p \in Arriving(OSPF_TYPE_LINK_STATE_ACK) :
          /\ Receive(p)
          /\ list' = IF mode = "rxmt"
                     THEN Selected(list,
                            {k \in DOMAIN list : \A i \in DOMAIN p.items :
                               \/ Identifier(p.items[i]) # Identifier(list[k].hdr)
                               \/ p.items[i].seqNum # list[k].hdr.seqNum})
                     ELSE list
    /\ wire' = <<>>
    /\ UNCHANGED <<origin, held, mode, has, sent, hop, bad>>

\* Nothing is left to send: the neighbour is the next to pass the LSAs on.
Forward ==
    /\ mode \in {"direct", "rxmt"}
    /\ list = <<>>
    /\ wire = <<>>
    /\ held' = has
    /\ has' = <<>>
    /\ mode' = "idle"
    /\ hop' = hop + 1
    /\ UNCHANGED <<origin, list, wire, sent, got, meant, bad>>

Transfer ==
    \/ ReceivePacket
    \/ ReceiveRequest
    \/ SendDirect
    \/ SendRetransmission
    \/ ReceiveUpdate
    \/ ReceiveAck
    \/ Forward

Next == Transfer \/ SendPacket \/ SendRequest \/ Flood

Spec == Init /\ [][Next]_vars
\* Calls that are scheduled run, and packets arrive.
FairSpec == Spec /\ WF_vars(Transfer)
-----------------------------------------------------------------------------
(****************************************************************************)
(* Properties.                                                              *)
(****************************************************************************)

\* The numbers that w bytes hold.
Power(w) == 256 ^ w
UInt(w) == 0 .. Power(w) - 1

(* The members hold what their declarations allow: bytes on the wire,       *)
(* identifiers and numbers of the LSAs within their widths, and a mode that *)
(* goes with the packet on the way.                                         *)
TypeOK ==
    /\ mode \in {"idle", "requested", "direct", "rxmt"}
    /\ hop \in 0 .. Hops
    /\ bad \in BOOLEAN
    /\ \A i \in DOMAIN wire : wire[i] \in UInt(1)
    /\ \A lsas \in {held, list, has} :
          \A i \in DOMAIN lsas :
             /\ lsas[i].hdr.age \in UInt(2)
             /\ lsas[i].hdr.type \in {OSPF_LSA_TYPE_ROUTER, OSPF_LSA_TYPE_LINK,
                                      OSPF_LSA_TYPE_INTRA_AREA_PREFIX}
             /\ lsas[i].hdr.type = OSPF_LSA_TYPE_LINK =>
                  lsas[i].body.rtrPriority \in UInt(1)
    /\ mode = "requested" => wire # <<>>
    /\ mode = "idle" => list = <<>>

\* What an LSA tells, its age and the members that are set when it is written
\* left out. The priority in a Link-LSA is left out too: it is written as one
\* byte and read as two, so that 1 becomes 0.
Told(lsa) ==
    [hdr |-> [lsa.hdr EXCEPT !.length = 0, !.age = 0],
     body |-> IF lsa.hdr.type = OSPF_LSA_TYPE_LINK
              THEN [lsa.body EXCEPT !.rtrPriority = 0] ELSE lsa.body]

ToldAll(lsas) == {Told(lsas[i]) : i \in DOMAIN lsas}

(* A packet is read as it was meant: all members, and all items in their    *)
(* order with the age they were sent with, whatever mix of LSAs an update   *)
(* carries and although the numbers of links, headers, neighbours and       *)
(* identifiers are not written but computed from lengths (Serialize and     *)
(* Deserialize of all classes). Of requests it is true only if arguments    *)
(* are evaluated from the left: see RequestsServed.                         *)
PacketsArrive ==
    got # None =>
        /\ DOMAIN got = DOMAIN meant
        /\ \A f \in DOMAIN meant \ {"length", "items"} : got[f] = meant[f]
        /\ IF meant.type # OSPF_TYPE_LINK_STATE_UPDATE
           THEN got.items = meant.items
           ELSE /\ Len(got.items) = Len(meant.items)
                /\ \A i \in DOMAIN meant.items :
                      /\ Told(got.items[i]) = Told(meant.items[i])
                      /\ got.items[i].hdr.age = meant.items[i].hdr.age

(* GetSerializedSize is the number of bytes that Serialize writes, for the  *)
(* packet and for the LSAs in it: the room that AddHeader reserves, the     *)
(* length the receiver computes with, and the sizes that are compared with  *)
(* the MTU are all this number.                                             *)
LengthsTold ==
    wire # <<>> =>
        /\ Len(wire) = PacketSize(sent)
        /\ Number(wire, 2, 2) = Len(wire)
        /\ sent.type = OSPF_TYPE_LINK_STATE_UPDATE =>
              \A i \in DOMAIN sent.items :
                 Len(WriteLSA(sent.items[i])) = LSASize(sent.items[i])

(* Every router that passes LSAs on holds each of those of the first one    *)
(* once and no other, also when they took several updates, were requested   *)
(* by identifier or came off the retransmission list by acknowledgments     *)
(* (lines 1053-1067, 1939-1941 and 1979-2002 of ipv6-ospf-routing.cc), and  *)
(* no request is refused.                                                   *)
HoldersAgree ==
    /\ ToldAll(held) = ToldAll(origin)
    /\ Len(held) = Len(origin)
    /\ ~bad

(* An update that answers a request exceeds the MTU by less than the 20     *)
(* bytes of the header and the number of LSAs, which the limit forgets      *)
(* (lines 1977-1983). IPv6 fragments the packet then.                       *)
DirectFits ==
    mode = "direct" /\ wire # <<>> => Len(wire) < MaxBytes + 20

(* What is to be sent is delivered in the end: the call that answers a      *)
(* request schedules itself until nothing is left, and the retransmission   *)
(* list is emptied by acknowledgments, however many updates it takes. This  *)
(* needs every LSA to be smaller than MaxBytes.                             *)
Delivered == mode # "idle" ~> mode = "idle"

(* A router is only asked for LSAs that are in its database ("should be in   *)
(* the router's database", line 1042). It has told the neighbour of them,   *)
(* but whether the identifiers arrive is up to the order in which the       *)
(* compiler evaluates the arguments of one call.                            *)
RequestsServed == ~bad
=============================================================================
