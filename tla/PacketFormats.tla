---------------------------- MODULE PacketFormats ----------------------------
(****************************************************************************)
(* Serialize, Deserialize and GetSerializedSize of the packets and of the   *)
(* LSAs they carry.                                                         *)
(*                                                                          *)
(* A buffer is a sequence of bytes. The members that are written one after  *)
(* the other are listed once, as a layout: a sequence of fields, each a     *)
(* name and a number of bytes; a field without a name is written as 0 and   *)
(* read without effect. Where Deserialize reads something else than         *)
(* Serialize writes there are two layouts.                                  *)
(*                                                                          *)
(* An object is a record with its members; an LSA is [hdr, body], a packet  *)
(* a record with the members of its class and "items", the vector it        *)
(* carries. m_packetLength and m_length are the members "length".           *)
(****************************************************************************)
EXTENDS Naturals, Sequences, SequencesExt

CONSTANT
    Orders  \* in which orders the compiler evaluates arguments: a subset of
            \* {"left", "right"}, for left-most and right-most first

ASSUME OrdersAssumption == Orders \subseteq {"left", "right"}
-----------------------------------------------------------------------------
(****************************************************************************)
(* Buffer::Iterator of ns-3, and layouts.                                   *)
(****************************************************************************)

\* WriteU8, WriteHtonU16 and WriteHtonU32: v cut to w bytes, the high one first.
Word(w, v) == [k \in 1 .. w |-> (v \div 256 ^ (w - k)) % 256]

\* ReadU8, ReadNtohU16 and ReadNtohU32: the number in the w bytes from at + 1.
Number(s, at, w) ==
    LET n[k \in 0 .. w] == IF k = 0 THEN 0 ELSE 256 * n[k - 1] + s[at + k]
    IN  n[w]

Total(ns) ==
    LET t[k \in 0 .. Len(ns)] == IF k = 0 THEN 0 ELSE t[k - 1] + ns[k]
    IN  t[Len(ns)]

\* F(1) to F(n) in a sequence (and not in a function that TLC evaluates again
\* wherever it is applied).
Listed(n, F(_)) == [k \in 1 .. n |-> F(k)] \o <<>>

\* A record with the members of both. (They are bound for TLC to evaluate them once.)
Joined(r, q) ==
    LET Join(a, b) ==
          [f \in DOMAIN a \cup DOMAIN b |-> IF f \in DOMAIN a THEN a[f] ELSE b[f]]
    IN  CHOOSE j \in {Join(a, b) : a \in {r}, b \in {q}} : TRUE

Width(layout) == Total([i \in DOMAIN layout |-> layout[i][2]])

Write(layout, r) ==
    FlattenSeq([i \in DOMAIN layout |->
        Word(layout[i][2], IF layout[i][1] = "" THEN 0 ELSE r[layout[i][1]])])

Read(layout, s, at) ==
    LET Fields == {i \in DOMAIN layout : layout[i][1] # ""}
        Field(name) == CHOOSE i \in Fields : layout[i][1] = name
    IN  [name \in {layout[i][1] : i \in Fields} |->
            LET i == Field(name)
            IN  Number(s, at + Width(SubSeq(layout, 1, i - 1)), layout[i][2])]
-----------------------------------------------------------------------------
(****************************************************************************)
(* LSAs.                                                                    *)
(****************************************************************************)

OSPF_LSA_TYPE_ROUTER == 8193
OSPF_LSA_TYPE_LINK == 8
OSPF_LSA_TYPE_INTRA_AREA_PREFIX == 8201

LSAHeader == <<<<"age", 2>>, <<"type", 2>>, <<"id", 4>>, <<"advRtr", 4>>,
               <<"seqNum", 4>>, <<"checksum", 2>>, <<"length", 2>>>>
LSAHeaderStart == SubSeq(LSAHeader, 1, 6)

Identifier(hdr) == <<hdr.type, hdr.id, hdr.advRtr>>

\* Router-LSA: options, and links whose number is not written.
RouterLink == <<<<"type", 1>>, <<"", 1>>, <<"metric", 2>>, <<"interfaceId", 4>>,
                <<"neighborInterfaceId", 4>>, <<"neighborRouterId", 4>>>>

RouterLSASize(body) == 4 + 16 * Len(body.links)

WriteRouterLSA(body) ==
    Word(4, body.options)
      \o FlattenSeq([i \in DOMAIN body.links |-> Write(RouterLink, body.links[i])])

ReadRouterLSA(s, at, remainBytes) ==
    LET ReadLink(i) == Read(RouterLink, s, at + 4 + 16 * (i - 1))
    IN  [options |-> Number(s, at, 4),
         links |-> Listed((remainBytes - 4) \div 16, ReadLink)]

(* Prefixes: as many 32-bit words of the address as the length needs. The   *)
(* rest of the address is zero: AddPrefix has cut it.                       *)
PrefixWords(length) == (length + 31) \div 32

PrefixSize(p) == 4 + 4 * PrefixWords(p.length)

PrefixBytes(p) ==
    FlattenSeq([k \in 1 .. PrefixWords(p.length) |-> Word(4, p.address[k])])

WritePrefixes(layout, prefixes) ==
    FlattenSeq([i \in DOMAIN prefixes |->
        Write(layout, prefixes[i]) \o PrefixBytes(prefixes[i])])

\* The positions of n objects, the first at start, and the one after an object
\* at end[position of the object].
Positions(start, end, n) ==
    LET at[k \in 1 .. n] == IF k = 1 THEN start ELSE end[at[k - 1]]
    IN  at

ReadPrefix(layout, s, at) ==
    LET AddressWord(k) == IF k <= PrefixWords(s[at + 1])
                          THEN Number(s, at + 4 * k, 4) ELSE 0
    IN  Joined(Read(layout, s, at), [address |-> Listed(4, AddressWord)])

ReadPrefixes(layout, s, start, n) ==
    LET prefix == [at \in 0 .. Len(s) |-> ReadPrefix(layout, s, at)]
        end == [at \in 0 .. Len(s) |-> at + PrefixSize(prefix[at])]
        Kth(k) == prefix[Positions(start, end, n)[k]]
    IN  Listed(n, Kth)

\* CombinePrefix: the words of an address, cut to the length of the prefix.
Combine(address, length) ==
    [k \in 1 .. 4 |->
        IF length >= 32 * k THEN address[k]
        ELSE IF length <= 32 * (k - 1) THEN 0
        ELSE address[k] - (address[k] % 2 ^ (32 * k - length))]

\* Link-LSA. The priority is the first byte of the word of the options; it is
\* read as 16 bits, kept as 8, and the options are the 16 bits after them.
LinkPrefix == <<<<"length", 1>>, <<"options", 1>>, <<"", 2>>>>

LinkFixed == <<<<"rtrPriority", 1>>, <<"options", 3>>>>

LinkLSASize(body) ==
    24 + Total([i \in DOMAIN body.prefixes |-> PrefixSize(body.prefixes[i])])

WriteLinkLSA(body) ==
    Write(LinkFixed, body)
      \o FlattenSeq([k \in 1 .. 4 |-> Word(4, body.address[k])])
      \o Word(4, Len(body.prefixes))
      \o WritePrefixes(LinkPrefix, body.prefixes)

\* bug: the priority is kept as it was read
ReadLinkLSAWide(s, at) ==
    [rtrPriority |-> Number(s, at, 2),
     options |-> Number(s, at + 2, 2),
     address |-> <<Number(s, at + 4, 4), Number(s, at + 8, 4),
                   Number(s, at + 12, 4), Number(s, at + 16, 4)>>,
     prefixes |-> ReadPrefixes(LinkPrefix, s, at + 24, Number(s, at + 20, 4))]

ReadLinkLSA(s, at) ==
    [rtrPriority |-> Number(s, at, 2) % 256,
     options |-> Number(s, at + 2, 2),
     address |-> <<Number(s, at + 4, 4), Number(s, at + 8, 4),
                   Number(s, at + 12, 4), Number(s, at + 16, 4)>>,
     prefixes |-> ReadPrefixes(LinkPrefix, s, at + 24, Number(s, at + 20, 4))]

\* Intra-area-prefix-LSA.
AreaPrefix == <<<<"length", 1>>, <<"options", 1>>, <<"metric", 2>>>>

AreaPrefixFixed == <<<<"refType", 2>>, <<"refId", 4>>, <<"refAdvRtr", 4>>>>

\* bug: the fixed part counts without its last member
AreaPrefixLSASizeShort(body) ==
    8 + Total([i \in DOMAIN body.prefixes |-> PrefixSize(body.prefixes[i])])

AreaPrefixLSASize(body) ==
    12 + Total([i \in DOMAIN body.prefixes |-> PrefixSize(body.prefixes[i])])

WriteAreaPrefixLSA(body) ==
    Word(2, Len(body.prefixes)) \o Write(AreaPrefixFixed, body)
      \o WritePrefixes(AreaPrefix, body.prefixes)

ReadAreaPrefixLSA(s, at) ==
    LET fixed == Read(AreaPrefixFixed, s, at + 2)
    IN  [refType |-> fixed.refType, refId |-> fixed.refId,
         refAdvRtr |-> fixed.refAdvRtr,
         prefixes |-> ReadPrefixes(AreaPrefix, s, at + 12, Number(s, at, 2))]

\* The body of an LSA by the type in its header (CreateBody).
BodySize(lsa) ==
    CASE lsa.hdr.type = OSPF_LSA_TYPE_ROUTER -> RouterLSASize(lsa.body)
      [] lsa.hdr.type = OSPF_LSA_TYPE_LINK -> LinkLSASize(lsa.body)
      [] lsa.hdr.type = OSPF_LSA_TYPE_INTRA_AREA_PREFIX
           -> AreaPrefixLSASize(lsa.body)

WriteBody(lsa) ==
    CASE lsa.hdr.type = OSPF_LSA_TYPE_ROUTER -> WriteRouterLSA(lsa.body)
      [] lsa.hdr.type = OSPF_LSA_TYPE_LINK -> WriteLinkLSA(lsa.body)
      [] lsa.hdr.type = OSPF_LSA_TYPE_INTRA_AREA_PREFIX
           -> WriteAreaPrefixLSA(lsa.body)

ReadBody(type, s, at, remainBytes) ==
    CASE type = OSPF_LSA_TYPE_ROUTER -> ReadRouterLSA(s, at, remainBytes)
      [] type = OSPF_LSA_TYPE_LINK -> ReadLinkLSA(s, at)
      [] type = OSPF_LSA_TYPE_INTRA_AREA_PREFIX -> ReadAreaPrefixLSA(s, at)

LSASize(lsa) == Width(LSAHeader) + BodySize(lsa)

\* bug: the length leaves out the header
WriteLSABodyLength(lsa) ==
    Write(LSAHeaderStart, lsa.hdr) \o Word(2, BodySize(lsa)) \o WriteBody(lsa)

\* The length is computed when it is written; the member stays as it was.
WriteLSA(lsa) ==
    Write(LSAHeaderStart, lsa.hdr) \o Word(2, LSASize(lsa)) \o WriteBody(lsa)

ReadLSA(s, at) ==
    LET hdr == Read(LSAHeader, s, at)
        start == at + Width(LSAHeader)
    IN  [hdr |-> hdr,
         body |-> ReadBody(hdr.type, s, start, hdr.length - Width(LSAHeader))]
-----------------------------------------------------------------------------
(****************************************************************************)
(* Packets.                                                                 *)
(****************************************************************************)

OSPF_TYPE_HELLO == 1
OSPF_TYPE_DATABASE_DESCRIPTION == 2
OSPF_TYPE_LINK_STATE_REQUEST == 3
OSPF_TYPE_LINK_STATE_UPDATE == 4
OSPF_TYPE_LINK_STATE_ACK == 5

OSPFHeader == <<<<"version", 1>>, <<"type", 1>>, <<"length", 2>>,
                <<"routerId", 4>>, <<"areaId", 4>>, <<"", 2>>,
                <<"instanceId", 1>>, <<"", 1>>>>
OSPFHeaderStart == SubSeq(OSPFHeader, 1, 2)
OSPFHeaderRest == SubSeq(OSPFHeader, 4, 8)

Hello == <<<<"interfaceId", 4>>, <<"routerPriority", 1>>, <<"options", 3>>,
           <<"helloInterval", 2>>, <<"routerDeadInterval", 2>>,
           <<"designatedRouterId", 4>>, <<"backupDesignatedRouterId", 4>>>>

DatabaseDescription == <<<<"options", 4>>, <<"mtu", 2>>, <<"flags", 2>>,
                         <<"ddSeqNum", 4>>>>

\* m_initFlag, m_moreFlag and m_masterFlag in three bits.
Flags(p) == 4 * p.initFlag + 2 * p.moreFlag + p.masterFlag

\* The identifiers of a request, after 16 bits of zero.
RequestItem == <<<<"", 2>>, <<"type", 2>>, <<"id", 4>>, <<"advRtr", 4>>>>

\* The three reads are arguments of one call: whichever is evaluated first
\* takes the bytes that come first.
ReadIdentifier(s, at, order) ==
    CASE order = "left" ->
           [type |-> Number(s, at + 2, 2), id |-> Number(s, at + 4, 4),
            advRtr |-> Number(s, at + 8, 4)]
      [] order = "right" ->
           [type |-> Number(s, at + 10, 2), id |-> Number(s, at + 6, 4),
            advRtr |-> Number(s, at + 2, 4)]

\* GetSerializedSize of the class of the packet.
PacketSize(p) ==
    Width(OSPFHeader) +
      CASE p.type = OSPF_TYPE_HELLO -> Width(Hello) + 4 * Len(p.items)
        [] p.type = OSPF_TYPE_DATABASE_DESCRIPTION ->
             Width(DatabaseDescription) + Width(LSAHeader) * Len(p.items)
        [] p.type = OSPF_TYPE_LINK_STATE_REQUEST ->
             Width(RequestItem) * Len(p.items)
        [] p.type = OSPF_TYPE_LINK_STATE_UPDATE ->
             4 + Total([i \in DOMAIN p.items |-> LSASize(p.items[i])])
        [] p.type = OSPF_TYPE_LINK_STATE_ACK -> Width(LSAHeader) * Len(p.items)

WritePacketBody(p) ==
    LET Items(F(_)) == FlattenSeq([i \in DOMAIN p.items |-> F(p.items[i])])
        NeighborId(id) == Word(4, id)
        Header(hdr) == Write(LSAHeader, hdr)
        Request(id) == Write(RequestItem, id)
    IN  CASE p.type = OSPF_TYPE_HELLO -> Write(Hello, p) \o Items(NeighborId)
          [] p.type = OSPF_TYPE_DATABASE_DESCRIPTION ->
               Write(DatabaseDescription,
                     [f \in DOMAIN p \cup {"flags"} |->
                        IF f = "flags" THEN Flags(p) ELSE p[f]])
                 \o Items(Header)
          [] p.type = OSPF_TYPE_LINK_STATE_REQUEST -> Items(Request)
          [] p.type = OSPF_TYPE_LINK_STATE_UPDATE ->
               Word(4, Len(p.items)) \o Items(WriteLSA)
          [] p.type = OSPF_TYPE_LINK_STATE_ACK -> Items(Header)

WritePacket(p) ==
    Write(OSPFHeaderStart, p) \o Word(2, PacketSize(p)) \o Write(OSPFHeaderRest, p)
      \o WritePacketBody(p)

\* The LSAs of an update: n of them.
ReadLSAs(s, start, n) ==
    LET lsa == [at \in 0 .. Len(s) |-> ReadLSA(s, at)]
        end == [at \in 0 .. Len(s) |-> at + LSASize(lsa[at])]
        Kth(k) == lsa[Positions(start, end, n)[k]]
    IN  Listed(n, Kth)

\* The members and the items of the class, read after the header. The number
\* of items is what the length leaves, or is written (updates).
ReadPacketBody(hdr, s, order) ==
    LET start == Width(OSPFHeader)
        Items(from, width, F(_)) ==
            LET Item(i) == F(from + width * (i - 1))
            IN  Listed((hdr.length - from) \div width, Item)
        NeighborId(at) == Number(s, at, 4)
        Header(at) == Read(LSAHeader, s, at)
        Request(at) == ReadIdentifier(s, at, order)
    IN  CASE hdr.type = OSPF_TYPE_HELLO ->
               Joined(Read(Hello, s, start),
                      [items |-> Items(start + Width(Hello), 4, NeighborId)])
          [] hdr.type = OSPF_TYPE_DATABASE_DESCRIPTION ->
               LET dd == Read(DatabaseDescription, s, start)
               IN  [options |-> dd.options, mtu |-> dd.mtu,
                    ddSeqNum |-> dd.ddSeqNum,
                    initFlag |-> (dd.flags \div 4) % 2,
                    moreFlag |-> (dd.flags \div 2) % 2,
                    masterFlag |-> dd.flags % 2,
                    items |-> Items(start + Width(DatabaseDescription),
                                    Width(LSAHeader), Header)]
          [] hdr.type = OSPF_TYPE_LINK_STATE_REQUEST ->
               [items |-> Items(start, Width(RequestItem), Request)]
          [] hdr.type = OSPF_TYPE_LINK_STATE_UPDATE ->
               [items |-> ReadLSAs(s, start + 4, Number(s, start, 4))]
          [] hdr.type = OSPF_TYPE_LINK_STATE_ACK ->
               [items |-> Items(start, Width(LSAHeader), Header)]

ReadPacket(s, order) ==
    LET hdr == Read(OSPFHeader, s, 0)
    IN  Joined(hdr, ReadPacketBody(hdr, s, order))
=============================================================================
