--------------------------- MODULE MCPacketTransfer ---------------------------
(****************************************************************************)
(* PacketTransfer for TLC: small LSAs of every kind.                        *)
(****************************************************************************)
EXTENDS PacketTransfer

Header(type, id, seqNum) ==
    [age |-> 0, type |-> type, id |-> id, advRtr |-> 1, seqNum |-> seqNum,
     checksum |-> 0, length |-> 0]

\* 2001:db8::1 and the like, in words.
Address(k) == <<536939960, 65537 * k, 3, k>>

\* AddPrefix of the two classes.
Prefix(length) ==
    [length |-> length, options |-> 0, address |-> Combine(Address(1), length)]
MetricPrefix(length, metric) ==
    [length |-> length, options |-> 0, metric |-> metric,
     address |-> Combine(Address(2), length)]

Link(k) == [type |-> 1, metric |-> 1000 * k, interfaceId |-> k,
            neighborInterfaceId |-> k + 1, neighborRouterId |-> k + 1]

RouterLSA(id, n) ==
    [hdr |-> Header(OSPF_LSA_TYPE_ROUTER, id, 300 + n),
     body |-> [options |-> 19, links |-> [k \in 1 .. n |-> Link(k)]]]
LinkLSA(id, lengths) ==
    [hdr |-> Header(OSPF_LSA_TYPE_LINK, id, 1),
     body |-> [rtrPriority |-> 1, options |-> 19, address |-> Address(7),
               prefixes |-> [k \in DOMAIN lengths |-> Prefix(lengths[k])]]]
AreaPrefixLSA(id, lengths) ==
    [hdr |-> Header(OSPF_LSA_TYPE_INTRA_AREA_PREFIX, id, 70000),
     body |-> [refType |-> OSPF_LSA_TYPE_ROUTER, refId |-> 0, refAdvRtr |-> 1,
               prefixes |-> [k \in DOMAIN lengths |->
                               MetricPrefix(lengths[k], 256 * k)]]]

\* LSAs of 24, 40, 56, 56, 44 and 76 bytes.
LSAs == {RouterLSA(1, 0), RouterLSA(2, 1), RouterLSA(3, 2),
         LinkLSA(1, <<64>>),
         AreaPrefixLSA(1, <<64>>), AreaPrefixLSA(2, <<48, 0, 128>>)}

\* All lists of one or two LSAs, and of two behind the longest.
Longest == AreaPrefixLSA(2, <<48, 0, 128>>)
SmallLists ==
    {<<l>> : l \in LSAs}
      \cup {p \in LSAs \X LSAs : p[1] # p[2]}
      \cup {<<Longest, p[1], p[2]>> :
              p \in {p \in (LSAs \ {Longest}) \X (LSAs \ {Longest}) :
                       p[1] # p[2]}}

Common == [version |-> 3, length |-> 0, routerId |-> 9, areaId |-> 0,
           instanceId |-> 0]
HelloPacket(neighbours) ==
    [type |-> OSPF_TYPE_HELLO, interfaceId |-> 70000, routerPriority |-> 1,
     options |-> 19, helloInterval |-> 10, routerDeadInterval |-> 40,
     designatedRouterId |-> 0, backupDesignatedRouterId |-> 9,
     items |-> neighbours] @@ Common
DDPacket(init, more, master, headers) ==
    [type |-> OSPF_TYPE_DATABASE_DESCRIPTION, options |-> 19, mtu |-> 1500,
     initFlag |-> init, moreFlag |-> more, masterFlag |-> master,
     ddSeqNum |-> 65537, items |-> headers] @@ Common

SmallPackets ==
    {HelloPacket(n) : n \in {<<>>, <<2>>, <<2, 70000, 3>>}}
      \cup {DDPacket(1, 1, 1, <<>>), DDPacket(0, 1, 0, <<Header(8, 3, 5)>>),
            DDPacket(0, 0, 1, <<Header(8193, 2, 7), Header(8201, 1, 300)>>)}
=============================================================================
