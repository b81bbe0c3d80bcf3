--------------------------- MODULE OspfInterfaces ---------------------------
(***************************************************************************)
(* The interfaces of one router: IF_UP and IF_DOWN, the chain of events     *)
(* that sends Hellos, the neighbour table of each interface with its        *)
(* inactivity timer, and the LSAs the router makes about them.              *)
(*                                                                          *)
(* Every interface is point-to-point (NotifyInterfaceUp fixes the type) and *)
(* has one router at its other end, the peer.  Of the neighbour's state,    *)
(* which OspfAdjacency has in full, only DOWN, FULL and what lies between   *)
(* (FORMING) is kept.  ns-3 drops what arrives at an interface that is down. *)
(***************************************************************************)
EXTENDS Naturals, Sequences

CONSTANTS
  Iface,       \* the interfaces of the router, the loopback left out
  MaxPending   \* an interface is taken up only with fewer calls pending

ASSUME PendingAssumption == MaxPending \in Nat

VARIABLES
  active,     \* interfaces in state P2P; the others are DOWN
  entry,      \* the peer in m_neighbors: absent, with its members unset, or known
  nbr,        \* state of that neighbour
  inactivity, \* interfaces whose neighbour's inactivity timer runs
  pending,    \* pending[i]: calls made with ScheduleNow, oldest first
  helloTimer, \* interfaces whose hello timer runs
  routerLSA,  \* the links of the router's router-LSA
  prefixLSA,  \* interfaces whose prefixes its intra-area-prefix-LSA lists
  linkLSA,    \* interfaces with a Link-LSA
  gone,       \* interfaces whose peer has fallen silent for good
  hasty,      \* history: interfaces that went down with a call pending
  aborted     \* ns-3 has ended the simulation with a fatal error

neighbours == <<entry, nbr, inactivity>>
hello == <<pending, helloTimer, aborted>>
lsas == <<routerLSA, prefixLSA, linkLSA>>
vars == <<active, entry, nbr, inactivity, pending, helloTimer, routerLSA, prefixLSA,
          linkLSA, gone, hasty, aborted>>

Call == {"SendHelloPacket", "ScheduleHello"}

\* A link as the router-LSA describes it; "unset" is what the memory held.
RouterLink == [iface : Iface, router : {"peer", "unset"}]

TypeOK ==
  /\ active \subseteq Iface /\ gone \subseteq Iface /\ hasty \subseteq Iface
  /\ entry \in [Iface -> {"absent", "unset", "known"}]
  /\ nbr \in [Iface -> {"DOWN", "FORMING", "FULL"}]
  /\ inactivity \subseteq Iface /\ helloTimer \subseteq Iface
  /\ pending \in [Iface -> Seq(Call)]
  /\ routerLSA \subseteq RouterLink
  /\ prefixLSA \subseteq Iface /\ linkLSA \subseteq Iface
  /\ aborted \in BOOLEAN

\* Start has gone through the interfaces, some of which are down.  For one of those
\* too it has made a Link-LSA, with an interface id that was never set.
Init ==
  /\ active \in SUBSET Iface
  /\ entry = [i \in Iface |-> "absent"]
  /\ nbr = [i \in Iface |-> "DOWN"]
  /\ inactivity = {} /\ helloTimer = {}
  /\ pending = [i \in Iface |-> IF i \in active THEN <<"SendHelloPacket">> ELSE <<>>]
  /\ routerLSA = {} /\ prefixLSA = active
  /\ linkLSA \in SUBSET Iface /\ active \subseteq linkLSA
  /\ gone = {} /\ hasty = {} /\ aborted = FALSE

-----------------------------------------------------------------------------
(* Origination                                                              *)

\* bug: the links of all interfaces
LinksOfAll(up) ==
  {[iface |-> i, router |-> IF entry[i] = "known" THEN "peer" ELSE "unset"] :
     i \in {i \in Iface : entry[i] # "absent"}}
\* bug: the entry itself instead of the router ID in it
LinksToEntries(up) ==
  {[iface |-> i, router |-> entry[i]] : i \in {i \in up : entry[i] # "absent"}}

\* The links of the interfaces that are up, to the neighbour in the table, whatever
\* its state.
Links(up) ==
  {[iface |-> i, router |-> IF entry[i] = "known" THEN "peer" ELSE "unset"] :
     i \in {i \in up : entry[i] # "absent"}}

OriginateRouterLSA(up) == routerLSA' = Links(up)

OriginateRouterSpecificLSAs(i, up) ==
  /\ OriginateRouterLSA(up)
  /\ linkLSA' = linkLSA \cup {i}
  /\ prefixLSA' = up

-----------------------------------------------------------------------------
(* Interface events                                                         *)

NotifyInterfaceUp(i) ==
  /\ i \notin active /\ Len(pending[i]) < MaxPending
  /\ active' = active \cup {i}
  /\ pending' = [pending EXCEPT ![i] = Append(@, "SendHelloPacket")]
  /\ OriginateRouterSpecificLSAs(i, active')
  /\ UNCHANGED <<neighbours, helloTimer, aborted, gone, hasty>>

ResetInstanceKeepsTimer(i) == UNCHANGED helloTimer  \* bug: the timer is not cancelled
ResetInstance(i) == helloTimer' = helloTimer \ {i}

KillNothing(i) == UNCHANGED nbr   \* bug: no KILL_NBR
\* KILL_NBR to every neighbour; its inactivity timer runs on.
KillNeighbors(i) == nbr' = [nbr EXCEPT ![i] = "DOWN"]

NotifyInterfaceDown(i) ==
  /\ i \in active
  /\ active' = active \ {i}
  /\ OriginateRouterSpecificLSAs(i, active')
  /\ ResetInstance(i)
  /\ KillNeighbors(i)
  /\ hasty' = IF pending[i] # <<>> THEN hasty \cup {i} ELSE hasty
  /\ UNCHANGED <<entry, inactivity, pending, aborted, gone>>

-----------------------------------------------------------------------------
(* Sending Hellos: SendHelloPacket asks for ScheduleHello, which starts the *)
(* timer, which calls SendHelloPacket.                                      *)

SendHelloPacket(i) ==
  /\ pending[i] # <<>> /\ Head(pending[i]) = "SendHelloPacket"
  /\ pending' = [pending EXCEPT ![i] = Append(Tail(@), "ScheduleHello")]
  /\ UNCHANGED <<active, neighbours, helloTimer, aborted, lsas, gone, hasty>>

\* A timer that is started while it runs is fatal.
ScheduleHello(i) ==
  /\ pending[i] # <<>> /\ Head(pending[i]) = "ScheduleHello"
  /\ pending' = [pending EXCEPT ![i] = Tail(@)]
  /\ helloTimer' = helloTimer \cup {i}
  /\ aborted' = (i \in helloTimer)
  /\ UNCHANGED <<active, neighbours, lsas, gone, hasty>>

\* HelloInterval later, and all calls of that instant done, it sends the next one.
HelloTimer(i) ==
  /\ i \in helloTimer /\ pending[i] = <<>>
  /\ helloTimer' = helloTimer \ {i}
  /\ pending' = [pending EXCEPT ![i] = Append(@, "ScheduleHello")]
  /\ UNCHANGED <<active, neighbours, aborted, lsas, gone, hasty>>

-----------------------------------------------------------------------------
(* The neighbour                                                            *)

Heard(i) == i \in active \ gone

\* bug: only the first Hello starts the timer
RestartedOnce(i) == IF nbr[i] = "DOWN" THEN inactivity \cup {i} ELSE inactivity \ {i}
Restarted(i) == inactivity \cup {i}

\* ReceiveHelloPacket: the members are set, the timer starts again and a neighbour
\* that was DOWN is in EXSTART at once, its Hello listing this router or not.
ReceiveHelloPacket(i) ==
  /\ Heard(i)
  /\ entry' = [entry EXCEPT ![i] = "known"]
  /\ nbr' = [nbr EXCEPT ![i] = IF @ = "DOWN" THEN "FORMING" ELSE @]
  /\ inactivity' = Restarted(i)
  /\ UNCHANGED <<active, hello, lsas, gone, hasty>>

\* Another packet of a router not heard before: GetNeighbor makes an entry, and
\* the handler drops the packet for the state of the neighbour, DOWN.
ReceiveBeforeHello(i) ==
  /\ Heard(i) /\ entry[i] = "absent"
  /\ entry' = [entry EXCEPT ![i] = "unset"]
  /\ UNCHANGED <<active, nbr, inactivity, hello, lsas, gone, hasty>>

\* The end of an exchange: a slave that was sent the last description.
EndExchange(i) ==
  /\ Heard(i) /\ nbr[i] # "DOWN"
  /\ OriginateRouterLSA(active)
  /\ UNCHANGED <<active, neighbours, hello, prefixLSA, linkLSA, gone, hasty>>

\* EXCHANGE_DONE or LOADING_DONE, which an update that came in on another interface
\* raises too (AppendToRxmtList, 1.b).
BecomeFull(i) ==
  /\ i \in active /\ nbr[i] = "FORMING"
  /\ nbr' = [nbr EXCEPT ![i] = "FULL"]
  /\ OriginateRouterSpecificLSAs(i, active)
  /\ UNCHANGED <<active, entry, inactivity, hello, gone, hasty>>

\* SEQ_NUM_MISMATCH or BAD_LS_REQ: no LSA is made.
LeaveFull(i) ==
  /\ Heard(i) /\ nbr[i] = "FULL"
  /\ nbr' = [nbr EXCEPT ![i] = "FORMING"]
  /\ UNCHANGED <<active, entry, inactivity, hello, lsas, gone, hasty>>

\* RouterDeadInterval without a Hello, from a peer that is gone or whose Hellos were lost.
Inactive(i) ==
  /\ i \in inactivity
  /\ inactivity' = inactivity \ {i}
  /\ nbr' = [nbr EXCEPT ![i] = "DOWN"]
  /\ UNCHANGED <<active, entry, hello, lsas, gone, hasty>>

PeerGone(i) ==
  /\ i \notin gone
  /\ gone' = gone \cup {i}
  /\ UNCHANGED <<active, neighbours, hello, lsas, hasty>>

Next ==
  /\ ~aborted
  /\ \E i \in Iface :
       \/ NotifyInterfaceUp(i) \/ NotifyInterfaceDown(i)
       \/ SendHelloPacket(i) \/ ScheduleHello(i) \/ HelloTimer(i)
       \/ ReceiveHelloPacket(i) \/ ReceiveBeforeHello(i)
       \/ EndExchange(i) \/ BecomeFull(i) \/ LeaveFull(i)
       \/ Inactive(i) \/ PeerGone(i)

Spec == Init /\ [][Next]_vars

(***************************************************************************)
(* Fairness: the inactivity timer of a peer that sends no more Hellos       *)
(* expires, unless the simulation ends before.                              *)
(***************************************************************************)
FairSpec ==
  Spec /\ \A i \in Iface : WF_vars(~aborted /\ i \in gone /\ Inactive(i))

-----------------------------------------------------------------------------
(* Properties                                                               *)

\* An interface that is up has exactly one chain of Hello events and one that is down
\* has none, so that the timer is never started twice, unless the interface was
\* taken down between the events of one instant (ResetInstance cancels the timer and
\* not the calls that are pending).
HelloChains ==
  /\ \A i \in Iface \ hasty :
       Len(pending[i]) + (IF i \in helloTimer THEN 1 ELSE 0)
         = (IF i \in active THEN 1 ELSE 0)
  /\ aborted => hasty # {}

\* The router's LSAs describe the interfaces that are up and no other one, and the
\* router-LSA names every neighbour that is FULL by its router ID: an entry
\* whose members were not set when it was listed is corrected before it is used.
Advertised ==
  /\ \A l \in routerLSA : l.iface \in active
  /\ \A i \in active : nbr[i] = "FULL" => [iface |-> i, router |-> "peer"] \in routerLSA
  /\ prefixLSA = active /\ active \subseteq linkLSA

\* A neighbour that is not DOWN is known, on an interface that is up, and its
\* inactivity timer runs, whatever went down and came up again before.
Watched ==
  \A i \in Iface : nbr[i] # "DOWN" =>
    i \in active /\ i \in inactivity /\ entry[i] = "known"

\* A peer that falls silent for good is DOWN in the end and stays so, also when the
\* interface goes down and up meanwhile.
SilenceNoticed == <>[](~aborted => \A i \in gone : nbr[i] = "DOWN")
=============================================================================
