------------------------ MODULE OspfInterfacesProofs ------------------------
(***************************************************************************)
(* Proofs about OspfInterfaces, for any number of interfaces and any bound  *)
(* on the calls that wait: types, the chains of Hello events, the watch     *)
(* over neighbours and the LSAs.                                            *)
(***************************************************************************)
EXTENDS OspfInterfaces, TLAPS

-----------------------------------------------------------------------------
(* What a step can do to each part of the state                             *)

\* OriginateRouterLSA lists links with an interface that is up and a router.
LEMMA LinksTyped ==
  ASSUME TypeOK, NEW up \in SUBSET Iface
  PROVE  /\ Links(up) \subseteq RouterLink
         /\ \A l \in Links(up) : l.iface \in up
<1> SUFFICES ASSUME NEW l \in Links(up) PROVE l \in RouterLink /\ l.iface \in up
  OBVIOUS
<1>1. PICK i \in up : l = [iface |-> i, router |-> IF entry[i] = "known" THEN "peer" ELSE "unset"]
  BY Zenon DEF Links
<1> QED
  BY <1>1 DEF RouterLink

\* A neighbour of an interface that is up is listed once its entry is known.
LEMMA KnownListed ==
  ASSUME NEW up, NEW i \in up, entry[i] = "known"
  PROVE  [iface |-> i, router |-> "peer"] \in Links(up)
  BY DEF Links

\* Every action preserves the types.
LEMMA TypeStep == TypeOK /\ [Next]_vars => TypeOK'
<1> SUFFICES ASSUME TypeOK, [Next]_vars PROVE TypeOK'
  OBVIOUS
<1> USE DEF TypeOK, Call, neighbours, hello, lsas, OriginateRouterSpecificLSAs,
            OriginateRouterLSA
<1>stutter. CASE UNCHANGED vars
  BY <1>stutter DEF vars
<1>next. CASE Next
  <2> PICK i \in Iface :
       \/ NotifyInterfaceUp(i) \/ NotifyInterfaceDown(i)
       \/ SendHelloPacket(i) \/ ScheduleHello(i) \/ HelloTimer(i)
       \/ ReceiveHelloPacket(i) \/ ReceiveBeforeHello(i)
       \/ EndExchange(i) \/ BecomeFull(i) \/ LeaveFull(i)
       \/ Inactive(i) \/ PeerGone(i)
    BY <1>next, Zenon DEF Next
  <2>a. Links(active) \subseteq RouterLink /\ Links(active \cup {i}) \subseteq RouterLink
          /\ Links(active \ {i}) \subseteq RouterLink
    BY LinksTyped, active \in SUBSET Iface, active \cup {i} \in SUBSET Iface,
       active \ {i} \in SUBSET Iface
  <2>1. CASE NotifyInterfaceUp(i)
    <3>1. routerLSA' = Links(active \cup {i})
      BY <2>1, Zenon DEF NotifyInterfaceUp
    <3>2. pending' \in [Iface -> Seq(Call)]
      BY <2>1 DEF NotifyInterfaceUp
    <3>3. prefixLSA' \subseteq Iface /\ linkLSA' \subseteq Iface /\ active' \subseteq Iface
      BY <2>1 DEF NotifyInterfaceUp
    <3> QED
      BY <2>1, <2>a, <3>1, <3>2, <3>3 DEF NotifyInterfaceUp
  <2>2. CASE NotifyInterfaceDown(i)
    <3>1. routerLSA' = Links(active \ {i})
      BY <2>2, Zenon DEF NotifyInterfaceDown
    <3>2. nbr' \in [Iface -> {"DOWN", "FORMING", "FULL"}] /\ helloTimer' \subseteq Iface
      BY <2>2 DEF NotifyInterfaceDown, ResetInstance, KillNeighbors
    <3>3. prefixLSA' \subseteq Iface /\ linkLSA' \subseteq Iface /\ active' \subseteq Iface
            /\ hasty' \subseteq Iface
      BY <2>2 DEF NotifyInterfaceDown
    <3> QED
      BY <2>2, <2>a, <3>1, <3>2, <3>3 DEF NotifyInterfaceDown
  <2>3. CASE SendHelloPacket(i)
    BY <2>3 DEF SendHelloPacket
  <2>4. CASE ScheduleHello(i)
    BY <2>4 DEF ScheduleHello
  <2>5. CASE HelloTimer(i)
    BY <2>5 DEF HelloTimer
  <2>6. CASE ReceiveHelloPacket(i)
    BY <2>6 DEF ReceiveHelloPacket, Restarted
  <2>7. CASE ReceiveBeforeHello(i)
    BY <2>7 DEF ReceiveBeforeHello
  <2>8. CASE EndExchange(i)
    BY <2>8, <2>a DEF EndExchange
  <2>9. CASE BecomeFull(i)
    BY <2>9, <2>a DEF BecomeFull
  <2>10. CASE LeaveFull(i)
    BY <2>10 DEF LeaveFull
  <2>11. CASE Inactive(i)
    BY <2>11 DEF Inactive
  <2>12. CASE PeerGone(i)
    BY <2>12 DEF PeerGone
  <2> QED
    BY <2>1, <2>2, <2>3, <2>4, <2>5, <2>6, <2>7, <2>8, <2>9, <2>10, <2>11, <2>12
<1> QED
  BY <1>stutter, <1>next

\* All variables keep their types (TypeOK).
THEOREM TypeCorrectness == Spec => []TypeOK
<1>1. Init => TypeOK
  <2> SUFFICES ASSUME Init PROVE TypeOK
    OBVIOUS
  <2>1. <<"SendHelloPacket">> \in Seq(Call) /\ <<>> \in Seq(Call)
    BY DEF Call
  <2>2. pending \in [Iface -> Seq(Call)]
    BY <2>1 DEF Init
  <2> QED
    BY <2>2 DEF Init, TypeOK
<1> QED
  BY <1>1, TypeStep, PTL DEF Spec

-----------------------------------------------------------------------------
(* The watch over neighbours                                                *)

\* Watched is inductive by itself.
LEMMA WatchedStep == TypeOK /\ Watched /\ [Next]_vars => Watched'
<1> SUFFICES ASSUME TypeOK, Watched, [Next]_vars,
                    NEW k \in Iface, nbr'[k] # "DOWN"
             PROVE  k \in active' /\ k \in inactivity' /\ entry'[k] = "known"
  BY DEF Watched
<1> USE DEF TypeOK, Watched, neighbours, hello, lsas
<1>stutter. CASE UNCHANGED vars
  BY <1>stutter DEF vars
<1>next. CASE Next
  <2> PICK i \in Iface :
       \/ NotifyInterfaceUp(i) \/ NotifyInterfaceDown(i)
       \/ SendHelloPacket(i) \/ ScheduleHello(i) \/ HelloTimer(i)
       \/ ReceiveHelloPacket(i) \/ ReceiveBeforeHello(i)
       \/ EndExchange(i) \/ BecomeFull(i) \/ LeaveFull(i)
       \/ Inactive(i) \/ PeerGone(i)
    BY <1>next, Zenon DEF Next
  <2>1. CASE NotifyInterfaceUp(i)
    BY <2>1 DEF NotifyInterfaceUp
  <2>2. CASE NotifyInterfaceDown(i)
    BY <2>2 DEF NotifyInterfaceDown, KillNeighbors
  <2>3. CASE SendHelloPacket(i) \/ ScheduleHello(i) \/ HelloTimer(i)
    BY <2>3 DEF SendHelloPacket, ScheduleHello, HelloTimer
  <2>4. CASE ReceiveHelloPacket(i)
    BY <2>4 DEF ReceiveHelloPacket, Restarted, Heard
  <2>5. CASE ReceiveBeforeHello(i)
    BY <2>5 DEF ReceiveBeforeHello
  <2>6. CASE EndExchange(i)
    BY <2>6 DEF EndExchange
  <2>7. CASE BecomeFull(i)
    BY <2>7 DEF BecomeFull
  <2>8. CASE LeaveFull(i)
    BY <2>8 DEF LeaveFull
  <2>9. CASE Inactive(i) \/ PeerGone(i)
    BY <2>9 DEF Inactive, PeerGone
  <2> QED
    BY <2>1, <2>2, <2>3, <2>4, <2>5, <2>6, <2>7, <2>8, <2>9
<1> QED
  BY <1>stutter, <1>next

\* Every neighbour that is not DOWN is known, on an interface that is up, and watched
\* by a running inactivity timer (Watched).
THEOREM NeighboursWatched == Spec => []Watched
<1>1. Init => Watched
  BY DEF Init, Watched
<1> QED
  BY <1>1, TypeCorrectness, WatchedStep, PTL DEF Spec

-----------------------------------------------------------------------------
(* Hello events                                                             *)

\* HelloChains is inductive by itself: a call that waits and a timer that runs exclude
\* each other.
LEMMA ChainStep == TypeOK /\ HelloChains /\ [Next]_vars => HelloChains'
<1> SUFFICES ASSUME TypeOK, HelloChains, [Next]_vars PROVE HelloChains'
  OBVIOUS
<1> DEFINE Chain(i) == Len(pending[i]) + (IF i \in helloTimer THEN 1 ELSE 0)
                         = (IF i \in active THEN 1 ELSE 0)
<1>stutter. CASE UNCHANGED vars
  BY <1>stutter DEF vars, HelloChains
<1>next. CASE Next
  <2> PICK i \in Iface :
       \/ NotifyInterfaceUp(i) \/ NotifyInterfaceDown(i)
       \/ SendHelloPacket(i) \/ ScheduleHello(i) \/ HelloTimer(i)
       \/ ReceiveHelloPacket(i) \/ ReceiveBeforeHello(i)
       \/ EndExchange(i) \/ BecomeFull(i) \/ LeaveFull(i)
       \/ Inactive(i) \/ PeerGone(i)
    BY <1>next, Zenon DEF Next
  <2>other. CASE UNCHANGED <<active, pending, helloTimer, aborted, hasty>>
    BY <2>other DEF HelloChains
  \* Only the chain of i changes.
  <2>frame. ASSUME \A k \in Iface \ {i} :
                     /\ pending'[k] = pending[k]
                     /\ k \in helloTimer' <=> k \in helloTimer
                     /\ k \in active' <=> k \in active,
                   hasty \subseteq hasty', i \notin hasty' => Chain(i)',
                   aborted' => hasty' # {}
            PROVE  HelloChains'
    BY <2>frame DEF HelloChains
  <2>t. Len(pending[i]) \in Nat /\ pending \in [Iface -> Seq(Call)]
    BY DEF TypeOK
  <2>c. i \notin hasty => Chain(i)
    BY DEF HelloChains
  <2>1. CASE NotifyInterfaceUp(i)
    <3>1. i \notin active /\ i \in active' /\ helloTimer' = helloTimer
            /\ hasty' = hasty /\ aborted' = aborted /\ active' = active \cup {i}
            /\ pending' = [pending EXCEPT ![i] = Append(@, "SendHelloPacket")]
      BY <2>1, Zenon DEF NotifyInterfaceUp
    <3>2. Len(pending'[i]) = Len(pending[i]) + 1
      BY <3>1, <2>t DEF Call
    <3>3. i \notin hasty' => Chain(i)'
      BY <3>1, <3>2, <2>c, <2>t
    <3>4. \A k \in Iface \ {i} : /\ pending'[k] = pending[k]
                                 /\ k \in helloTimer' <=> k \in helloTimer
                                 /\ k \in active' <=> k \in active
      BY <3>1, <2>t
    <3> QED
      BY <2>frame, <3>1, <3>3, <3>4 DEF HelloChains
  <2>2. CASE NotifyInterfaceDown(i)
    <3>1. active' = active \ {i} /\ helloTimer' = helloTimer \ {i} /\ pending' = pending
            /\ hasty' = (IF pending[i] # <<>> THEN hasty \cup {i} ELSE hasty)
            /\ aborted' = aborted
      BY <2>2, Zenon DEF NotifyInterfaceDown, ResetInstance
    <3>2. i \notin hasty' => Chain(i)'
      BY <3>1, <2>t
    <3> QED
      BY <2>frame, <3>1, <3>2 DEF HelloChains
  <2>3. CASE SendHelloPacket(i)
    <3>1. active' = active /\ helloTimer' = helloTimer /\ hasty' = hasty
            /\ aborted' = aborted /\ pending[i] # <<>>
            /\ pending' = [pending EXCEPT ![i] = Append(Tail(@), "ScheduleHello")]
      BY <2>3, Zenon DEF SendHelloPacket
    <3>2. Len(pending'[i]) = Len(pending[i])
      BY <3>1, <2>t DEF Call
    <3>3. \A k \in Iface \ {i} : pending'[k] = pending[k]
      BY <3>1, <2>t
    <3>4. i \notin hasty' => Chain(i)'
      BY <3>1, <3>2, <2>c, <2>t
    <3> QED
      BY <2>frame, <3>1, <3>3, <3>4 DEF HelloChains
  <2>4. CASE ScheduleHello(i)
    <3>1. active' = active /\ helloTimer' = helloTimer \cup {i} /\ hasty' = hasty
            /\ aborted' = (i \in helloTimer) /\ pending[i] # <<>>
            /\ pending' = [pending EXCEPT ![i] = Tail(@)]
      BY <2>4, Zenon DEF ScheduleHello
    <3>2. Len(pending'[i]) = Len(pending[i]) - 1 /\ Len(pending[i]) > 0
      BY <3>1, <2>t DEF Call
    <3>3. \A k \in Iface \ {i} : pending'[k] = pending[k]
      BY <3>1, <2>t
    <3>4. i \notin hasty => i \notin helloTimer
      BY <2>c, <2>t, <3>2
    <3>5. i \notin hasty' => Chain(i)'
      BY <3>1, <3>2, <3>4, <2>c, <2>t
    <3>6. aborted' => hasty' # {}
      BY <3>1, <3>4
    <3>7. \A k \in Iface \ {i} : k \in helloTimer' <=> k \in helloTimer
      BY <3>1
    <3> QED
      BY <2>frame, <3>1, <3>3, <3>5, <3>6, <3>7
  <2>5. CASE HelloTimer(i)
    <3>1. active' = active /\ helloTimer' = helloTimer \ {i} /\ hasty' = hasty
            /\ aborted' = aborted /\ pending[i] = <<>> /\ i \in helloTimer
            /\ pending' = [pending EXCEPT ![i] = Append(@, "ScheduleHello")]
      BY <2>5, Zenon DEF HelloTimer
    <3>2. Len(pending'[i]) = 1 /\ Len(pending[i]) = 0
      BY <3>1, <2>t DEF Call
    <3>3. \A k \in Iface \ {i} : pending'[k] = pending[k]
      BY <3>1, <2>t
    <3>4. i \notin hasty' => Chain(i)'
      BY <3>1, <3>2, <2>c
    <3> QED
      BY <2>frame, <3>1, <3>3, <3>4 DEF HelloChains
  <2>6. CASE \/ ReceiveHelloPacket(i) \/ ReceiveBeforeHello(i) \/ EndExchange(i)
             \/ BecomeFull(i) \/ LeaveFull(i) \/ Inactive(i) \/ PeerGone(i)
    BY <2>6, <2>other, Zenon
       DEF ReceiveHelloPacket, ReceiveBeforeHello, EndExchange, BecomeFull, LeaveFull,
           Inactive, PeerGone, hello
  <2> QED
    BY <2>1, <2>2, <2>3, <2>4, <2>5, <2>6
<1> QED
  BY <1>stutter, <1>next

\* An interface has one chain of Hello events while it is up and none while it is down,
\* unless it was taken down in the middle of an instant (HelloChains).
THEOREM OneHelloChain == Spec => []HelloChains
<1>1. Init => HelloChains
  <2> SUFFICES ASSUME Init, NEW i \in Iface
               PROVE  Len(pending[i]) + (IF i \in helloTimer THEN 1 ELSE 0)
                        = (IF i \in active THEN 1 ELSE 0)
    BY DEF HelloChains, Init
  <2>1. pending[i] = IF i \in active THEN <<"SendHelloPacket">> ELSE <<>>
    BY DEF Init
  <2> QED
    BY <2>1 DEF Init
<1> QED
  BY <1>1, TypeCorrectness, ChainStep, PTL DEF Spec

-----------------------------------------------------------------------------
(* The LSAs                                                                 *)

\* After an origination the LSAs are right about the interfaces in "up" when their FULL
\* neighbours are known.
LEMMA OriginationAdvertises ==
  ASSUME TypeOK, NEW up \in SUBSET Iface, routerLSA' = Links(up), active' = up,
         prefixLSA' = up, up \subseteq linkLSA',
         \A k \in up : nbr'[k] = "FULL" => entry[k] = "known"
  PROVE  Advertised'
<1>1. \A l \in routerLSA' : l.iface \in active'
  BY LinksTyped
<1>2. \A k \in active' : nbr'[k] = "FULL" => [iface |-> k, router |-> "peer"] \in routerLSA'
  BY KnownListed
<1> QED
  BY <1>1, <1>2 DEF Advertised

\* Advertised follows from step to step with Watched: a neighbour becomes FULL
\* only when its entry is known, and is listed in the same step.
LEMMA AdvertisedStep == TypeOK /\ Watched /\ Advertised /\ [Next]_vars => Advertised'
<1> SUFFICES ASSUME TypeOK, Watched, Advertised, [Next]_vars PROVE Advertised'
  OBVIOUS
<1>stutter. CASE UNCHANGED vars
  BY <1>stutter DEF vars, Advertised
<1>next. CASE Next
  <2> PICK i \in Iface :
       \/ NotifyInterfaceUp(i) \/ NotifyInterfaceDown(i)
       \/ SendHelloPacket(i) \/ ScheduleHello(i) \/ HelloTimer(i)
       \/ ReceiveHelloPacket(i) \/ ReceiveBeforeHello(i)
       \/ EndExchange(i) \/ BecomeFull(i) \/ LeaveFull(i)
       \/ Inactive(i) \/ PeerGone(i)
    BY <1>next, Zenon DEF Next
  <2>t. active \in SUBSET Iface /\ nbr \in [Iface -> {"DOWN", "FORMING", "FULL"}]
    BY DEF TypeOK
  <2>k. \A k \in Iface : nbr[k] # "DOWN" => entry[k] = "known"
    BY DEF Watched
  \* A step that makes no LSA and no neighbour FULL.
  <2>same. ASSUME UNCHANGED <<lsas, active>>,
                  \A k \in Iface : nbr'[k] = "FULL" => nbr[k] = "FULL"
           PROVE  Advertised'
    BY <2>same, <2>t DEF Advertised, lsas
  <2>1. CASE NotifyInterfaceUp(i)
    <3> DEFINE up == active \cup {i}
    <3>1. active' = up /\ routerLSA' = Links(up) /\ prefixLSA' = up
            /\ linkLSA' = linkLSA \cup {i} /\ nbr' = nbr
      BY <2>1, Zenon DEF NotifyInterfaceUp, OriginateRouterSpecificLSAs,
                         OriginateRouterLSA, neighbours
    <3>2. up \in SUBSET Iface /\ up \subseteq linkLSA'
      BY <3>1, <2>t DEF Advertised
    <3>3. \A k \in up : nbr'[k] = "FULL" => entry[k] = "known"
      BY <3>1, <3>2, <2>k
    <3> HIDE DEF up
    <3> QED
      BY <3>1, <3>2, <3>3, OriginationAdvertises
  <2>2. CASE NotifyInterfaceDown(i)
    <3> DEFINE up == active \ {i}
    <3>1. active' = up /\ routerLSA' = Links(up) /\ prefixLSA' = up
            /\ linkLSA' = linkLSA \cup {i} /\ nbr' = [nbr EXCEPT ![i] = "DOWN"]
      BY <2>2, Zenon DEF NotifyInterfaceDown, OriginateRouterSpecificLSAs,
                         OriginateRouterLSA, KillNeighbors
    <3>2. up \in SUBSET Iface /\ up \subseteq linkLSA'
      BY <3>1, <2>t DEF Advertised
    <3>3. \A k \in up : nbr'[k] = "FULL" => entry[k] = "known"
      BY <3>1, <3>2, <2>k, <2>t
    <3> HIDE DEF up
    <3> QED
      BY <3>1, <3>2, <3>3, OriginationAdvertises
  <2>3. CASE SendHelloPacket(i) \/ ScheduleHello(i) \/ HelloTimer(i)
    BY <2>3, <2>same DEF SendHelloPacket, ScheduleHello, HelloTimer, neighbours
  <2>4. CASE ReceiveHelloPacket(i)
    BY <2>4, <2>same, <2>t DEF ReceiveHelloPacket
  <2>5. CASE ReceiveBeforeHello(i)
    BY <2>5, <2>same DEF ReceiveBeforeHello
  <2>6. CASE EndExchange(i)
    <3>1. active' = active /\ routerLSA' = Links(active) /\ prefixLSA' = prefixLSA
            /\ linkLSA' = linkLSA /\ nbr' = nbr
      BY <2>6, Zenon DEF EndExchange, OriginateRouterLSA, neighbours
    <3>2. \A k \in active : nbr'[k] = "FULL" => entry[k] = "known"
      BY <3>1, <2>k, <2>t
    <3> QED
      BY <3>1, <3>2, <2>t, OriginationAdvertises DEF Advertised
  <2>7. CASE BecomeFull(i)
    <3>1. active' = active /\ routerLSA' = Links(active) /\ prefixLSA' = active
            /\ linkLSA' = linkLSA \cup {i} /\ nbr' = [nbr EXCEPT ![i] = "FULL"]
            /\ nbr[i] = "FORMING"
      BY <2>7, Zenon DEF BecomeFull, OriginateRouterSpecificLSAs, OriginateRouterLSA
    <3>2. \A k \in active : nbr'[k] = "FULL" => entry[k] = "known"
      BY <3>1, <2>k, <2>t
    <3>3. active \subseteq linkLSA'
      BY <3>1 DEF Advertised
    <3> QED
      BY <3>1, <3>2, <3>3, <2>t, OriginationAdvertises
  <2>8. CASE LeaveFull(i)
    BY <2>8, <2>same, <2>t DEF LeaveFull
  <2>9. CASE Inactive(i) \/ PeerGone(i)
    BY <2>9, <2>same, <2>t DEF Inactive, PeerGone, neighbours
  <2> QED
    BY <2>1, <2>2, <2>3, <2>4, <2>5, <2>6, <2>7, <2>8, <2>9
<1> QED
  BY <1>stutter, <1>next

\* The LSAs of the router describe the interfaces that are up, and every FULL
\* neighbour by its router ID (Advertised).
THEOREM LsasDescribeInterfaces == Spec => []Advertised
<1>1. Init => Advertised
  BY DEF Init, Advertised
<1> QED
  BY <1>1, TypeCorrectness, NeighboursWatched, AdvertisedStep, PTL DEF Spec
=============================================================================
