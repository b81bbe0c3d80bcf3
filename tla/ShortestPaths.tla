---------------------------- MODULE ShortestPaths ----------------------------
(****************************************************************************)
(* CalcRoutingTable (ipv6-ospf-routing.cc, lines 2069-2204): the search for *)
(* the shortest paths, the loop that turns the predecessors of the search   *)
(* into next hops, and the routes made of them; and LookupRoute, which      *)
(* answers from those routes.                                               *)
(*                                                                          *)
(* All routers hold the same database and compute one after the other.      *)
(* They share no state, so the order is of no importance, and what is said  *)
(* of all of them together is said of the state in which the last one has   *)
(* finished.                                                                *)
(****************************************************************************)
EXTENDS Naturals, Sequences, FiniteSets, FiniteSetsExt

CONSTANTS
    N,          \* m_knownMaxRouterId: the routers are 1 .. N, 0 is reserved
    Databases   \* the link state databases to start from

Router == 1 .. N

\* INFCOST.
Infinity == 65535

\* An interface that has a neighbour: who that is, and the bit rate of the
\* device. Below 1526 bit/s the metric does not fit into 16 bits, and the
\* conversion at line 800 is undefined.
Interface == [nbr : Router, rate : {r \in Nat : r >= 1526}]

\* What CalcRoutingTable reads: the interfaces of every router in the order
\* of m_interfaces, and the routers whose router-LSA is in the database.
\* (Intra-area-prefix-LSAs are all there: one that is missing is the same as
\* one that does not have the prefix asked for, see Lookup.)
Database == [links : [Router -> Seq(Interface)], known : SUBSET Router]

ASSUME NAssumption == N \in Nat \ {0}
ASSUME DatabasesAssumption == Databases \subseteq Database

VARIABLES
    db,      \* the database
    self,    \* the router that computes
    costs,   \* costs
    prevs,   \* prevs: 0, a predecessor, and later a next hop
    pq,      \* the priority queue: a set of <<cost, router>>
    direct,  \* directConnected_set
    at,      \* i of the loop over the routers that restores next hops
    phase,   \* which loop is running
    routes   \* m_routingTable of every router

vars == <<db, self, costs, prevs, pq, direct, at, phase, routes>>
-----------------------------------------------------------------------------
(****************************************************************************)
(* The table of the links.                                                  *)
(****************************************************************************)

\* The neighbours in the router-LSA of u, if the database has it.
RouterLSA(u) == IF u \in db.known THEN db.links[u] ELSE <<>>

Linked(u) == {RouterLSA(u)[i].nbr : i \in DOMAIN RouterLSA(u)}

\* The last of several links of u to v: its metric overwrites the others.
LastLink(u, v) ==
    CHOOSE i \in DOMAIN RouterLSA(u) :
        /\ RouterLSA(u)[i].nbr = v
        /\ \A j \in DOMAIN RouterLSA(u) : RouterLSA(u)[j].nbr = v => j <= i

\* bug: half the reference bandwidth
CalcMetricHalved(iface) == 50000000 \div iface.rate

\* The quotient, cut: links faster than 100 Mbit/s cost nothing.
CalcMetricForInterface(iface) == 100000000 \div iface.rate

Metric(u, v) == CalcMetricForInterface(RouterLSA(u)[LastLink(u, v)])

(****************************************************************************)
(* The search.                                                              *)
(****************************************************************************)

\* tmpCost, a uint16_t.
PathCost(c, u, v) == (c + Metric(u, v)) % 65536

\* bug: ties are left to the order of the queue
ImprovesStrictly(c, u, v) == PathCost(c, u, v) < costs[v]

\* bug: the id counts although the path is longer
ImprovesById(c, u, v) == PathCost(c, u, v) < costs[v] \/ u < prevs[v]

\* Cheaper, or as cheap and by a router with a smaller id.
Improves(c, u, v) ==
    \/ PathCost(c, u, v) < costs[v]
    \/ PathCost(c, u, v) = costs[v] /\ u < prevs[v]

\* std::greater on pairs: the cheapest entry first, then the smallest id.
IsTop(e) ==
    \A f \in pq : e[1] < f[1] \/ (e[1] = f[1] /\ e[2] <= f[2])

\* CalcRoutingTable of router u begins.
StartCosts(u) == [v \in Router |-> IF v = u THEN 0 ELSE Infinity]
StartPrevsInfinite == [v \in Router |-> Infinity]   \* bug: filled like costs

StartPrevs == [v \in Router |-> 0]

Init ==
    /\ db \in Databases
    /\ self = 1
    /\ costs = StartCosts(1)
    /\ prevs = StartPrevs
    /\ pq = {<<0, 1>>}
    /\ direct = {}
    /\ at = 1
    /\ phase = "search"
    /\ routes = [u \in Router |-> {}]

\* One turn of the while loop. An entry that is no longer the cost of its
\* router is used all the same.
Expand ==
    /\ phase = "search"
    /\ \E e \in pq :
          LET better == {v \in Linked(e[2]) : Improves(e[1], e[2], v)}
          IN  /\ IsTop(e)
              /\ costs' = [v \in Router |-> IF v \in better
                                            THEN PathCost(e[1], e[2], v)
                                            ELSE costs[v]]
              /\ prevs' = [v \in Router |-> IF v \in better THEN e[2]
                                                           ELSE prevs[v]]
              /\ pq' = (pq \ {e})
                         \cup {<<PathCost(e[1], e[2], v), v>> : v \in better}
    /\ UNCHANGED <<db, self, direct, at, phase, routes>>

(****************************************************************************)
(* From predecessors to next hops.                                          *)
(****************************************************************************)

\* bug: all neighbours are collected, also those nearer over another router
CollectNeighbours ==
    /\ phase = "search"
    /\ pq = {}
    /\ direct' = Linked(self)
    /\ phase' = "restore"
    /\ at' = 1
    /\ UNCHANGED <<db, self, costs, prevs, pq, routes>>

\* The queue is empty: collect the routers reached over one link.
CollectDirect ==
    /\ phase = "search"
    /\ pq = {}
    /\ direct' = {v \in Router : prevs[v] = self}
    /\ phase' = "restore"
    /\ at' = 1
    /\ UNCHANGED <<db, self, costs, prevs, pq, routes>>

\* The test of the inner while loop.
TooFar(v) == prevs[v] # 0 /\ prevs[v] \notin direct

\* One turn of the inner loop: a predecessor gives way to its own.
FollowPrev ==
    /\ phase = "restore"
    /\ at \in Router
    /\ TooFar(at)
    /\ prevs' = [prevs EXCEPT ![at] = prevs[prevs[at]]]
    /\ UNCHANGED <<db, self, costs, pq, direct, at, phase, routes>>

NextRouter ==
    /\ phase = "restore"
    /\ at \in Router
    /\ ~TooFar(at)
    /\ at' = at + 1
    /\ UNCHANGED <<db, self, costs, prevs, pq, direct, phase, routes>>

(****************************************************************************)
(* The routes.                                                              *)
(****************************************************************************)

\* GetInterfaceForNeighbor: interface i of u is the first with neighbour v.
IsInterfaceForNeighbor(u, i, v) ==
    /\ db.links[u][i].nbr = v
    /\ \A j \in DOMAIN db.links[u] : db.links[u][j].nbr = v => i <= j

\* bug: directly connected routers are not entered as their own next hops
NextHopOfOthers(v) == prevs[v]

\* The element of nextHops for destination v.
NextHop(v) == IF v \in direct THEN v ELSE prevs[v]

\* An entry stands for the prefixes one router advertises. Interface 0 is
\* the interface that has the prefix itself. A destination for which there
\* is no interface is skipped.
NewRoutes ==
    {[adv |-> self, iface |-> 0]}
      \cup {e \in [adv : Router \ {self}, iface : DOMAIN db.links[self]] :
              IsInterfaceForNeighbor(self, e.iface, NextHop(e.adv))}

\* The table is filled anew; another router's turn, unless this is the last.
AddRoutes ==
    /\ phase = "restore"
    /\ at = N + 1
    /\ routes' = [routes EXCEPT ![self] = NewRoutes]
    /\ IF self = N
       THEN /\ phase' = "done"
            /\ UNCHANGED <<self, costs, prevs, pq, direct, at>>
       ELSE /\ self' = self + 1
            /\ costs' = StartCosts(self + 1)
            /\ prevs' = StartPrevs
            /\ pq' = {<<0, self + 1>>}
            /\ direct' = {}
            /\ at' = 1
            /\ phase' = "search"
    /\ UNCHANGED db

\* bug: the entries are in the order of the interfaces
LookupByInterface(u, A) ==
    {e \in routes[u] :
        /\ e.adv \in A
        /\ \A f \in routes[u] :
              f.adv \in A => \/ e.iface < f.iface
                             \/ e.iface = f.iface /\ e.adv <= f.adv}

\* LookupRoute at u for an address that lies in prefixes of the routers A:
\* the first entry that matches. The entries are in the order of
\* m_intraAreaPrefixLSA_set, that is of the advertising routers.
Lookup(u, A) ==
    {e \in routes[u] : /\ e.adv \in A
                       /\ \A f \in routes[u] : f.adv \in A => e.adv <= f.adv}

\* RouteInput: the neighbour to which u passes on a packet for an address in
\* prefixes of A. (The routes have no gateway; the interface decides.)
Forwards(u, w, A) ==
    \E e \in Lookup(u, A) : e.adv # u /\ db.links[u][e.iface].nbr = w

Next == Expand \/ CollectDirect \/ FollowPrev \/ NextRouter \/ AddRoutes

Spec == Init /\ [][Next]_vars

\* CalcRoutingTable runs to its end without interruption.
FairSpec == Spec /\ WF_vars(Next)
-----------------------------------------------------------------------------
(****************************************************************************)
(* The reference for costs: what a round of Bellman-Ford makes of them, in  *)
(* integers without bound.                                                  *)
(****************************************************************************)
Relaxed(c) ==
    [v \in Router |->
        Min({c[v]} \cup {c[w] + Metric(w, v) : w \in {w \in Router : v \in Linked(w)}})]

\* The least cost of a path of k links at the most from u to each router, or Infinity.
Within(u) ==
    LET D[k \in 0 .. N] == IF k = 0 THEN [v \in Router |-> IF v = u THEN 0 ELSE Infinity]
                                   ELSE Relaxed(D[k - 1])
    IN  D

Distance(u) == Within(u)[N]
-----------------------------------------------------------------------------
(****************************************************************************)
(* Properties.                                                              *)
(****************************************************************************)

(* Every variable keeps the type it has in the code; costs stay 16 bits    *)
(* wide, and prevs an index into itself.                                    *)
TypeOK ==
    /\ db \in Database
    /\ self \in Router
    /\ costs \in [Router -> 0 .. Infinity]
    /\ prevs \in [Router -> 0 .. N]
    /\ pq \subseteq (0 .. Infinity) \X Router
    /\ direct \subseteq Router
    /\ at \in 1 .. N + 1
    /\ phase \in {"search", "restore", "done"}
    /\ routes \in [Router -> SUBSET [adv : Router, iface : Nat]]

Searched == phase = "search" /\ pq = {}
Reached == {v \in Router : costs[v] < Infinity}

\* A link on a path of least cost to v.
IsTight(u, v) ==
    /\ u \in Reached /\ v \in Linked(u)
    /\ costs[v] = costs[u] + Metric(u, v)

(* When the search is over, the predecessor of a router lies on a path of  *)
(* least cost to it and is the one with the smallest id of those that do,   *)
(* as the comment on line 2130 has it, although a router may be reached     *)
(* several times, and by entries of the queue that are out of date.         *)
SmallestPredecessor ==
    Searched =>
        \A v \in Reached \ {self} :
            /\ prevs[v] \in Router
            /\ IsTight(prevs[v], v)
            /\ \A u \in Router : IsTight(u, v) => prevs[v] <= u

(* The search ends with the length of the shortest path to every router,   *)
(* and with INFCOST for those without one (lines 2118-2140).                *)
ShortestCosts ==
    Searched => \A v \in Router : costs[v] = Distance(self)[v]

(* The routes of a router are the first steps of shortest paths: a route   *)
(* exists for just the routers that can be reached, and the neighbour it    *)
(* leads to is nearer to the destination by the cost of the link, whatever  *)
(* the loop that restores next hops did to prevs while it was reading it    *)
(* (lines 2152-2159).                                                       *)
RoutesShortest ==
    phase = "done" =>
        \A u, r \in Router :
            LET entries == {e \in routes[u] : e.adv = r}
            IN  /\ entries # {} <=> Distance(u)[r] < Infinity
                /\ u # r => \A e \in entries :
                      LET w == db.links[u][e.iface].nbr
                      IN  Metric(u, w) + Distance(w)[r] = Distance(u)[r]

(* When all routers have computed, a packet that a router forwards does    *)
(* arrive: no routers send it round in a circle, though every one of them   *)
(* chooses for itself between the routers that advertise the prefix, and    *)
(* none sends it to a router that has no route.                             *)
ForwardingDelivers ==
    phase = "done" =>
        \A A \in SUBSET Router :
            /\ \A S \in (SUBSET Router) \ {{}} :
                  \E u \in S : \A w \in S : ~Forwards(u, w, A)
            /\ \A u, w \in Router : Forwards(u, w, A) => Lookup(w, A) # {}

(* The computation comes to its end: by line 2142 prevs is to hold next    *)
(* hops, so the chain of predecessors of every router has to lead to a      *)
(* directly connected one.                                                  *)
NextHopsRestored == <>(phase = "done")
=============================================================================
