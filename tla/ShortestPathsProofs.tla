------------------------- MODULE ShortestPathsProofs -------------------------
(****************************************************************************)
(* Proofs about ShortestPaths for every number of routers and every set of  *)
(* databases.                                                               *)
(****************************************************************************)
EXTENDS ShortestPaths, FiniteSetTheorems, NaturalsInduction, WellFoundedInduction, TLAPS

-----------------------------------------------------------------------------
(* Numbers                                                                  *)

\* A quotient of natural numbers is one.
LEMMA QuotientType ==
  ASSUME NEW a \in Nat, NEW b \in Nat, b > 0
  PROVE  a \div b \in Nat
  OBVIOUS

\* INFCOST is the largest number of 16 bits.
LEMMA InfinityValue == Infinity \in Nat /\ 65535 <= Infinity /\ Infinity < 65536
  BY DEF Infinity

\* A natural number as a uint16_t.
LEMMA CutType ==
  ASSUME NEW a \in Nat
  PROVE  /\ a % 65536 \in 0 .. Infinity
         /\ a <= Infinity => a % 65536 = a
<1> DEFINE r == a % 65536
<1>1. r \in Nat /\ r <= 65535
  OBVIOUS
<1>2. a < 65536 => r = a
  OBVIOUS
<1>3. r \in 0 .. Infinity
  <2> HIDE DEF r
  <2>1. QED
    BY <1>1, InfinityValue
<1>4. a <= Infinity => a < 65536
  BY InfinityValue
<1>5. QED
  BY <1>2, <1>3, <1>4

\* Products with a natural number are monotonic.
LEMMA ProductMonotonic ==
  ASSUME NEW w \in Nat, NEW a \in Nat, NEW b \in Nat, a <= b
  PROVE  w * a \in Nat /\ w * b \in Nat /\ w * a <= w * b
  OBVIOUS

\* One more of w.
LEMMA ProductStep ==
  ASSUME NEW w \in Nat, NEW a \in Nat, a > 0
  PROVE  w * (a - 1) \in Nat /\ w * (a - 1) + w = w * a
  OBVIOUS

\* A set of natural numbers has a least element.
LEMMA LeastElement ==
  ASSUME NEW S \in SUBSET Nat, S # {}
  PROVE  \E m \in S : \A k \in S : m <= k
<1> DEFINE R == {p \in Nat \X Nat : p[1] < p[2]}
<1>1. IsWellFoundedOn(R, Nat)
  BY NatLessThanWellFounded DEF OpToRel
<1>2. PICK m \in S : \A k \in S : ~(<<k, m>> \in R)
  BY <1>1, WFMin
<1>3. ASSUME NEW k \in S, k < m PROVE FALSE
  <2>1. <<k, m>> \in R
    BY <1>3
  <2>2. QED
    BY <1>2, <2>1
<1>4. QED
  BY <1>3

\* A set of numbers that are n at the most has a greatest element.
LEMMA GreatestElement ==
  ASSUME NEW n \in Nat, NEW T \in SUBSET (1 .. n), T # {}
  PROVE  \E m \in T : \A k \in T : k <= m
<1> DEFINE S == {n - k : k \in T}
<1>1. S \in SUBSET Nat /\ S # {}
  <2>1. \A k \in T : n - k \in Nat
    OBVIOUS
  <2>2. QED
    BY <2>1
<1>2. PICK m \in S : \A k \in S : m <= k
  <2> HIDE DEF S
  <2>1. QED
    BY <1>1, LeastElement
<1>3. PICK k \in T : m = n - k
  BY <1>2
<1>4. ASSUME NEW i \in T PROVE i <= k
  <2>1. n - i \in S
    BY <1>4
  <2>2. QED
    BY <1>2, <1>3, <2>1
<1>5. QED
  BY <1>4

\* Induction over an interval.
LEMMA IntervalInduction ==
  ASSUME NEW n \in Nat, NEW S, 0 \in S,
         \A k \in 0 .. n : k \in S /\ k < n => k + 1 \in S
  PROVE  0 .. n \subseteq S
<1> DEFINE T == 0 .. n \ S
<1> SUFFICES ASSUME T # {} PROVE FALSE
  OBVIOUS
<1>1. PICK m \in T : \A k \in T : m <= k
  <2>1. T \in SUBSET Nat
    OBVIOUS
  <2>2. QED
    BY <2>1, LeastElement
<1>2. m - 1 \in S /\ m - 1 \in 0 .. n /\ m - 1 < n
  BY <1>1
<1>3. QED
  BY <1>1, <1>2

-----------------------------------------------------------------------------
(* Links and their costs                                                    *)

\* The router-LSA of a router is a list of interfaces.
LEMMA RouterLSAType ==
  ASSUME db \in Database, NEW u \in Router
  PROVE  RouterLSA(u) \in Seq(Interface)
  BY DEF RouterLSA, Database

\* Neighbours are routers, and the last link to one exists.
LEMMA LastLinkExists ==
  ASSUME db \in Database, NEW u \in Router, NEW v \in Linked(u)
  PROVE  /\ v \in Router
         /\ LastLink(u, v) \in DOMAIN RouterLSA(u)
         /\ RouterLSA(u)[LastLink(u, v)].nbr = v
<1> DEFINE L == RouterLSA(u)
           T == {i \in DOMAIN L : L[i].nbr = v}
<1>1. L \in Seq(Interface) /\ Len(L) \in Nat /\ DOMAIN L = 1 .. Len(L)
  BY RouterLSAType
<1>2. T \in SUBSET (1 .. Len(L)) /\ T # {}
  BY <1>1 DEF Linked
<1>3. PICK m \in T : \A k \in T : k <= m
  <2> HIDE DEF T
  <2>1. QED
    BY <1>1, <1>2, GreatestElement
<1>4. /\ m \in DOMAIN L
      /\ L[m].nbr = v
      /\ \A j \in DOMAIN L : L[j].nbr = v => j <= m
  BY <1>3
<1>5. v \in Router
  <2>1. L[m] \in Interface
    BY <1>1, <1>4
  <2>2. L[m].nbr \in Router
    BY ONLY <2>1 DEF Interface
  <2>3. QED
    BY <1>4, <2>2
<1>6. QED
  BY <1>4, <1>5 DEF LastLink

\* Costs of links are natural numbers.
LEMMA MetricType ==
  ASSUME db \in Database, NEW u \in Router, NEW v \in Linked(u)
  PROVE  Metric(u, v) \in Nat
<1> DEFINE l == RouterLSA(u)[LastLink(u, v)]
<1>1. l \in Interface
  <2>1. LastLink(u, v) \in DOMAIN RouterLSA(u)
    BY LastLinkExists
  <2>2. \A i \in DOMAIN RouterLSA(u) : RouterLSA(u)[i] \in Interface
    BY RouterLSAType
  <2>3. QED
    BY <2>1, <2>2
<1>2. l.rate \in Nat /\ l.rate > 0
  BY <1>1 DEF Interface
<1>3. QED
  <2> HIDE DEF l
  <2>1. 100000000 \div l.rate \in Nat
    BY <1>2, QuotientType
  <2>2. QED
    BY <2>1 DEF l, Metric, CalcMetricForInterface

\* Costs of paths have 16 bits.
LEMMA PathCostType ==
  ASSUME db \in Database, NEW c \in Nat, NEW u \in Router, NEW v \in Linked(u)
  PROVE  PathCost(c, u, v) \in 0 .. Infinity
<1>1. c + Metric(u, v) \in Nat
  BY MetricType
<1>2. QED
  BY <1>1, CutType DEF PathCost
-----------------------------------------------------------------------------
(* Type correctness                                                         *)

\* The values with which a computation starts have their types.
LEMMA StartType ==
  ASSUME NEW u \in Router
  PROVE  /\ StartCosts(u) \in [Router -> 0 .. Infinity]
         /\ StartPrevs \in [Router -> 0 .. N]
         /\ {<<0, u>>} \subseteq (0 .. Infinity) \X Router
  BY InfinityValue, NAssumption DEF StartCosts, StartPrevs

\* Routes lead to interfaces of the router.
LEMMA NewRoutesType ==
  ASSUME db \in Database, self \in Router
  PROVE  NewRoutes \in SUBSET [adv : Router, iface : Nat]
<1>1. db.links[self] \in Seq(Interface)
  BY DEF Database
<1>2. DOMAIN db.links[self] \subseteq Nat
  BY <1>1
<1>3. [adv |-> self, iface |-> 0] \in [adv : Router, iface : Nat]
  OBVIOUS
<1>4. [adv : Router \ {self}, iface : DOMAIN db.links[self]]
        \subseteq [adv : Router, iface : Nat]
  BY <1>2
<1>5. QED
  BY <1>3, <1>4 DEF NewRoutes

\* Every variable keeps its type: costs stay within 16 bits, and prevs is
\* never indexed outside of its bounds.
THEOREM TypeCorrect == Spec => []TypeOK
<1>1. Init => TypeOK
  <2> SUFFICES ASSUME Init PROVE TypeOK
    OBVIOUS
  <2>1. 1 \in Router
    BY NAssumption DEF Router
  <2>2. db \in Database
    BY DatabasesAssumption DEF Init
  <2>3. /\ costs \in [Router -> 0 .. Infinity]
        /\ prevs \in [Router -> 0 .. N]
        /\ pq \subseteq (0 .. Infinity) \X Router
    BY <2>1, StartType DEF Init
  <2>4. 1 \in 1 .. N + 1
    BY NAssumption
  <2>5. routes \in [Router -> SUBSET [adv : Router, iface : Nat]]
    BY DEF Init
  <2>6. QED
    BY <2>1, <2>2, <2>3, <2>4, <2>5 DEF Init, TypeOK
<1>2. TypeOK /\ [Next]_vars => TypeOK'
  <2> SUFFICES ASSUME TypeOK, [Next]_vars PROVE TypeOK'
    OBVIOUS
  <2>1. CASE Expand
    <3>1. PICK e \in pq :
            /\ costs' = [v \in Router |->
                  IF v \in Linked(e[2]) /\ Improves(e[1], e[2], v)
                  THEN PathCost(e[1], e[2], v) ELSE costs[v]]
            /\ prevs' = [v \in Router |->
                  IF v \in Linked(e[2]) /\ Improves(e[1], e[2], v)
                  THEN e[2] ELSE prevs[v]]
            /\ pq' \subseteq pq \cup {<<PathCost(e[1], e[2], v), v>> : v \in Linked(e[2])}
      BY <2>1 DEF Expand
    <3>2. e[1] \in Nat /\ e[2] \in Router
      BY DEF TypeOK
    <3>3. \A v \in Linked(e[2]) : /\ v \in Router
                                  /\ PathCost(e[1], e[2], v) \in 0 .. Infinity
      BY <3>2, LastLinkExists, PathCostType DEF TypeOK
    <3>4. costs' \in [Router -> 0 .. Infinity]
      BY <3>1, <3>3 DEF TypeOK
    <3>5. e[2] \in 0 .. N
      BY <3>2 DEF Router
    <3>6. prevs' \in [Router -> 0 .. N]
      BY <3>1, <3>5 DEF TypeOK
    <3>7. pq' \subseteq (0 .. Infinity) \X Router
      BY <3>1, <3>3 DEF TypeOK
    <3>8. QED
      BY <2>1, <3>4, <3>6, <3>7 DEF Expand, TypeOK
  <2>2. CASE CollectDirect
    <3>1. direct' \subseteq Router /\ at' \in 1 .. N + 1
      BY <2>2, NAssumption DEF CollectDirect
    <3>2. QED
      BY <2>2, <3>1 DEF CollectDirect, TypeOK
  <2>3. CASE FollowPrev
    <3>1. prevs[at] \in 0 .. N /\ prevs[at] # 0
      BY <2>3 DEF FollowPrev, TooFar, TypeOK
    <3>2. prevs[at] \in Router
      BY <3>1, NAssumption DEF Router
    <3>3. prevs' \in [Router -> 0 .. N]
      BY <2>3, <3>2 DEF FollowPrev, TypeOK
    <3>4. QED
      BY <2>3, <3>3 DEF FollowPrev, TypeOK
  <2>4. CASE NextRouter
    <3>1. at' \in 1 .. N + 1
      BY <2>4, NAssumption DEF NextRouter, Router
    <3>2. QED
      BY <2>4, <3>1 DEF NextRouter, TypeOK
  <2>5. CASE AddRoutes
    <3>1. routes' \in [Router -> SUBSET [adv : Router, iface : Nat]]
      BY <2>5, NewRoutesType DEF AddRoutes, TypeOK
    <3>2. CASE self = N
      BY <2>5, <3>1, <3>2 DEF AddRoutes, TypeOK
    <3>3. CASE self # N
      <4>1. self + 1 \in Router
        BY <3>3, NAssumption DEF Router, TypeOK
      <4>2. 1 \in 1 .. N + 1
        BY NAssumption
      <4>3. /\ self' = self + 1
            /\ costs' = StartCosts(self + 1)
            /\ prevs' = StartPrevs
            /\ pq' = {<<0, self + 1>>}
            /\ direct' = {} /\ at' = 1 /\ phase' = "search" /\ db' = db
        BY <2>5, <3>3 DEF AddRoutes
      <4>4. QED
        BY <3>1, <4>1, <4>2, <4>3, StartType DEF TypeOK
    <3>4. QED
      BY <3>2, <3>3
  <2>6. CASE UNCHANGED vars
    BY <2>6 DEF TypeOK, vars
  <2>7. QED
    BY <2>1, <2>2, <2>3, <2>4, <2>5, <2>6 DEF Next
<1>3. QED
  BY <1>1, <1>2, PTL DEF Spec
-----------------------------------------------------------------------------
(* The search                                                               *)

\* Every link costs W at the most, and a path through all routers fits into
\* the 16 bits of a cost.
SmallMetrics(W) ==
    /\ W \in Nat
    /\ W * N < Infinity
    /\ \A d \in Databases : \A u \in Router : \A i \in DOMAIN d.links[u] :
          CalcMetricForInterface(d.links[u][i]) <= W

\* No cost, of a router or in the queue, is more than W for each router that
\* has been reached. It is this that keeps sums from wrapping round.
CostsBounded(W) ==
    /\ \A v \in Reached : costs[v] <= W * (Cardinality(Reached) - 1)
    /\ \A e \in pq : e[1] <= W * (Cardinality(Reached) - 1)

\* The router that computes is reached at no cost.
Rooted == self \in Reached /\ costs[self] = 0 /\ prevs[self] = 0

\* An entry of the queue is out of date or holds the cost of its router.
QueueStale == \A e \in pq : e[2] \in Reached /\ costs[e[2]] <= e[1]

\* A router costs no less than its predecessor and the link from there.
PrevsLinked ==
    \A v \in Reached \ {self} :
        /\ prevs[v] \in Reached
        /\ v \in Linked(prevs[v])
        /\ costs[prevs[v]] + Metric(prevs[v], v) <= costs[v]

\* Nothing is left to gain over the links of u.
IsSettled(u) ==
    \A v \in Linked(u) :
        \/ costs[v] < costs[u] + Metric(u, v)
        \/ costs[v] = costs[u] + Metric(u, v) /\ prevs[v] <= u

\* A router is settled or its cost waits in the queue.
QueuedOrSettled ==
    \A u \in Reached : <<costs[u], u>> \in pq \/ IsSettled(u)

\* d gives every router a number that no path from self can undercut.
IsLowerBound(d) ==
    /\ d[self] = 0
    /\ \A u \in Router : \A v \in Linked(u) : d[v] <= d[u] + Metric(u, v)

\* No cost is less than the length of the shortest path.
CostsNotLow ==
    \A d \in [Router -> Nat] :
        IsLowerBound(d) => \A v \in Reached : d[v] <= costs[v]

SearchInv(W) ==
    /\ TypeOK
    /\ db \in Databases
    /\ phase = "search" => /\ Rooted
                           /\ CostsBounded(W)
                           /\ QueueStale
                           /\ PrevsLinked
                           /\ QueuedOrSettled
                           /\ CostsNotLow

\* Reached is a finite set of routers.
LEMMA ReachedSize ==
  ASSUME NEW S \in SUBSET Router
  PROVE  /\ IsFiniteSet(S)
         /\ Cardinality(S) \in Nat
         /\ Cardinality(S) <= N
         /\ S # {} => Cardinality(S) > 0
         /\ \A T \in SUBSET S : Cardinality(T) <= Cardinality(S)
         /\ \A T \in SUBSET S : T # S => Cardinality(T) + 1 <= Cardinality(S)
<1>1. IsFiniteSet(Router) /\ Cardinality(Router) = N
  <2>1. 1 \in Int /\ N \in Int /\ ~(1 > N) /\ N - 1 + 1 = N
    BY NAssumption
  <2>2. QED
    BY <2>1, FS_Interval DEF Router
<1>2. IsFiniteSet(S) /\ Cardinality(S) <= N
  BY <1>1, FS_Subset
<1>3. Cardinality(S) \in Nat
  BY <1>2, FS_CardinalityType
<1>4. S # {} => Cardinality(S) # 0
  BY <1>2, FS_EmptySet
<1>5. ASSUME NEW T \in SUBSET S
      PROVE  /\ Cardinality(T) \in Nat
             /\ Cardinality(T) <= Cardinality(S)
             /\ Cardinality(S) = Cardinality(T) => S = T
  BY <1>2, FS_Subset, FS_CardinalityType
<1>6. QED
  BY <1>2, <1>3, <1>4, <1>5

\* Links cost W at the most.
LEMMA MetricBound ==
  ASSUME NEW W, SmallMetrics(W), db \in Databases,
         NEW u \in Router, NEW v \in Linked(u)
  PROVE  Metric(u, v) \in Nat /\ Metric(u, v) <= W
<1>1. db \in Database
  BY DatabasesAssumption
<1>2. Metric(u, v) \in Nat
  BY <1>1, MetricType
<1>3. LastLink(u, v) \in DOMAIN RouterLSA(u)
  BY <1>1, LastLinkExists
<1>4. RouterLSA(u) = db.links[u]
  BY <1>3 DEF RouterLSA
<1>5. Metric(u, v) <= W
  BY <1>3, <1>4 DEF SmallMetrics, Metric
<1>6. QED
  BY <1>2, <1>5

\* Sums of costs do not wrap round.
LEMMA NoOverflow ==
  ASSUME NEW W, SmallMetrics(W), SearchInv(W), phase = "search",
         NEW e \in pq, NEW v \in Linked(e[2])
  PROVE  /\ e[1] \in Nat /\ e[2] \in Reached /\ v \in Router
         /\ Metric(e[2], v) \in Nat
         /\ PathCost(e[1], e[2], v) = e[1] + Metric(e[2], v)
         /\ e[1] + Metric(e[2], v) < Infinity
         /\ e[1] + Metric(e[2], v) <= W * Cardinality(Reached)
<1>1. e[1] \in Nat /\ e[2] \in Router /\ db \in Database
  BY DEF SearchInv, TypeOK
<1>2. e[2] \in Reached /\ e[1] <= W * (Cardinality(Reached) - 1)
  BY DEF SearchInv, QueueStale, CostsBounded
<1>3. v \in Router /\ Metric(e[2], v) \in Nat /\ Metric(e[2], v) <= W
  BY <1>1, MetricBound, LastLinkExists DEF SearchInv
<1>4. Reached \in SUBSET Router /\ Reached # {}
  BY <1>2 DEF Reached
<1>5. Cardinality(Reached) \in Nat /\ Cardinality(Reached) > 0 /\ Cardinality(Reached) <= N
  BY <1>4, ReachedSize
<1> DEFINE n == Cardinality(Reached)
<1>6. W * (n - 1) \in Nat /\ W * (n - 1) + W = W * n
  <2> HIDE DEF n
  <2>1. QED
    BY <1>5, ProductStep DEF SmallMetrics, n
<1>7. W * n \in Nat /\ W * N \in Nat /\ W * n <= W * N /\ W * N < Infinity
  <2> HIDE DEF n
  <2>1. QED
    BY <1>5, ProductMonotonic, NAssumption DEF SmallMetrics, n
<1>8. e[1] + Metric(e[2], v) <= W * n
  <2> HIDE DEF n
  <2>1. QED
    BY <1>1, <1>2, <1>3, <1>6 DEF SmallMetrics, n
<1>9. e[1] + Metric(e[2], v) < Infinity
  <2> HIDE DEF n
  <2>1. QED
    BY <1>1, <1>3, <1>7, <1>8, InfinityValue
<1>10. PathCost(e[1], e[2], v) = e[1] + Metric(e[2], v)
  BY <1>1, <1>3, <1>9, CutType, InfinityValue DEF PathCost
<1>11. QED
  BY <1>1, <1>2, <1>3, <1>8, <1>9, <1>10
\* What one turn of the search does when it takes entry <<c, u>>, router by
\* router: a cost is lowered and waits in the queue, or there was no gain.
Relaxes(c, u) ==
    /\ \A v \in Router :
          \/ /\ v \in Linked(u)
             /\ costs'[v] = c + Metric(u, v)
             /\ prevs'[v] = u
             /\ <<costs'[v], v>> \in pq'
             /\ \/ c + Metric(u, v) < costs[v]
                \/ c + Metric(u, v) = costs[v] /\ u < prevs[v]
          \/ /\ costs'[v] = costs[v]
             /\ prevs'[v] = prevs[v]
             /\ v \in Linked(u) =>
                  \/ costs[v] < c + Metric(u, v)
                  \/ costs[v] = c + Metric(u, v) /\ prevs[v] <= u
    /\ \A f \in pq : f # <<c, u>> => f \in pq'
    /\ \A f \in pq' :
          \/ f \in pq
          \/ f[2] \in Linked(u) /\ f[1] = c + Metric(u, f[2]) /\ f[1] = costs'[f[2]]
    /\ UNCHANGED <<db, self>>

\* A turn of the search relaxes all links of the router it takes.
LEMMA ExpandRelaxes ==
  ASSUME NEW W, SmallMetrics(W), SearchInv(W), Expand
  PROVE  \E e \in pq : Relaxes(e[1], e[2]) /\ e = <<e[1], e[2]>>
<1> DEFINE Better(e) == {v \in Linked(e[2]) : Improves(e[1], e[2], v)}
<1>1. PICK e \in pq :
        /\ costs' = [v \in Router |-> IF v \in Better(e)
                      THEN PathCost(e[1], e[2], v) ELSE costs[v]]
        /\ prevs' = [v \in Router |-> IF v \in Better(e) THEN e[2] ELSE prevs[v]]
        /\ pq' = (pq \ {e}) \cup {<<PathCost(e[1], e[2], v), v>> : v \in Better(e)}
  BY DEF Expand
<1> DEFINE c == e[1]
           u == e[2]
<1>2. phase = "search" /\ UNCHANGED <<db, self>>
  BY DEF Expand
<1>3. e = <<c, u>> /\ c \in Nat /\ u \in Router
  BY DEF SearchInv, TypeOK
<1>4. \A v \in Linked(u) :
        /\ v \in Router
        /\ Metric(u, v) \in Nat
        /\ PathCost(c, u, v) = c + Metric(u, v)
  BY <1>2, NoOverflow
<1>5. \A v \in Router : costs[v] \in Nat /\ prevs[v] \in Nat
  BY InfinityValue DEF SearchInv, TypeOK
<1>6. u \in Nat
  BY <1>3 DEF Router
<1>7. ASSUME NEW v \in Router
      PROVE  \/ /\ v \in Linked(u)
                /\ costs'[v] = c + Metric(u, v)
                /\ prevs'[v] = u
                /\ <<costs'[v], v>> \in pq'
                /\ \/ c + Metric(u, v) < costs[v]
                   \/ c + Metric(u, v) = costs[v] /\ u < prevs[v]
             \/ /\ costs'[v] = costs[v]
                /\ prevs'[v] = prevs[v]
                /\ v \in Linked(u) =>
                     \/ costs[v] < c + Metric(u, v)
                     \/ costs[v] = c + Metric(u, v) /\ prevs[v] <= u
  <2>1. CASE v \in Better(e)
    <3>1. v \in Linked(u) /\ Improves(c, u, v)
      BY <2>1
    <3>2. costs'[v] = PathCost(c, u, v) /\ prevs'[v] = u
      BY <1>1, <2>1
    <3>3. <<PathCost(c, u, v), v>> \in pq'
      BY <1>1, <2>1
    <3>4. QED
      BY <1>4, <3>1, <3>2, <3>3 DEF Improves
  <2>2. CASE v \notin Better(e)
    <3>1. costs'[v] = costs[v] /\ prevs'[v] = prevs[v]
      BY <1>1, <2>2
    <3>2. v \in Linked(u) => ~Improves(c, u, v)
      BY <2>2
    <3>3. v \in Linked(u) =>
            \/ costs[v] < c + Metric(u, v)
            \/ costs[v] = c + Metric(u, v) /\ prevs[v] <= u
      BY <1>3, <1>4, <1>5, <1>6, <3>2 DEF Improves
    <3>4. QED
      BY <3>1, <3>3
  <2>3. QED
    BY <2>1, <2>2
<1>8. \A f \in pq : f # <<c, u>> => f \in pq'
  BY <1>1, <1>3
<1>9. ASSUME NEW f \in pq', f \notin pq
      PROVE  f[2] \in Linked(u) /\ f[1] = c + Metric(u, f[2]) /\ f[1] = costs'[f[2]]
  <2>1. PICK v \in Better(e) : f = <<PathCost(c, u, v), v>>
    BY <1>1, <1>9
  <2>2. v \in Linked(u) /\ v \in Router
    BY <1>4
  <2>3. costs'[v] = PathCost(c, u, v)
    BY <1>1, <2>2
  <2>4. QED
    BY <1>4, <2>1, <2>2, <2>3
<1>10. Relaxes(c, u)
  BY <1>2, <1>7, <1>8, <1>9 DEF Relaxes
<1>11. QED
  BY <1>3, <1>10

\* Links and their costs do not change.
LEMMA LinksUnchanged ==
  ASSUME db' = db
  PROVE  \A u, v : /\ Linked(u)' = Linked(u)
                   /\ Metric(u, v)' = Metric(u, v)
  BY DEF Linked, Metric, LastLink, RouterLSA, CalcMetricForInterface

\* A turn of the search preserves the invariant: it reaches the neighbours of
\* u, lowers costs, and leaves behind in the queue what it lowers.
LEMMA ExpandInv ==
  ASSUME NEW W, SmallMetrics(W), SearchInv(W), Expand, TypeOK'
  PROVE  SearchInv(W)'
<1>1. PICK e \in pq : Relaxes(e[1], e[2]) /\ e = <<e[1], e[2]>>
  BY ExpandRelaxes
<1> DEFINE c == e[1]
           u == e[2]
<1>2. phase = "search" /\ db' = db /\ self' = self
  BY DEF Expand
<1>3. /\ c \in Nat /\ u \in Router /\ u \in Reached /\ costs[u] <= c
      /\ u \in Nat
  <2>1. u \in Reached /\ costs[u] <= c
    BY <1>2 DEF SearchInv, QueueStale
  <2>2. c \in Nat /\ u \in Router
    BY DEF SearchInv, TypeOK
  <2>3. QED
    BY <2>1, <2>2 DEF Router
<1>4. \A v \in Linked(u) : /\ v \in Router /\ Metric(u, v) \in Nat
                          /\ c + Metric(u, v) < Infinity
                          /\ c + Metric(u, v) <= W * Cardinality(Reached)
  BY <1>2, NoOverflow
<1>5. \A w \in Router : \A v \in Linked(w) : v \in Router /\ Metric(w, v) \in Nat
  BY MetricType, LastLinkExists DEF SearchInv, TypeOK
<1>6. \A v \in Router : /\ costs[v] \in Nat /\ prevs[v] \in Nat
                       /\ costs'[v] \in Nat /\ prevs'[v] \in Nat
  BY InfinityValue DEF SearchInv, TypeOK
<1>7. \A v, w : Linked(w)' = Linked(w) /\ Metric(w, v)' = Metric(w, v)
  BY <1>2, LinksUnchanged
<1> DEFINE Lowered(v) == /\ v \in Linked(u)
                         /\ costs'[v] = c + Metric(u, v)
                         /\ prevs'[v] = u
                         /\ <<costs'[v], v>> \in pq'
                         /\ \/ costs'[v] < costs[v]
                            \/ costs'[v] = costs[v] /\ u < prevs[v]
           Kept(v) == /\ costs'[v] = costs[v]
                      /\ prevs'[v] = prevs[v]
                      /\ v \in Linked(u) =>
                           \/ costs[v] < c + Metric(u, v)
                           \/ costs[v] = c + Metric(u, v) /\ prevs[v] <= u
<1>8. ASSUME NEW v \in Router PROVE Lowered(v) \/ Kept(v)
  BY <1>1 DEF Relaxes
<1>9. ASSUME NEW v \in Router PROVE costs'[v] <= costs[v]
  <2>1. CASE Lowered(v)
    BY <1>6, <2>1
  <2>2. CASE Kept(v)
    BY <1>6, <2>2
  <2>3. QED
    BY <1>8, <2>1, <2>2
<1>10. Reached \subseteq Reached' /\ Reached' \subseteq Router
  BY <1>6, <1>9, InfinityValue DEF Reached
<1>11. Rooted'
  <2>1. costs[self] = 0 /\ prevs[self] = 0 /\ self \in Reached /\ self \in Router
    BY <1>2 DEF SearchInv, Rooted, TypeOK
  <2>2. ~Lowered(self)
    BY <1>3, <1>6, <2>1
  <2>3. Kept(self)
    BY <1>8, <2>1, <2>2
  <2>4. QED
    BY <1>2, <1>10, <2>1, <2>3 DEF Rooted
<1>12. CostsBounded(W)'
  <2> DEFINE n == Cardinality(Reached)
             k == Cardinality(Reached')
  <2>1. /\ n \in Nat /\ k \in Nat /\ n > 0 /\ k > 0 /\ n <= k
        /\ Reached # Reached' => n + 1 <= k
    <3>1. Reached \in SUBSET Router /\ Reached' \in SUBSET Router
      BY <1>10
    <3>2. Reached \in SUBSET Reached' /\ Reached # {} /\ Reached' # {}
      BY <1>3, <1>10
    <3>3. n \in Nat /\ n > 0
      BY <3>1, <3>2, ReachedSize
    <3>4. /\ k \in Nat /\ k > 0 /\ n <= k
          /\ Reached # Reached' => n + 1 <= k
      BY <3>1, <3>2, ReachedSize
    <3>5. QED
      BY <3>3, <3>4
  <2>2. /\ W * (n - 1) \in Nat /\ W * (k - 1) \in Nat
        /\ W * (n - 1) <= W * (k - 1)
    <3> HIDE DEF n, k
    <3>1. n - 1 \in Nat /\ k - 1 \in Nat /\ n - 1 <= k - 1 /\ W \in Nat
      BY <2>1 DEF SmallMetrics
    <3>2. QED
      BY <3>1, ProductMonotonic
  <2>3. Reached # Reached' => W * n \in Nat /\ W * n <= W * (k - 1)
    <3> HIDE DEF n, k
    <3>1. Reached # Reached' => n \in Nat /\ k - 1 \in Nat /\ n <= k - 1 /\ W \in Nat
      BY <2>1 DEF SmallMetrics
    <3>2. QED
      BY <3>1, ProductMonotonic
  <2>4. /\ \A v \in Reached : costs[v] <= W * (n - 1)
        /\ \A f \in pq : f[1] <= W * (n - 1)
    BY <1>2 DEF SearchInv, CostsBounded
  <2>5. \A v \in Linked(u) : c + Metric(u, v) <= W * n
    BY <1>4
  <2>6. ASSUME NEW v \in Reached' PROVE costs'[v] <= W * (k - 1)
    <3>1. v \in Router
      BY <1>10
    <3>2. CASE v \in Reached
      <4> HIDE DEF n, k
      <4>1. QED
        BY <1>6, <1>9, <2>2, <2>4, <3>1, <3>2
    <3>3. CASE v \notin Reached
      <4>1. Reached # Reached'
        BY <3>3
      <4>2. ~Kept(v)
        BY <3>1, <3>3 DEF Reached
      <4>3. costs'[v] <= W * n
        BY <1>8, <2>5, <3>1, <4>2
      <4> HIDE DEF n, k
      <4>4. QED
        BY <1>6, <2>2, <2>3, <3>1, <4>1, <4>3
    <3>4. QED
      BY <3>2, <3>3
  <2>7. ASSUME NEW f \in pq' PROVE f[1] <= W * (k - 1)
    <3>1. CASE f \in pq
      <4>1. f[1] \in Nat
        BY <3>1 DEF SearchInv, TypeOK
      <4> HIDE DEF n, k
      <4>2. QED
        BY <2>2, <2>4, <3>1, <4>1
    <3>2. CASE f \notin pq
      <4>1. f[2] \in Linked(u) /\ f[1] = c + Metric(u, f[2]) /\ f[1] = costs'[f[2]]
        BY <1>1, <3>2 DEF Relaxes
      <4>2. f[2] \in Router /\ costs'[f[2]] < Infinity
        BY <1>4, <4>1
      <4>3. f[2] \in Reached'
        BY <4>2 DEF Reached
      <4>4. QED
        BY <2>6, <4>1, <4>3
    <3>3. QED
      BY <3>1, <3>2
  <2>8. QED
    BY <2>6, <2>7 DEF CostsBounded
<1>13. QueueStale'
  <2> SUFFICES ASSUME NEW f \in pq' PROVE f[2] \in Reached' /\ costs'[f[2]] <= f[1]
    BY DEF QueueStale
  <2>1. CASE f \in pq
    <3>1. f[2] \in Reached /\ costs[f[2]] <= f[1] /\ f[2] \in Router /\ f[1] \in Nat
      BY <1>2, <2>1 DEF SearchInv, QueueStale, TypeOK
    <3>2. QED
      BY <1>6, <1>9, <1>10, <3>1
  <2>2. CASE f \notin pq
    <3>1. f[2] \in Linked(u) /\ f[1] = c + Metric(u, f[2]) /\ f[1] = costs'[f[2]]
      BY <1>1, <2>2 DEF Relaxes
    <3>2. f[2] \in Router /\ costs'[f[2]] < Infinity
      BY <1>4, <3>1
    <3>3. f[2] \in Reached'
      BY <3>2 DEF Reached
    <3>4. QED
      BY <1>6, <3>1, <3>2, <3>3
  <2>3. QED
    BY <2>1, <2>2
<1>14. PrevsLinked'
  <2> SUFFICES ASSUME NEW v \in Reached', v # self
               PROVE  /\ prevs'[v] \in Reached'
                      /\ v \in Linked(prevs'[v])
                      /\ costs'[prevs'[v]] + Metric(prevs'[v], v) <= costs'[v]
    BY <1>2, <1>7 DEF PrevsLinked
  <2>1. v \in Router
    BY <1>10
  <2>2. CASE /\ v \in Linked(u) /\ costs'[v] = c + Metric(u, v)
             /\ prevs'[v] = u
    BY <1>3, <1>4, <1>6, <1>9, <1>10, <2>2
  <2>3. CASE costs'[v] = costs[v] /\ prevs'[v] = prevs[v]
    <3>1. v \in Reached
      BY <2>1, <2>3 DEF Reached
    <3>2. /\ prevs[v] \in Reached /\ v \in Linked(prevs[v])
          /\ costs[prevs[v]] + Metric(prevs[v], v) <= costs[v]
      BY <1>2, <3>1 DEF SearchInv, PrevsLinked
    <3>3. prevs[v] \in Router
      BY <3>2 DEF Reached
    <3>4. Metric(prevs[v], v) \in Nat
      BY <1>5, <3>2, <3>3
    <3>5. QED
      BY <1>6, <1>9, <1>10, <2>1, <2>3, <3>2, <3>3, <3>4
  <2>4. QED
    BY <1>1, <2>1, <2>2, <2>3 DEF Relaxes
<1>15. QueuedOrSettled'
  <2> SUFFICES ASSUME NEW w \in Reached', <<costs'[w], w>> \notin pq'
               PROVE  \A v \in Linked(w) :
                         \/ costs'[v] < costs'[w] + Metric(w, v)
                         \/ costs'[v] = costs'[w] + Metric(w, v) /\ prevs'[v] <= w
    BY <1>7 DEF QueuedOrSettled, IsSettled
  <2>1. w \in Router /\ w \in Nat
    BY <1>10 DEF Router
  <2>2. Kept(w)
    BY <1>8, <2>1
  <2>3. w \in Reached
    BY <2>1, <2>2 DEF Reached
  <2> SUFFICES ASSUME NEW v \in Linked(w)
               PROVE  \/ costs'[v] < costs[w] + Metric(w, v)
                      \/ costs'[v] = costs[w] + Metric(w, v) /\ prevs'[v] <= w
    BY <2>2
  <2>4. v \in Router /\ Metric(w, v) \in Nat
    BY <1>5, <2>1
  <2>5. CASE <<costs[w], w>> = e
    <3>1. w = u /\ costs[w] = c
      BY <2>5
    <3>2. CASE Lowered(v)
      BY <1>3, <3>1, <3>2
    <3>3. CASE Kept(v)
      BY <3>1, <3>3
    <3>4. QED
      BY <1>8, <2>4, <3>2, <3>3
  <2>6. CASE <<costs[w], w>> # e
    <3>1. <<costs[w], w>> \notin pq
      BY <1>1, <2>2, <2>6 DEF Relaxes
    <3>2. \/ costs[v] < costs[w] + Metric(w, v)
          \/ costs[v] = costs[w] + Metric(w, v) /\ prevs[v] <= w
      BY <1>2, <2>3, <3>1 DEF SearchInv, QueuedOrSettled, IsSettled
    <3>3. costs[w] \in Nat
      BY <1>6, <2>1
    <3>4. CASE Lowered(v)
      BY <1>3, <1>6, <2>1, <2>4, <3>2, <3>3, <3>4
    <3>5. CASE Kept(v)
      BY <3>2, <3>5
    <3>6. QED
      BY <1>8, <2>4, <3>4, <3>5
  <2>7. QED
    BY <2>5, <2>6
<1>16. CostsNotLow'
  <2> SUFFICES ASSUME NEW d \in [Router -> Nat], IsLowerBound(d)',
                      NEW v \in Reached'
               PROVE  d[v] <= costs'[v]
    BY DEF CostsNotLow
  <2>1. IsLowerBound(d)
    BY <1>2, <1>7 DEF IsLowerBound
  <2>2. \A w \in Reached : d[w] <= costs[w]
    BY <1>2, <2>1 DEF SearchInv, CostsNotLow
  <2>3. v \in Router
    BY <1>10
  <2>4. CASE v \in Linked(u) /\ costs'[v] = c + Metric(u, v)
    <3>1. d[v] <= d[u] + Metric(u, v)
      BY <1>3, <2>1, <2>4 DEF IsLowerBound
    <3>2. d[u] <= costs[u] /\ d[u] \in Nat /\ d[v] \in Nat
      BY <1>3, <2>2, <2>3
    <3>3. QED
      BY <1>3, <1>4, <1>6, <2>4, <3>1, <3>2
  <2>5. CASE costs'[v] = costs[v]
    BY <2>2, <2>3, <2>5 DEF Reached
  <2>6. QED
    BY <1>1, <2>3, <2>4, <2>5 DEF Relaxes
<1>17. QED
  BY <1>2, <1>11, <1>12, <1>13, <1>14, <1>15, <1>16 DEF SearchInv
\* A search begins.
IsStart ==
    /\ db \in Databases
    /\ costs = StartCosts(self)
    /\ prevs = StartPrevs
    /\ pq = {<<0, self>>}

\* It begins with the router itself, reached at no cost, and nothing else.
LEMMA StartInv ==
  ASSUME NEW W, SmallMetrics(W), TypeOK, IsStart
  PROVE  SearchInv(W)
<1>1. self \in Router /\ db \in Database
  BY DEF TypeOK
<1> USE DEF IsStart
<1>2. /\ \A v \in Router : costs[v] = IF v = self THEN 0 ELSE Infinity
      /\ \A v \in Router : prevs[v] = 0
  BY DEF StartCosts, StartPrevs
<1>3. Reached = {self}
  BY <1>1, <1>2, InfinityValue DEF Reached
<1>4. Rooted
  BY <1>1, <1>2, <1>3 DEF Rooted
<1>5. CostsBounded(W)
  <2>1. Cardinality(Reached) \in Nat /\ Cardinality(Reached) > 0
    BY <1>1, <1>3, ReachedSize
  <2>2. W * (Cardinality(Reached) - 1) \in Nat
    BY <2>1, ProductStep DEF SmallMetrics
  <2>3. \A v \in Reached : costs[v] = 0
    BY <1>1, <1>2, <1>3
  <2>4. \A e \in pq : e[1] = 0
    OBVIOUS
  <2>5. QED
    BY <2>2, <2>3, <2>4 DEF CostsBounded
<1>6. QueueStale
  BY <1>1, <1>2, <1>3 DEF QueueStale
<1>7. PrevsLinked
  BY <1>3 DEF PrevsLinked
<1>8. QueuedOrSettled
  BY <1>1, <1>2, <1>3 DEF QueuedOrSettled
<1>9. CostsNotLow
  BY <1>1, <1>2, <1>3 DEF CostsNotLow, IsLowerBound
<1>10. QED
  BY <1>4, <1>5, <1>6, <1>7, <1>8, <1>9 DEF SearchInv

\* The invariant of the search holds for every router that computes.
THEOREM SearchInvariant ==
  ASSUME NEW W, SmallMetrics(W)
  PROVE  Spec => []SearchInv(W)
<1>1. TypeOK /\ IsStart => SearchInv(W)
  BY StartInv
<1>2. (TypeOK /\ IsStart => SearchInv(W))'
  BY <1>1, PTL
<1>3. TypeOK /\ Init => SearchInv(W)
  BY <1>1 DEF Init, IsStart
<1>4. SearchInv(W) /\ TypeOK' /\ [Next]_vars => SearchInv(W)'
  <2> SUFFICES ASSUME SearchInv(W), TypeOK', [Next]_vars PROVE SearchInv(W)'
    OBVIOUS
  <2>1. CASE Expand
    BY <2>1, ExpandInv
  <2>2. CASE CollectDirect
    BY <2>2 DEF CollectDirect, SearchInv
  <2>3. CASE FollowPrev
    BY <2>3 DEF FollowPrev, SearchInv
  <2>4. CASE NextRouter
    BY <2>4 DEF NextRouter, SearchInv
  <2>5. CASE AddRoutes
    <3>1. db' \in Databases
      BY <2>5 DEF AddRoutes, SearchInv
    <3>2. CASE self = N
      BY <2>5, <3>1, <3>2 DEF AddRoutes, SearchInv
    <3>3. CASE self # N
      <4>1. IsStart'
        BY <2>5, <3>1, <3>3 DEF AddRoutes, IsStart, StartCosts, StartPrevs
      <4>2. QED
        BY <1>2, <4>1
    <3>4. QED
      BY <3>2, <3>3
  <2>6. CASE UNCHANGED vars
    <3>1. \A v, w : Linked(w)' = Linked(w) /\ Metric(w, v)' = Metric(w, v)
      BY <2>6, LinksUnchanged DEF vars
    <3>2. QED
      BY <2>6, <3>1 DEF vars, SearchInv, Rooted, CostsBounded, QueueStale,
                        PrevsLinked, QueuedOrSettled, IsSettled, CostsNotLow,
                        IsLowerBound, Reached
  <2>7. QED
    BY <2>1, <2>2, <2>3, <2>4, <2>5, <2>6 DEF Next
<1>5. QED
  BY <1>3, <1>4, TypeCorrect, PTL DEF Spec
-----------------------------------------------------------------------------
(* What the search promises                                                 *)

\* At the end of the search the costs are lengths of shortest paths: over no
\* link can one be undercut, nothing that can be reached is left out, and no
\* cost is less than the length of a path has to be. (The function of the
\* distances is a lower bound, and the costs are the greatest of all.)
LeastCosts ==
    Searched =>
        /\ costs[self] = 0
        /\ \A u \in Reached : \A v \in Linked(u) :
              v \in Reached /\ costs[v] <= costs[u] + Metric(u, v)
        /\ CostsNotLow

\* With an empty queue every router that was reached is settled.
LEMMA AllSettled ==
  ASSUME NEW W, SmallMetrics(W), SearchInv(W), Searched,
         NEW u \in Reached, NEW v \in Linked(u)
  PROVE  /\ u \in Router /\ v \in Reached
         /\ Metric(u, v) \in Nat /\ costs[u] \in Nat /\ costs[v] \in Nat
         /\ \/ costs[v] < costs[u] + Metric(u, v)
            \/ costs[v] = costs[u] + Metric(u, v) /\ prevs[v] <= u
<1>1. u \in Router /\ db \in Database /\ db \in Databases
  BY DEF Reached, SearchInv, TypeOK
<1>2. v \in Router /\ Metric(u, v) \in Nat /\ Metric(u, v) <= W
  BY <1>1, LastLinkExists, MetricBound
<1>3. costs[u] \in Nat /\ costs[v] \in Nat
  BY <1>1, <1>2, InfinityValue DEF SearchInv, TypeOK
<1>4. IsSettled(u)
  BY DEF Searched, SearchInv, QueuedOrSettled
<1>5. \/ costs[v] < costs[u] + Metric(u, v)
      \/ costs[v] = costs[u] + Metric(u, v) /\ prevs[v] <= u
  BY <1>4 DEF IsSettled
<1> DEFINE n == Cardinality(Reached)
<1>6. n \in Nat /\ n > 0 /\ n <= N
  BY ReachedSize DEF Reached
<1>7. costs[u] <= W * (n - 1)
  BY DEF Searched, SearchInv, CostsBounded
<1>8. W * (n - 1) + W < Infinity /\ W * (n - 1) \in Nat /\ W \in Nat
  <2> HIDE DEF n
  <2>1. W * (n - 1) \in Nat /\ W * (n - 1) + W = W * n
    BY <1>6, ProductStep DEF SmallMetrics
  <2>2. W * n \in Nat /\ W * N \in Nat /\ W * n <= W * N
    BY <1>6, NAssumption, ProductMonotonic DEF SmallMetrics
  <2>3. W * N < Infinity /\ W \in Nat
    BY DEF SmallMetrics
  <2>4. QED
    BY <2>1, <2>2, <2>3, InfinityValue
<1>9. costs[v] < Infinity
  <2> HIDE DEF n
  <2>1. QED
    BY <1>2, <1>3, <1>5, <1>7, <1>8, InfinityValue
<1>10. QED
  BY <1>1, <1>2, <1>3, <1>5, <1>9 DEF Reached

\* The search of every router finds shortest paths, in any network whose
\* longest path still fits into 16 bits.
THEOREM SearchFindsLeastCosts ==
  ASSUME NEW W, SmallMetrics(W)
  PROVE  Spec => []LeastCosts
<1>1. SearchInv(W) => LeastCosts
  <2> SUFFICES ASSUME SearchInv(W), Searched
               PROVE  /\ costs[self] = 0
                      /\ \A u \in Reached : \A v \in Linked(u) :
                            v \in Reached /\ costs[v] <= costs[u] + Metric(u, v)
                      /\ CostsNotLow
    BY DEF LeastCosts
  <2>1. costs[self] = 0 /\ CostsNotLow
    BY DEF Searched, SearchInv, Rooted
  <2>2. ASSUME NEW u \in Reached, NEW v \in Linked(u)
        PROVE  v \in Reached /\ costs[v] <= costs[u] + Metric(u, v)
    BY AllSettled
  <2>3. QED
    BY <2>1, <2>2
<1>2. QED
  BY <1>1, SearchInvariant, PTL

\* The tie is broken as the comment on line 2130 says: of all predecessors on
\* paths of least cost the search keeps the one with the smallest id.
THEOREM SearchPrefersSmallIds ==
  ASSUME NEW W, SmallMetrics(W)
  PROVE  Spec => []SmallestPredecessor
<1>1. SearchInv(W) => SmallestPredecessor
  <2> SUFFICES ASSUME SearchInv(W), Searched, NEW v \in Reached \ {self}
               PROVE  /\ prevs[v] \in Router
                      /\ IsTight(prevs[v], v)
                      /\ \A u \in Router : IsTight(u, v) => prevs[v] <= u
    BY DEF SmallestPredecessor
  <2>1. /\ prevs[v] \in Reached /\ v \in Linked(prevs[v])
        /\ costs[prevs[v]] + Metric(prevs[v], v) <= costs[v]
    BY DEF Searched, SearchInv, PrevsLinked
  <2>2. IsTight(prevs[v], v)
    BY <2>1, AllSettled DEF IsTight
  <2>3. ASSUME NEW u \in Router, IsTight(u, v) PROVE prevs[v] <= u
    BY <2>3, AllSettled DEF IsTight
  <2>4. QED
    BY <2>1, <2>2, <2>3 DEF Reached
<1>2. QED
  BY <1>1, SearchInvariant, PTL

-----------------------------------------------------------------------------
(* Induction over numbers                                                   *)

\* The minimum of a set of natural numbers is its least element.
LEMMA MinIsLeast ==
  ASSUME NEW S \in SUBSET Nat, S # {}
  PROVE  Min(S) \in S /\ \A k \in S : Min(S) <= k
<1>1. \E m \in S : \A k \in S : m <= k
  BY LeastElement
<1>2. QED
  BY <1>1 DEF Min

-----------------------------------------------------------------------------
(* The reference distances                                                  *)

\* Before the first round only u itself is reached.
Unrelaxed(u) == [v \in Router |-> IF v = u THEN 0 ELSE Infinity]

\* f is the table of the first k rounds.
IsRounds(f, u, k) ==
    f = [j \in 0 .. k |-> IF j = 0 THEN Unrelaxed(u) ELSE Relaxed(f[j - 1])]

\* The rounds are well defined: each depends on the one before only.
LEMMA RoundsExist == \A u : \E f : IsRounds(f, u, N)
<1> SUFFICES ASSUME NEW u PROVE \E f : IsRounds(f, u, N)
  OBVIOUS
<1> DEFINE S == {k \in 0 .. N : \E f : IsRounds(f, u, k)}
<1>1. 0 \in S
  <2> DEFINE f == [j \in 0 .. 0 |-> Unrelaxed(u)]
  <2>1. f = [j \in 0 .. 0 |-> IF j = 0 THEN Unrelaxed(u) ELSE Relaxed(f[j - 1])]
    OBVIOUS
  <2> HIDE DEF f
  <2>2. IsRounds(f, u, 0)
    BY <2>1 DEF IsRounds
  <2>3. QED
    BY <2>2, NAssumption
<1>2. ASSUME NEW k \in 0 .. N, k \in S, k < N PROVE k + 1 \in S
  <2>1. PICK f : IsRounds(f, u, k)
    BY <1>2
  <2> DEFINE h == [j \in 0 .. k + 1 |-> IF j = k + 1 THEN Relaxed(f[k]) ELSE f[j]]
             g == [j \in 0 .. k + 1 |-> IF j = 0 THEN Unrelaxed(u) ELSE Relaxed(h[j - 1])]
  <2>2. ASSUME NEW j \in 0 .. k
        PROVE  f[j] = IF j = 0 THEN Unrelaxed(u) ELSE Relaxed(f[j - 1])
    BY <2>1, Zenon DEF IsRounds
  <2>3. ASSUME NEW j \in 0 .. k + 1 PROVE h[j] = g[j]
    <3>1. CASE j = k + 1
      <4>1. j # 0 /\ j - 1 = k /\ j - 1 # k + 1 /\ j - 1 \in 0 .. k + 1
        BY <3>1
      <4>2. h[j - 1] = f[k]
        BY <4>1
      <4>3. h[j] = Relaxed(f[k])
        BY <3>1
      <4> HIDE DEF h
      <4>4. g[j] = Relaxed(h[j - 1])
        BY <4>1
      <4>5. QED
        BY <4>2, <4>3, <4>4
    <3>2. CASE j # k + 1
      <4>1. j \in 0 .. k /\ h[j] = f[j]
        BY <3>2
      <4>2. j # 0 => j - 1 \in 0 .. k + 1 /\ j - 1 # k + 1
        BY <4>1
      <4>3. j # 0 => h[j - 1] = f[j - 1]
        BY <4>2
      <4> HIDE DEF h
      <4>4. g[j] = IF j = 0 THEN Unrelaxed(u) ELSE Relaxed(h[j - 1])
        OBVIOUS
      <4>5. QED
        BY <2>2, <4>1, <4>3, <4>4
    <3>3. QED
      BY <3>1, <3>2
  <2>4. h = g
    <3>1. h = [j \in 0 .. k + 1 |-> h[j]] /\ g = [j \in 0 .. k + 1 |-> g[j]]
      OBVIOUS
    <3> HIDE DEF h, g
    <3>2. QED
      BY <2>3, <3>1
  <2>5. IsRounds(h, u, k + 1)
    <3>1. h = [j \in 0 .. k + 1 |-> IF j = 0 THEN Unrelaxed(u) ELSE Relaxed(h[j - 1])]
      BY <2>4, Zenon
    <3> HIDE DEF h
    <3>2. QED
      BY <3>1 DEF IsRounds
  <2>6. k + 1 \in 0 .. N
    BY <1>2, NAssumption
  <2>7. QED
    BY <2>5, <2>6
<1>3. 0 .. N \subseteq S
  <2> HIDE DEF S
  <2>1. QED
    BY <1>1, <1>2, NAssumption, IntervalInduction
<1>4. QED
  BY <1>3, NAssumption

\* Within conforms to its equation.
LEMMA WithinRounds ==
  ASSUME NEW u
  PROVE  /\ Within(u)[0] = Unrelaxed(u)
         /\ \A k \in 0 .. N : k < N => Within(u)[k + 1] = Relaxed(Within(u)[k])
<1>1. IsRounds(Within(u), u, N)
  <2>1. Within(u) = CHOOSE f : IsRounds(f, u, N)
    BY Zenon DEF Within, IsRounds, Unrelaxed
  <2>2. QED
    BY <2>1, RoundsExist
<1> DEFINE D == Within(u)
<1>2. ASSUME NEW j \in 0 .. N
      PROVE  D[j] = IF j = 0 THEN Unrelaxed(u) ELSE Relaxed(D[j - 1])
  <2> HIDE DEF D
  <2>1. D = [j_1 \in 0 .. N |-> IF j_1 = 0 THEN Unrelaxed(u) ELSE Relaxed(D[j_1 - 1])]
    BY <1>1 DEF D, IsRounds
  <2>2. QED
    BY <2>1, Zenon
<1> HIDE DEF D
<1>3. D[0] = Unrelaxed(u)
  BY <1>2, NAssumption
<1>4. ASSUME NEW k \in 0 .. N, k < N PROVE D[k + 1] = Relaxed(D[k])
  <2>1. k + 1 \in 0 .. N /\ k + 1 # 0 /\ k + 1 - 1 = k
    BY <1>4, NAssumption
  <2>2. QED
    BY <1>2, <2>1
<1>5. QED
  BY <1>3, <1>4 DEF D

\* What a round does to a table of costs: each entry is kept or replaced by the cost over
\* a link, whichever is the least.
LEMMA RelaxedEntry ==
  ASSUME db \in Database, NEW c \in [Router -> Nat], NEW v \in Router
  PROVE  /\ Relaxed(c) \in [Router -> Nat]
         /\ Relaxed(c)[v] <= c[v]
         /\ \A w \in Router : v \in Linked(w) => Relaxed(c)[v] <= c[w] + Metric(w, v)
         /\ \/ Relaxed(c)[v] = c[v]
            \/ \E w \in Router : v \in Linked(w) /\ Relaxed(c)[v] = c[w] + Metric(w, v)
<1> DEFINE Over(x) == {c[w] + Metric(w, x) : w \in {w \in Router : x \in Linked(w)}}
           All(x) == {c[x]} \cup Over(x)
<1>1. ASSUME NEW x \in Router
      PROVE  All(x) \in SUBSET Nat /\ All(x) # {}
  <2>1. \A w \in Router : x \in Linked(w) => Metric(w, x) \in Nat
    BY MetricType
  <2>2. QED
    BY <2>1
<1>2. ASSUME NEW x \in Router
      PROVE  Min(All(x)) \in All(x) /\ \A k \in All(x) : Min(All(x)) <= k
  <2> HIDE DEF All
  <2>1. QED
    BY <1>1, MinIsLeast
<1>3. Relaxed(c) = [x \in Router |-> Min(All(x))]
  BY DEF Relaxed
<1>4. \A x \in Router : Min(All(x)) \in Nat
  BY <1>1, <1>2
<1>5. Relaxed(c) \in [Router -> Nat] /\ Relaxed(c)[v] = Min(All(v))
  <2> HIDE DEF All
  <2>1. QED
    BY <1>3, <1>4
<1>6. c[v] \in All(v) /\ \A w \in Router : v \in Linked(w) => c[w] + Metric(w, v) \in All(v)
  OBVIOUS
<1>7. Min(All(v)) = c[v] \/ \E w \in Router : v \in Linked(w) /\ Min(All(v)) = c[w] + Metric(w, v)
  BY <1>2
<1>8. QED
  <2> HIDE DEF All
  <2>1. QED
    BY <1>2, <1>5, <1>6, <1>7

\* Tables of costs hold natural numbers and put u at no cost.
LEMMA WithinType ==
  ASSUME db \in Database, NEW u \in Router, NEW k \in 0 .. N
  PROVE  Within(u)[k] \in [Router -> Nat] /\ Within(u)[k][u] = 0
<1> DEFINE S == {j \in 0 .. N : Within(u)[j] \in [Router -> Nat] /\ Within(u)[j][u] = 0}
<1>1. 0 \in S
  <2>1. Unrelaxed(u) \in [Router -> Nat] /\ Unrelaxed(u)[u] = 0
    BY InfinityValue DEF Unrelaxed
  <2>2. Within(u)[0] = Unrelaxed(u) /\ 0 \in 0 .. N
    BY WithinRounds, NAssumption
  <2>3. QED
    BY <2>1, <2>2
<1>2. ASSUME NEW j \in 0 .. N, j \in S, j < N PROVE j + 1 \in S
  <2>1. Within(u)[j + 1] = Relaxed(Within(u)[j]) /\ j + 1 \in 0 .. N
    BY <1>2, WithinRounds, NAssumption
  <2>2. Relaxed(Within(u)[j]) \in [Router -> Nat] /\ Relaxed(Within(u)[j])[u] <= Within(u)[j][u]
    BY <1>2, RelaxedEntry
  <2>3. QED
    BY <1>2, <2>1, <2>2
<1>3. 0 .. N \subseteq S
  <2> HIDE DEF S
  <2>1. QED
    BY <1>1, <1>2, NAssumption, IntervalInduction
<1>4. QED
  BY <1>3

\* A round takes an entry down to the cost over some link, or leaves it.
LEMMA WithinStep ==
  ASSUME db \in Database, NEW u \in Router, NEW k \in 0 .. N, k < N, NEW v \in Router
  PROVE  /\ Within(u)[k + 1][v] <= Within(u)[k][v]
         /\ \A w \in Router : v \in Linked(w) =>
              Within(u)[k + 1][v] <= Within(u)[k][w] + Metric(w, v)
         /\ \/ Within(u)[k + 1][v] = Within(u)[k][v]
            \/ \E w \in Router :
                 v \in Linked(w) /\ Within(u)[k + 1][v] = Within(u)[k][w] + Metric(w, v)
<1>1. Within(u)[k + 1] = Relaxed(Within(u)[k]) /\ Within(u)[k] \in [Router -> Nat]
  BY WithinRounds, WithinType
<1>2. QED
  BY <1>1, RelaxedEntry

\* Later tables have smaller entries.
LEMMA WithinMonotone ==
  ASSUME db \in Database, NEW u \in Router, NEW v \in Router,
         NEW j \in 0 .. N, NEW k \in 0 .. N, j <= k
  PROVE  Within(u)[k][v] <= Within(u)[j][v]
<1> DEFINE S == {i \in 0 .. N : j <= i => Within(u)[i][v] <= Within(u)[j][v]}
<1>1. \A i \in 0 .. N : Within(u)[i][v] \in Nat
  BY WithinType
<1>2. 0 \in S
  BY <1>1, NAssumption
<1>3. ASSUME NEW i \in 0 .. N, i \in S, i < N PROVE i + 1 \in S
  <2>1. Within(u)[i + 1][v] <= Within(u)[i][v] /\ i + 1 \in 0 .. N
    BY <1>3, WithinStep, NAssumption
  <2>2. CASE j = i + 1
    BY <1>1, <2>1, <2>2
  <2>3. CASE j # i + 1
    BY <1>1, <1>3, <2>1, <2>3
  <2>4. QED
    BY <2>2, <2>3
<1>4. 0 .. N \subseteq S
  <2> HIDE DEF S
  <2>1. QED
    BY <1>2, <1>3, NAssumption, IntervalInduction
<1>5. QED
  BY <1>4

\* An entry that reached anything costs W for each round at the most.
LEMMA WithinBound ==
  ASSUME NEW W, SmallMetrics(W), db \in Databases, NEW u \in Router, NEW v \in Router,
         NEW k \in 0 .. N
  PROVE  Within(u)[k][v] = Infinity \/ (W * k \in Nat /\ Within(u)[k][v] <= W * k)
<1>1. db \in Database /\ W \in Nat
  BY DatabasesAssumption DEF SmallMetrics
<1> DEFINE S == {i \in 0 .. N : \A x \in Router :
                   Within(u)[i][x] = Infinity \/ Within(u)[i][x] <= W * i}
<1>2. ASSUME NEW i \in 0 .. N, NEW x \in Router PROVE Within(u)[i][x] \in Nat
  BY <1>1, WithinType
<1>3. 0 \in S
  <2>1. W * 0 = 0 /\ 0 \in 0 .. N
    BY <1>1, NAssumption
  <2>2. ASSUME NEW x \in Router
        PROVE  Within(u)[0][x] = Infinity \/ Within(u)[0][x] <= W * 0
    <3>1. Within(u)[0] = Unrelaxed(u)
      BY WithinRounds
    <3>2. Unrelaxed(u)[x] = Infinity \/ Unrelaxed(u)[x] = 0
      BY DEF Unrelaxed
    <3>3. QED
      BY <2>1, <3>1, <3>2
  <2>3. QED
    BY <2>1, <2>2
<1>4. ASSUME NEW i \in 0 .. N, i \in S, i < N PROVE i + 1 \in S
  <2>1. i + 1 \in 0 .. N /\ i + 1 > 0 /\ i + 1 - 1 = i
    BY <1>4, NAssumption
  <2>2. W * i \in Nat /\ W * i + W = W * (i + 1)
    BY <1>1, <2>1, ProductStep
  <2>3. W * i + W < Infinity
    <3>1. W * (i + 1) <= W * N
      BY <1>1, <2>1, NAssumption, ProductMonotonic
    <3>2. W * (i + 1) \in Nat /\ W * N \in Nat
      BY <1>1, <2>1, NAssumption, ProductMonotonic
    <3>3. QED
      BY <2>2, <3>1, <3>2, InfinityValue DEF SmallMetrics
  <2>4. ASSUME NEW x \in Router
        PROVE  Within(u)[i + 1][x] = Infinity \/ Within(u)[i + 1][x] <= W * (i + 1)
    <3> DEFINE a == Within(u)[i + 1][x]
               b == Within(u)[i]
               m == W * i
               n == W * (i + 1)
    <3>1. a <= b[x] /\ (a = b[x] \/ \E w \in Router : x \in Linked(w) /\ a = b[w] + Metric(w, x))
      BY <1>1, <1>4, WithinStep
    <3>2. a \in Nat /\ \A w \in Router : b[w] \in Nat /\ (b[w] = Infinity \/ b[w] <= W * i)
      BY <1>2, <1>4, <2>1
    <3>5. m \in Nat /\ m + W = n /\ m + W < Infinity /\ W \in Nat
      BY <1>1, <2>2, <2>3
    <3>6. \A w \in Router : b[w] \in Nat /\ (b[w] = Infinity \/ b[w] <= m)
      BY <3>2
    <3> HIDE DEF a, b, m, n
    <3>3. ASSUME a = b[x] PROVE a = Infinity \/ a <= n
      BY <3>3, <3>5, <3>6
    <3>4. ASSUME NEW w \in Router, x \in Linked(w), a = b[w] + Metric(w, x)
          PROVE  a = Infinity \/ a <= n
      <4>1. Metric(w, x) \in Nat /\ Metric(w, x) <= W
        BY <3>4, MetricBound
      <4>2. b[x] = Infinity \/ b[x] <= m
        BY <3>6
      <4>3. b[x] \in Nat /\ b[w] \in Nat
        BY <3>6
      <4>4. CASE b[w] = Infinity
        BY <3>1, <3>2, <3>4, <3>5, <4>1, <4>2, <4>3, <4>4, InfinityValue
      <4>5. CASE b[w] <= m
        BY <3>4, <3>5, <4>1, <4>3, <4>5
      <4>6. QED
        BY <3>6, <4>4, <4>5
    <3>7. QED
      BY <3>1, <3>3, <3>4 DEF a, n
  <2>5. QED
    BY <2>1, <2>4
<1>5. 0 .. N \subseteq S
  <2> HIDE DEF S
  <2>1. QED
    BY <1>3, <1>4, NAssumption, IntervalInduction
<1>6. W * k \in Nat
  BY <1>1, ProductMonotonic
<1>7. QED
  BY <1>5, <1>6

\* The routers whose entry is final after k rounds.
Stable(u, k) == {v \in Router : Within(u)[k][v] = Within(u)[N][v]}

\* Entries that are final stay so.
LEMMA StableStays ==
  ASSUME db \in Database, NEW u \in Router, NEW v \in Router,
         NEW k \in 0 .. N, v \in Stable(u, k), NEW j \in 0 .. N, k <= j
  PROVE  Within(u)[j][v] = Within(u)[N][v]
<1>1. N \in 0 .. N /\ j <= N
  BY NAssumption
<1>2. Within(u)[N][v] <= Within(u)[j][v] /\ Within(u)[j][v] <= Within(u)[k][v]
  BY <1>1, WithinMonotone
<1>3. Within(u)[N][v] \in Nat /\ Within(u)[j][v] \in Nat
  BY <1>1, WithinType
<1>4. QED
  BY <1>2, <1>3 DEF Stable

\* As long as entries are left that are not final, each round makes one of them final: of
\* those with the least value the one that gets it first is lowered over a final entry.
LEMMA StableGrows ==
  ASSUME db \in Database, NEW u \in Router, NEW k \in 0 .. N, k < N, Stable(u, k) # Router
  PROVE  Stable(u, k) \subseteq Stable(u, k + 1) /\ Stable(u, k) # Stable(u, k + 1)
<1> DEFINE D(j, v) == Within(u)[j][v]
           U == Router \ Stable(u, k)
<1>1. N \in 0 .. N /\ k + 1 \in 0 .. N
  BY NAssumption
<1>2. \A j \in 0 .. N : \A v \in Router : D(j, v) \in Nat
  BY WithinType
<1>3. Stable(u, k) \subseteq Stable(u, k + 1)
  BY <1>1, StableStays DEF Stable
<1>4. PICK m \in {D(N, v) : v \in U} : \A i \in {D(N, v) : v \in U} : m <= i
  <2>1. {D(N, v) : v \in U} \in SUBSET Nat
    BY <1>1, <1>2
  <2>2. {D(N, v) : v \in U} # {}
    BY DEF Stable
  <2> HIDE DEF D, U
  <2>3. QED
    BY <2>1, <2>2, LeastElement
<1>5. m \in Nat /\ \A v \in U : m <= D(N, v)
  BY <1>1, <1>2, <1>4
<1> DEFINE P == {j \in 0 .. N : \E v \in U : D(N, v) = m /\ D(j, v) = m}
<1>6. PICK j \in P : \A i \in P : j <= i
  <2>1. P \in SUBSET Nat /\ N \in P
    BY <1>1, <1>4
  <2> HIDE DEF P
  <2>2. QED
    BY <2>1, LeastElement
<1>7. PICK v \in U : D(N, v) = m /\ D(j, v) = m
  BY <1>6
<1>8. v \in Router /\ v \notin Stable(u, k) /\ j \in 0 .. N
  BY <1>6
<1>9. k < j
  <2> SUFFICES ASSUME j <= k PROVE FALSE
    BY <1>8
  <2>1. v \in Stable(u, j)
    BY <1>7, <1>8 DEF Stable
  <2>2. D(k, v) = D(N, v)
    BY <1>8, <2>1, StableStays
  <2>3. QED
    BY <1>8, <2>2 DEF Stable
<1>10. j - 1 \in 0 .. N /\ j - 1 < N /\ j - 1 + 1 = j /\ k <= j - 1 /\ j - 1 < j
  BY <1>8, <1>9, NAssumption
<1>11. j - 1 \notin P
  <2> HIDE DEF P
  <2>1. QED
    BY <1>6, <1>8, <1>10
<1>12. PICK w \in Router : v \in Linked(w) /\ m = D(j - 1, w) + Metric(w, v)
  <2>1. D(j - 1, v) # m
    BY <1>7, <1>10, <1>11
  <2>2. \/ D(j, v) = D(j - 1, v)
        \/ \E w \in Router : v \in Linked(w) /\ D(j, v) = D(j - 1, w) + Metric(w, v)
    BY <1>8, <1>10, WithinStep
  <2>3. QED
    BY <1>7, <2>1, <2>2
<1>13. Metric(w, v) \in Nat /\ D(j - 1, w) \in Nat /\ D(j - 1, w) <= m
  <2>1. Metric(w, v) \in Nat
    BY <1>12, MetricType
  <2>2. D(j - 1, w) \in Nat
    BY <1>2, <1>10
  <2> HIDE DEF D
  <2>3. QED
    BY <1>12, <2>1, <2>2
<1>14. w \in Stable(u, k)
  <2> SUFFICES ASSUME w \in U PROVE FALSE
    OBVIOUS
  <2>1. m <= D(N, w)
    BY <1>5
  <2>2. D(N, w) <= D(j - 1, w) /\ D(N, w) \in Nat
    BY <1>1, <1>2, <1>10, WithinMonotone
  <2>3. D(N, w) = m /\ D(j - 1, w) = m
    <3> HIDE DEF D
    <3>1. QED
      BY <1>5, <1>13, <2>1, <2>2
  <2>4. QED
    BY <1>10, <1>11, <2>3
<1>15. D(j - 1, w) = D(k, w)
  BY <1>10, <1>14, StableStays DEF Stable
<1>16. D(k + 1, v) <= m
  <2>1. D(k + 1, v) <= D(k, w) + Metric(w, v)
    BY <1>8, <1>12, WithinStep
  <2>2. QED
    BY <1>12, <1>15, <2>1
<1>17. m <= D(k + 1, v)
  BY <1>1, <1>7, <1>8, WithinMonotone
<1>18. v \in Stable(u, k + 1)
  <2>1. D(k + 1, v) \in Nat
    BY <1>1, <1>2, <1>8
  <2>2. D(k + 1, v) = m
    BY <1>5, <1>16, <1>17, <2>1
  <2>3. QED
    BY <1>7, <1>8, <2>2 DEF Stable
<1>19. QED
  BY <1>3, <1>8, <1>18

\* The last round changes nothing: N - 1 links lead everywhere.
LEMMA RoundsConverge ==
  ASSUME db \in Database, NEW u \in Router, NEW v \in Router
  PROVE  N - 1 \in 0 .. N /\ Within(u)[N - 1][v] = Distance(u)[v]
<1> DEFINE S == {k \in 0 .. N : k < N =>
                   Stable(u, k) = Router \/ k + 1 <= Cardinality(Stable(u, k))}
<1>1. \A k \in 0 .. N : Stable(u, k) \in SUBSET Router
  BY DEF Stable
<1>2. 0 \in S
  <2>1. u \in Stable(u, 0)
    BY WithinType, NAssumption DEF Stable
  <2>2. Stable(u, 0) \in SUBSET Router /\ Stable(u, 0) # {}
    BY <1>1, <2>1, NAssumption
  <2>3. Cardinality(Stable(u, 0)) \in Nat /\ Cardinality(Stable(u, 0)) > 0
    BY <2>2, ReachedSize
  <2>4. QED
    BY <2>3, NAssumption
<1>3. ASSUME NEW k \in 0 .. N, k \in S, k < N PROVE k + 1 \in S
  <2>1. k + 1 \in 0 .. N
    BY <1>3, NAssumption
  <2>2. CASE Stable(u, k) = Router
    <3>1. Stable(u, k + 1) = Router
      BY <2>1, <2>2, StableStays, NAssumption DEF Stable
    <3>2. QED
      BY <2>1, <3>1
  <2>3. CASE Stable(u, k) # Router
    <3> DEFINE m == Cardinality(Stable(u, k))
               n == Cardinality(Stable(u, k + 1))
    <3>1. Stable(u, k) \subseteq Stable(u, k + 1) /\ Stable(u, k) # Stable(u, k + 1)
      BY <1>3, <2>3, StableGrows
    <3>2. n \in Nat /\ m + 1 <= n
      BY <1>1, <2>1, <3>1, ReachedSize
    <3>3. m \in Nat
      BY <1>1, ReachedSize
    <3>4. k + 1 <= m
      BY <1>3, <2>3
    <3>5. k + 1 + 1 <= n
      <4> HIDE DEF m, n
      <4>1. QED
        BY <3>2, <3>3, <3>4
    <3>6. QED
      BY <2>1, <3>5
  <2>4. QED
    BY <2>2, <2>3
<1>4. 0 .. N \subseteq S
  <2> HIDE DEF S
  <2>1. QED
    BY <1>2, <1>3, NAssumption, IntervalInduction
<1>5. N - 1 \in 0 .. N /\ N - 1 < N /\ N - 1 + 1 = N
  BY NAssumption
<1>6. Stable(u, N - 1) = Router
  <2> SUFFICES ASSUME Stable(u, N - 1) # Router PROVE FALSE
    OBVIOUS
  <2>1. N <= Cardinality(Stable(u, N - 1))
    BY <1>4, <1>5
  <2>2. Stable(u, N - 1) \in SUBSET Router /\ Router \in SUBSET Router
    BY <1>1, <1>5
  <2>3. Cardinality(Stable(u, N - 1)) + 1 <= Cardinality(Router) /\ Cardinality(Router) <= N
    BY <2>2, ReachedSize
  <2>4. Cardinality(Stable(u, N - 1)) \in Nat /\ Cardinality(Router) \in Nat
    BY <2>2, ReachedSize
  <2>5. QED
    BY <2>1, <2>3, <2>4, NAssumption
<1>7. QED
  BY <1>5, <1>6 DEF Stable, Distance

\* Distances are natural numbers, and a router is at no distance from itself.
LEMMA DistanceType ==
  ASSUME db \in Database, NEW u \in Router
  PROVE  Distance(u) \in [Router -> Nat] /\ Distance(u)[u] = 0
  BY WithinType, NAssumption DEF Distance

\* A distance is Infinity or leaves room for one more link.
LEMMA DistanceBound ==
  ASSUME NEW W, SmallMetrics(W), db \in Databases, NEW u \in Router, NEW v \in Router,
         Distance(u)[v] # Infinity
  PROVE  W \in Nat /\ Distance(u)[v] + W < Infinity
<1> DEFINE m == W * (N - 1)
           d == Distance(u)[v]
<1>1. db \in Database /\ W \in Nat
  BY DatabasesAssumption DEF SmallMetrics
<1>2. d = Within(u)[N - 1][v] /\ N - 1 \in 0 .. N /\ d \in Nat
  BY <1>1, RoundsConverge, DistanceType
<1>3. m \in Nat /\ m + W = W * N
  BY <1>1, NAssumption, ProductStep
<1>4. d <= m
  BY <1>2, WithinBound
<1>5. m + W < Infinity
  BY <1>3 DEF SmallMetrics
<1>6. d + W < Infinity
  <2> HIDE DEF d, m
  <2>1. QED
    BY <1>1, <1>2, <1>3, <1>4, <1>5, InfinityValue
<1>7. QED
  BY <1>1, <1>6

\* Over no link can a distance be undercut.
LEMMA DistanceOverLink ==
  ASSUME db \in Database, NEW u \in Router, NEW w \in Router, NEW v \in Linked(w)
  PROVE  v \in Router /\ Distance(u)[v] <= Distance(u)[w] + Metric(w, v)
<1>1. v \in Router /\ N - 1 \in 0 .. N /\ N - 1 < N /\ N - 1 + 1 = N
  BY LastLinkExists, RoundsConverge, NAssumption
<1>2. Within(u)[N][v] <= Within(u)[N - 1][w] + Metric(w, v)
  BY <1>1, WithinStep
<1>3. Within(u)[N - 1][w] = Distance(u)[w]
  BY RoundsConverge
<1>4. QED
  BY <1>1, <1>2, <1>3 DEF Distance

\* Over no link can an entry of f be undercut.
NotUndercut(f) == \A w \in Router : \A v \in Linked(w) : f[v] <= f[w] + Metric(w, v)

\* The distances from u are the greatest such function that is 0 at u.
LEMMA DistanceGreatest ==
  ASSUME db \in Database, NEW u \in Router, NEW f \in [Router -> Nat], f[u] = 0,
         \A v \in Router : f[v] <= Infinity, NotUndercut(f), NEW x \in Router
  PROVE  f[x] <= Distance(u)[x]
<1> DEFINE S == {k \in 0 .. N : \A v \in Router : f[v] <= Within(u)[k][v]}
<1>1. \A k \in 0 .. N : \A v \in Router : Within(u)[k][v] \in Nat
  BY WithinType
<1>2. 0 \in S
  <2>1. \A v \in Router : f[v] <= Unrelaxed(u)[v]
    BY DEF Unrelaxed
  <2>2. QED
    BY <2>1, WithinRounds, NAssumption
<1>3. ASSUME NEW k \in 0 .. N, k \in S, k < N PROVE k + 1 \in S
  <2>1. k + 1 \in 0 .. N
    BY <1>3, NAssumption
  <2>2. ASSUME NEW v \in Router PROVE f[v] <= Within(u)[k + 1][v]
    <3>1. ASSUME NEW w \in Router, v \in Linked(w),
                 Within(u)[k + 1][v] = Within(u)[k][w] + Metric(w, v)
          PROVE  f[v] <= Within(u)[k + 1][v]
      <4>1. f[v] <= f[w] + Metric(w, v) /\ Metric(w, v) \in Nat
        BY <3>1, MetricType DEF NotUndercut
      <4>2. f[w] <= Within(u)[k][w] /\ Within(u)[k][w] \in Nat
        BY <1>1, <1>3
      <4>3. QED
        BY <3>1, <4>1, <4>2
    <3>2. \/ Within(u)[k + 1][v] = Within(u)[k][v]
          \/ \E w \in Router : v \in Linked(w) /\
               Within(u)[k + 1][v] = Within(u)[k][w] + Metric(w, v)
      BY <1>3, WithinStep
    <3>3. QED
      BY <1>3, <3>1, <3>2
  <2>3. QED
    BY <2>1, <2>2
<1>4. 0 .. N \subseteq S
  <2> HIDE DEF S
  <2>1. QED
    BY <1>2, <1>3, NAssumption, IntervalInduction
<1>5. QED
  BY <1>4, NAssumption DEF Distance

\* No distance is more than Infinity.
LEMMA DistanceAtMostInfinity ==
  ASSUME db \in Database, NEW u \in Router, NEW v \in Router
  PROVE  Distance(u)[v] <= Infinity
<1>1. Within(u)[0][v] <= Infinity
  <2>1. Unrelaxed(u)[v] <= Infinity
    BY InfinityValue DEF Unrelaxed
  <2>2. QED
    BY <2>1, WithinRounds
<1>2. Within(u)[N][v] <= Within(u)[0][v]
  BY WithinMonotone, NAssumption
<1>3. Within(u)[N][v] \in Nat /\ Within(u)[0][v] \in Nat
  BY WithinType, NAssumption
<1>4. QED
  BY <1>1, <1>2, <1>3, InfinityValue DEF Distance

\* A way over y is no shorter: what the distances from x grow by beyond y is undercut
\* over no link, and so less than the distances from y.
LEMMA DistanceTriangle ==
  ASSUME db \in Database, NEW x \in Router, NEW y \in Router, NEW z \in Router
  PROVE  Distance(x)[z] <= Distance(x)[y] + Distance(y)[z]
<1> DEFINE d == Distance(x)
           f == [v \in Router |-> IF d[y] <= d[v] THEN d[v] - d[y] ELSE 0]
<1>1. \A v \in Router : d[v] \in Nat /\ d[v] <= Infinity
  BY DistanceType, DistanceAtMostInfinity
<1>2. f \in [Router -> Nat] /\ f[y] = 0 /\ \A v \in Router : f[v] <= Infinity
  <2> HIDE DEF d
  <2>1. QED
    BY <1>1, InfinityValue
<1>3. NotUndercut(f)
  <2> SUFFICES ASSUME NEW w \in Router, NEW v \in Linked(w) PROVE f[v] <= f[w] + Metric(w, v)
    BY DEF NotUndercut
  <2>1. v \in Router /\ d[v] <= d[w] + Metric(w, v) /\ Metric(w, v) \in Nat
    BY DistanceOverLink, MetricType
  <2> HIDE DEF d
  <2>2. QED
    BY <1>1, <2>1
<1>4. f[z] <= Distance(y)[z] /\ Distance(y)[z] \in Nat
  <2> HIDE DEF f
  <2>1. QED
    BY <1>2, <1>3, DistanceGreatest, DistanceType
<1>5. QED
  <2> HIDE DEF d
  <2>1. d[z] <= d[y] + Distance(y)[z]
    BY <1>1, <1>4
  <2>2. QED
    BY <2>1 DEF d

-----------------------------------------------------------------------------
(* Costs are distances                                                      *)

\* When the search is over, costs hold the distances: nothing is left to undercut, and
\* the distances are a lower bound themselves.
LEMMA CostsAreDistances ==
  ASSUME NEW W, SmallMetrics(W), SearchInv(W), Searched, NEW v \in Router
  PROVE  costs[v] = Distance(self)[v]
<1>1. db \in Database /\ self \in Router /\ \A w \in Router : costs[w] \in 0 .. Infinity
  BY DEF SearchInv, TypeOK
<1>2. Infinity \in Nat
  BY InfinityValue
<1>3. costs[v] <= Distance(self)[v]
  <2>1. ASSUME NEW w \in Router, NEW x \in Linked(w) PROVE costs[x] <= costs[w] + Metric(w, x)
    <3>1. x \in Router /\ Metric(w, x) \in Nat
      BY <1>1, LastLinkExists, MetricType
    <3>2. CASE w \in Reached
      BY <1>1, <1>2, <3>1, <3>2, AllSettled
    <3>3. CASE w \notin Reached
      <4>1. costs[w] = Infinity
        BY <1>1, <1>2, <3>3 DEF Reached
      <4>2. QED
        BY <1>1, <1>2, <3>1, <4>1
    <3>4. QED
      BY <3>2, <3>3
  <2>2. costs[self] = 0
    BY DEF SearchInv, Searched, Rooted
  <2>3. costs \in [Router -> Nat] /\ \A w \in Router : costs[w] <= Infinity
    BY <1>1, <1>2 DEF SearchInv, TypeOK
  <2>4. QED
    BY <1>1, <2>1, <2>2, <2>3, DistanceGreatest DEF NotUndercut
<1>4. Distance(self)[v] <= costs[v]
  <2>1. CASE v \in Reached
    <3>1. Distance(self) \in [Router -> Nat] /\ IsLowerBound(Distance(self))
      BY <1>1, DistanceType, DistanceOverLink DEF IsLowerBound
    <3>2. QED
      BY <2>1, <3>1 DEF SearchInv, Searched, CostsNotLow
  <2>2. CASE v \notin Reached
    <3>1. costs[v] = Infinity
      BY <1>1, <1>2, <2>2 DEF Reached
    <3>2. QED
      BY <1>1, <3>1, DistanceAtMostInfinity
  <2>3. QED
    BY <2>1, <2>2
<1>5. Distance(self)[v] \in Nat /\ costs[v] \in Nat
  BY <1>1, <1>2, DistanceType
<1>6. QED
  BY <1>3, <1>4, <1>5

\* The search ends with the lengths of shortest paths, as Bellman-Ford computes them, in
\* any network whose longest path still fits into 16 bits (lines 2118-2140).
THEOREM SearchFindsDistances ==
  ASSUME NEW W, SmallMetrics(W)
  PROVE  Spec => []ShortestCosts
<1>1. SearchInv(W) => ShortestCosts
  BY CostsAreDistances DEF ShortestCosts
<1>2. QED
  BY <1>1, SearchInvariant, PTL

-----------------------------------------------------------------------------
(* Next hops and routes                                                     *)

\* Distances do not change.
LEMMA DistancesUnchanged ==
  ASSUME db' = db
  PROVE  \A u : Distance(u)' = Distance(u)
<1>1. ASSUME NEW c PROVE Relaxed(c)' = Relaxed(c)
  BY LinksUnchanged DEF Relaxed
<1>2. ASSUME NEW u, NEW f PROVE IsRounds(f, u, N)' <=> IsRounds(f, u, N)
  BY <1>1 DEF IsRounds, Unrelaxed
<1>3. ASSUME NEW u PROVE Within(u)' = Within(u)
  <2>1. Within(u) = CHOOSE f : IsRounds(f, u, N)
    BY Zenon DEF Within, IsRounds, Unrelaxed
  <2>2. Within(u)' = CHOOSE f : IsRounds(f, u, N)'
    BY Zenon DEF Within, IsRounds, Unrelaxed
  <2>3. QED
    BY <1>2, <2>1, <2>2
<1>4. QED
  BY <1>3 DEF Distance

\* A router that was not reached has no predecessor.
UnreachedBare == \A v \in Router \ Reached : prevs[v] = 0

\* x lies on a shortest path to v and is not its beginning.
OnTheWay(x, v) == x \in Reached \ {self} /\ costs[x] + Distance(x)[v] = costs[v]

\* The routers whose next hop has to be found.
Farther == Reached \ ({self} \cup direct)

\* Whatever FollowPrev has read and overwritten, an entry of prevs is on a shortest path,
\* and the loop leaves behind next hops.
NextHopsRight ==
    /\ UnreachedBare
    /\ prevs[self] = 0
    /\ \A v \in Router : costs[v] = Distance(self)[v]
    /\ \A v \in direct : /\ v \in Reached \ {self} /\ v \in Linked(self)
                         /\ costs[v] = Metric(self, v)
    /\ \A v \in Farther : OnTheWay(prevs[v], v)
    /\ \A v \in Farther : v < at => prevs[v] \in direct

\* The routes of u lead to all that can be reached, over the first link of a shortest path.
RightRoutes(u) ==
    \A r \in Router :
        LET entries == {e \in routes[u] : e.adv = r}
        IN  /\ entries # {} <=> Distance(u)[r] < Infinity
            /\ u # r => \A e \in entries :
                  LET w == db.links[u][e.iface].nbr
                  IN  w \in Linked(u) /\ Metric(u, w) + Distance(w)[r] = Distance(u)[r]

RouteInv(W) ==
    /\ SearchInv(W)
    /\ phase = "search" => UnreachedBare
    /\ phase = "restore" => NextHopsRight
    /\ \A u \in Router : u < self \/ phase = "done" => RightRoutes(u)

\* A turn of the search gives predecessors to routers that it reaches only.
LEMMA ExpandBare ==
  ASSUME NEW W, SmallMetrics(W), SearchInv(W), Expand, UnreachedBare
  PROVE  UnreachedBare'
<1> SUFFICES ASSUME NEW v \in Router, v \notin Reached' PROVE prevs'[v] = 0
  BY DEF UnreachedBare
<1>1. PICK e \in pq : Relaxes(e[1], e[2]) /\ e = <<e[1], e[2]>>
  BY ExpandRelaxes
<1>2. ~(costs'[v] < Infinity)
  BY DEF Reached
<1>3. v \in Linked(e[2]) => e[1] + Metric(e[2], v) < Infinity
  BY NoOverflow DEF Expand
<1>4. costs'[v] = costs[v] /\ prevs'[v] = prevs[v]
  BY <1>1, <1>2, <1>3 DEF Relaxes
<1>5. v \notin Reached
  BY <1>2, <1>4 DEF Reached
<1>6. QED
  BY <1>4, <1>5 DEF UnreachedBare

\* Sums of distances and costs on the way to v.
LEMMA WayOverPredecessor ==
  ASSUME db \in Database, self \in Router, \A w \in Router : costs[w] = Distance(self)[w],
         NEW y \in Router, NEW x \in Router, NEW v \in Router,
         costs[y] + Distance(y)[x] = costs[x], costs[x] + Distance(x)[v] = costs[v]
  PROVE  costs[y] + Distance(y)[v] = costs[v]
<1>1. /\ costs[v] <= costs[y] + Distance(y)[v]
      /\ Distance(y)[v] <= Distance(y)[x] + Distance(x)[v]
  BY DistanceTriangle
<1>2. /\ costs[y] \in Nat /\ costs[x] \in Nat /\ costs[v] \in Nat
      /\ Distance(y)[x] \in Nat /\ Distance(x)[v] \in Nat /\ Distance(y)[v] \in Nat
  BY DistanceType
<1>3. QED
  BY <1>1, <1>2

\* Types of the invariant's parts.
LEMMA RestoreTypes ==
  ASSUME NEW W, SearchInv(W)
  PROVE  /\ db \in Database /\ db \in Databases /\ self \in Router /\ self \in Nat /\ self # 0
         /\ \A v \in Router : costs[v] \in Nat /\ costs[v] <= Infinity /\ prevs[v] \in 0 .. N
         /\ Reached \subseteq Router /\ 0 \notin Router
         /\ \A v \in Router : v \notin Reached => costs[v] = Infinity
  BY InfinityValue, NAssumption DEF SearchInv, TypeOK, Reached, Router

\* When the search is over, predecessors are on shortest paths.
LEMMA CollectDirectRight ==
  ASSUME NEW W, SmallMetrics(W), SearchInv(W), CollectDirect, UnreachedBare
  PROVE  NextHopsRight'
<1>1. Searched /\ UNCHANGED <<db, self, costs, prevs>> /\ at' = 1
      /\ direct' = {v \in Router : prevs[v] = self}
  BY DEF CollectDirect, Searched
<1>2. /\ db \in Database /\ self \in Router /\ self \in Nat /\ self # 0
      /\ Reached \subseteq Router
      /\ \A v \in Router : costs[v] \in Nat
  BY RestoreTypes
<1>3. Reached' = Reached
  BY <1>1 DEF Reached
<1>4. Rooted /\ PrevsLinked
  BY <1>1 DEF Searched, SearchInv
<1>5. \A v \in Router : costs[v] = Distance(self)[v]
  BY <1>1, CostsAreDistances
<1>6. \A u : Distance(u)' = Distance(u)
  BY <1>1, DistancesUnchanged
<1>7. \A u, v : Linked(u)' = Linked(u) /\ Metric(u, v)' = Metric(u, v)
  BY <1>1, LinksUnchanged
<1>8. ASSUME NEW v \in Reached \ {self}
      PROVE  /\ prevs[v] \in Reached /\ v \in Linked(prevs[v])
             /\ costs[prevs[v]] + Metric(prevs[v], v) = costs[v]
             /\ costs[prevs[v]] + Distance(prevs[v])[v] = costs[v]
  <2> DEFINE p == prevs[v]
  <2>1. p \in Reached /\ v \in Linked(p) /\ costs[p] + Metric(p, v) <= costs[v]
    BY <1>4 DEF PrevsLinked
  <2>2. p \in Router /\ v \in Router
    BY <1>2, <2>1
  <2>3. Distance(p)[v] <= Distance(p)[p] + Metric(p, v) /\ Distance(p)[p] = 0
    BY <1>2, <2>1, <2>2, DistanceOverLink, DistanceType
  <2>4. costs[v] <= costs[p] + Distance(p)[v]
    BY <1>2, <1>5, <2>2, DistanceTriangle
  <2>5. Metric(p, v) \in Nat /\ Distance(p)[v] \in Nat /\ costs[p] \in Nat /\ costs[v] \in Nat
    BY <1>2, <2>1, <2>2, MetricType, DistanceType
  <2>6. QED
    <3> HIDE DEF p
    <3>1. costs[p] + Metric(p, v) = costs[v] /\ costs[p] + Distance(p)[v] = costs[v]
      BY <2>1, <2>3, <2>4, <2>5
    <3>2. QED
      BY <2>1, <3>1 DEF p
<1>9. \A v \in direct' : v \in Reached \ {self} /\ v \in Linked(self) /\ costs[v] = Metric(self, v)
  <2> SUFFICES ASSUME NEW v \in direct'
               PROVE  v \in Reached \ {self} /\ v \in Linked(self) /\ costs[v] = Metric(self, v)
    OBVIOUS
  <2>1. v \in Router /\ prevs[v] = self
    BY <1>1
  <2>2. v \in Reached \ {self}
    BY <1>2, <1>4, <2>1 DEF UnreachedBare, Rooted
  <2>3. v \in Linked(self) /\ costs[self] + Metric(self, v) = costs[v] /\ costs[self] = 0
    BY <1>4, <1>8, <2>1, <2>2 DEF Rooted
  <2>4. Metric(self, v) \in Nat
    BY <1>2, <2>3, MetricType
  <2>5. QED
    BY <2>2, <2>3, <2>4
<1>10. \A v \in Reached \ ({self} \cup direct') : OnTheWay(prevs[v], v) /\ ~(v < 1)
  <2> SUFFICES ASSUME NEW v \in Reached \ ({self} \cup direct')
               PROVE  OnTheWay(prevs[v], v) /\ ~(v < 1)
    OBVIOUS
  <2>1. prevs[v] # self /\ v \in Router
    BY <1>1, <1>2
  <2>2. QED
    BY <1>8, <2>1 DEF OnTheWay, Router
<1>11. UnreachedBare' /\ prevs[self] = 0
  BY <1>1, <1>3, <1>4 DEF UnreachedBare, Rooted
<1>12. QED
  BY <1>1, <1>3, <1>5, <1>6, <1>7, <1>9, <1>10, <1>11 DEF NextHopsRight, Farther, OnTheWay

\* A predecessor that gives way to its own leaves the router on a shortest path.
LEMMA FollowPrevRight ==
  ASSUME NEW W, SearchInv(W), FollowPrev, NextHopsRight
  PROVE  NextHopsRight'
<1>1. /\ at \in Router /\ TooFar(at)
      /\ prevs' = [prevs EXCEPT ![at] = prevs[prevs[at]]]
      /\ UNCHANGED <<db, self, costs, direct, at>>
  BY DEF FollowPrev
<1>2. /\ db \in Database /\ self \in Router /\ Reached \subseteq Router
      /\ at \in Nat /\ ~(at < at)
  BY <1>1, RestoreTypes DEF Router
<1>3. Reached' = Reached /\ Farther' = Farther
  BY <1>1 DEF Reached, Farther
<1>4. /\ \A u : Distance(u)' = Distance(u)
      /\ \A u, v : Linked(u)' = Linked(u) /\ Metric(u, v)' = Metric(u, v)
  BY <1>1, DistancesUnchanged, LinksUnchanged
<1>5. /\ prevs \in [Router -> 0 .. N] /\ \A v \in Router : v # at => prevs'[v] = prevs[v]
      /\ prevs'[at] = prevs[prevs[at]]
  BY <1>1 DEF SearchInv, TypeOK
<1>6. at \in Reached \ {self}
  BY <1>1 DEF NextHopsRight, UnreachedBare, TooFar
<1>7. ASSUME at \in Farther PROVE OnTheWay(prevs'[at], at)
  <2> DEFINE x == prevs[at]
  <2>1. OnTheWay(x, at) /\ x \notin direct
    BY <1>1, <1>7 DEF NextHopsRight, TooFar
  <2>2. x \in Farther
    BY <2>1 DEF OnTheWay, Farther
  <2>3. OnTheWay(prevs[x], x)
    BY <2>2 DEF NextHopsRight
  <2>4. prevs[x] \in Router /\ x \in Router
    BY <1>2, <2>1, <2>3 DEF OnTheWay
  <2>5. costs[prevs[x]] + Distance(prevs[x])[at] = costs[at]
    BY <1>1, <1>2, <2>1, <2>3, <2>4, WayOverPredecessor DEF OnTheWay, NextHopsRight
  <2>6. QED
    BY <1>5, <2>3, <2>5 DEF OnTheWay
<1>8. \A v \in Farther : OnTheWay(prevs'[v], v)
  BY <1>2, <1>5, <1>7 DEF NextHopsRight, Farther
<1>9. \A v \in Farther : v < at => prevs'[v] \in direct
  BY <1>2, <1>5 DEF NextHopsRight, Farther
<1>10. UnreachedBare' /\ prevs'[self] = 0
  BY <1>2, <1>3, <1>5, <1>6 DEF NextHopsRight, UnreachedBare
<1>11. \A v \in Farther : OnTheWay(prevs[v], v)'
  BY <1>1, <1>3, <1>4, <1>8 DEF OnTheWay
<1>12. /\ \A v \in Router : costs[v] = Distance(self)[v]
       /\ \A v \in direct : /\ v \in Reached \ {self} /\ v \in Linked(self)
                            /\ costs[v] = Metric(self, v)
  BY DEF NextHopsRight
<1>13. QED
  BY <1>1, <1>3, <1>4, <1>9, <1>10, <1>11, <1>12 DEF NextHopsRight

\* The loop leaves a router when its entry is a next hop.
LEMMA NextRouterRight ==
  ASSUME NEW W, SearchInv(W), NextRouter, NextHopsRight
  PROVE  NextHopsRight'
<1>1. /\ at \in Router /\ ~TooFar(at) /\ at' = at + 1
      /\ UNCHANGED <<db, self, costs, prevs, direct>>
  BY DEF NextRouter
<1>2. Reached' = Reached /\ Farther' = Farther
  BY <1>1 DEF Reached, Farther
<1>3. /\ \A u : Distance(u)' = Distance(u)
      /\ \A u, v : Linked(u)' = Linked(u) /\ Metric(u, v)' = Metric(u, v)
  BY <1>1, DistancesUnchanged, LinksUnchanged
<1>4. Reached \subseteq Router /\ 0 \notin Router
  BY RestoreTypes
<1>5. ASSUME NEW v \in Farther, v < at + 1 PROVE prevs[v] \in direct
  <2>1. CASE v = at
    <3>1. prevs[v] # 0
      BY <1>4, <1>5 DEF NextHopsRight, OnTheWay
    <3>2. QED
      BY <1>1, <2>1, <3>1 DEF TooFar
  <2>2. CASE v # at
    <3>1. v \in Nat /\ at \in Nat
      BY <1>1, <1>4 DEF Farther, Router
    <3>2. QED
      BY <1>5, <2>2, <3>1 DEF NextHopsRight
  <2>3. QED
    BY <2>1, <2>2
<1>6. /\ \A v \in Router : costs[v] = Distance(self)[v]
      /\ \A v \in direct : /\ v \in Reached \ {self} /\ v \in Linked(self)
                           /\ costs[v] = Metric(self, v)
      /\ prevs[self] = 0
      /\ \A v \in Farther : OnTheWay(prevs[v], v)
      /\ UnreachedBare
  BY DEF NextHopsRight
<1>7. UnreachedBare' /\ \A v \in Farther : OnTheWay(prevs[v], v)'
  BY <1>1, <1>2, <1>3, <1>6 DEF OnTheWay, UnreachedBare
<1>8. QED
  BY <1>1, <1>2, <1>3, <1>5, <1>6, <1>7 DEF NextHopsRight

\* The first interface with a neighbour is found, if there is one.
LEMMA FirstInterface ==
  ASSUME db \in Database, NEW u \in Router, NEW w \in Linked(u)
  PROVE  \E i \in DOMAIN db.links[u] : IsInterfaceForNeighbor(u, i, w)
<1> DEFINE L == db.links[u]
           T == {i \in DOMAIN L : L[i].nbr = w}
<1>1. L \in Seq(Interface) /\ DOMAIN L \subseteq Nat
  BY DEF Database
<1>2. T # {} /\ T \in SUBSET Nat
  BY <1>1 DEF Linked, RouterLSA
<1>3. \E m \in T : \A k \in T : m <= k
  <2> HIDE DEF T
  <2>1. QED
    BY <1>2, LeastElement
<1>4. QED
  BY <1>3 DEF IsInterfaceForNeighbor

\* When the loop has looked at every router, what AddRoutes enters is right.
LEMMA NewRoutesRight ==
  ASSUME NEW W, SearchInv(W), NextHopsRight, at = N + 1, NEW r \in Router
  PROVE  LET entries == {e \in NewRoutes : e.adv = r}
         IN  /\ entries # {} <=> Distance(self)[r] < Infinity
             /\ self # r => \A e \in entries :
                   LET w == db.links[self][e.iface].nbr
                   IN  w \in Linked(self) /\ Metric(self, w) + Distance(w)[r] = Distance(self)[r]
<1> DEFINE entries == {e \in NewRoutes : e.adv = r}
<1>1. /\ db \in Database /\ self \in Router /\ Reached \subseteq Router /\ 0 \notin Router
      /\ \A v \in Router : costs[v] \in Nat /\ costs[v] <= Infinity
  BY RestoreTypes
<1>2. costs[r] = Distance(self)[r] /\ (r \in Reached <=> Distance(self)[r] < Infinity)
  BY DEF NextHopsRight, Reached
<1>3. CASE r = self
  <2>1. Distance(self)[r] < Infinity
    BY <1>1, <1>3, DistanceType, InfinityValue
  <2>2. [adv |-> self, iface |-> 0] \in entries
    BY <1>3 DEF NewRoutes
  <2>3. QED
    BY <1>3, <2>1, <2>2
<1>4. CASE r # self
  <2> DEFINE w == NextHop(r)
  <2>1. ASSUME NEW e \in entries
        PROVE  /\ e.iface \in DOMAIN db.links[self] /\ db.links[self][e.iface].nbr = w
               /\ w \in Router
    <3>1. e.iface \in DOMAIN db.links[self] /\ IsInterfaceForNeighbor(self, e.iface, w)
      BY <1>4, <2>1 DEF NewRoutes
    <3>2. db.links[self] \in Seq(Interface)
      BY <1>1 DEF Database
    <3>3. db.links[self][e.iface] \in Interface
      BY <3>1, <3>2
    <3>4. db.links[self][e.iface].nbr \in Router
      BY <3>3 DEF Interface
    <3>5. QED
      BY <3>1, <3>4 DEF IsInterfaceForNeighbor
  <2>2. CASE r \in Reached
    <3>1. w \in direct /\ costs[w] + Distance(w)[r] = costs[r]
      <4>1. CASE r \in direct
        BY <1>1, <4>1, DistanceType DEF NextHop
      <4>2. CASE r \notin direct
        <5>1. r \in Farther /\ r < at
          BY <1>4, <2>2, <4>2, NAssumption DEF Farther, Router
        <5>2. QED
          BY <4>2, <5>1 DEF NextHop, NextHopsRight, OnTheWay
      <4>3. QED
        BY <4>1, <4>2
    <3>2. w \in Linked(self) /\ costs[w] = Metric(self, w)
      BY <3>1 DEF NextHopsRight
    <3>3. PICK i \in DOMAIN db.links[self] : IsInterfaceForNeighbor(self, i, w)
      BY <1>1, <3>2, FirstInterface
    <3>4. [adv |-> r, iface |-> i] \in entries
      BY <1>4, <3>3 DEF NewRoutes
    <3>5. QED
      BY <1>2, <2>1, <2>2, <3>1, <3>2, <3>4
  <2>3. CASE r \notin Reached
    <3>1. r \notin direct /\ prevs[r] = 0
      BY <2>3 DEF NextHopsRight, UnreachedBare
    <3>2. w \notin Router
      BY <1>1, <3>1 DEF NextHop
    <3>3. QED
      BY <1>2, <2>1, <2>3, <3>2
  <2>4. QED
    BY <2>2, <2>3
<1>5. QED
  BY <1>3, <1>4

\* Routes that stay are as right as they were.
LEMMA RightRoutesStay ==
  ASSUME db' = db, NEW u, routes'[u] = routes[u], RightRoutes(u)
  PROVE  RightRoutes(u)'
  BY DistancesUnchanged, LinksUnchanged DEF RightRoutes

\* AddRoutes enters right routes, and starts the next search without predecessors.
LEMMA AddRoutesRight ==
  ASSUME NEW W, RouteInv(W), AddRoutes
  PROVE  /\ phase' = "search" => UnreachedBare'
         /\ \A u \in Router : u < self' \/ phase' = "done" => RightRoutes(u)'
<1>1. SearchInv(W) /\ NextHopsRight /\ at = N + 1 /\ phase = "restore" /\ db' = db
  BY DEF AddRoutes, RouteInv
<1>2. self \in Router /\ self \in Nat /\ routes' = [routes EXCEPT ![self] = NewRoutes]
  BY <1>1, RestoreTypes DEF AddRoutes
<1>3. routes \in [Router -> SUBSET [adv : Router, iface : Nat]]
  BY <1>1 DEF SearchInv, TypeOK
<1>4. routes'[self] = NewRoutes
  BY <1>2, <1>3
<1>5. /\ \A u : Distance(u)' = Distance(u)
      /\ \A u, v : Linked(u)' = Linked(u) /\ Metric(u, v)' = Metric(u, v)
  BY <1>1, DistancesUnchanged, LinksUnchanged
<1>6. ASSUME NEW u, u = self PROVE RightRoutes(u)'
  <2>1. \A r \in Router :
          LET entries == {e \in routes'[u] : e.adv = r}
          IN  /\ entries # {} <=> Distance(u)[r] < Infinity
              /\ u # r => \A e \in entries :
                    LET w == db.links[u][e.iface].nbr
                    IN  w \in Linked(u) /\ Metric(u, w) + Distance(w)[r] = Distance(u)[r]
    BY <1>1, <1>4, <1>6, NewRoutesRight
  <2>2. QED
    BY <1>1, <1>5, <2>1 DEF RightRoutes
<1>7. ASSUME NEW u \in Router, u < self PROVE RightRoutes(u)'
  <2>1. routes'[u] = routes[u]
    BY <1>2, <1>3, <1>7
  <2>2. RightRoutes(u)
    BY <1>7 DEF RouteInv
  <2>3. QED
    BY <1>1, <2>1, <2>2, RightRoutesStay
<1>8. phase' = "search" => UnreachedBare'
  BY DEF AddRoutes, StartPrevs, UnreachedBare
<1>9. ASSUME NEW u \in Router, u < self' \/ phase' = "done" PROVE u < self \/ u = self
  <2>1. u \in Nat /\ u <= N
    BY NAssumption DEF Router
  <2>2. CASE self = N
    BY <2>1, <2>2, <1>2
  <2>3. CASE self # N
    BY <1>2, <1>9, <2>1, <2>3 DEF AddRoutes
  <2>4. QED
    BY <2>2, <2>3
<1>10. QED
  BY <1>6, <1>7, <1>8, <1>9

\* The invariant of the whole computation, of every router.
THEOREM RouteInvariant ==
  ASSUME NEW W, SmallMetrics(W)
  PROVE  Spec => []RouteInv(W)
<1>1. SearchInv(W) /\ Init => RouteInv(W)
  <2> SUFFICES ASSUME SearchInv(W), Init PROVE RouteInv(W)
    OBVIOUS
  <2>1. \A u \in Router : ~(u < self)
    BY NAssumption DEF Init, Router
  <2>2. UnreachedBare
    BY DEF Init, StartPrevs, UnreachedBare
  <2>3. QED
    BY <2>1, <2>2 DEF RouteInv, Init
<1>2. RouteInv(W) /\ SearchInv(W)' /\ [Next]_vars => RouteInv(W)'
  <2> SUFFICES ASSUME RouteInv(W), SearchInv(W)', [Next]_vars PROVE RouteInv(W)'
    OBVIOUS
  <2>1. ASSUME db' = db, self' = self, routes' = routes, phase' = "done" => phase = "done"
        PROVE  \A u \in Router : u < self' \/ phase' = "done" => RightRoutes(u)'
    BY <2>1, RightRoutesStay DEF RouteInv
  <2>2. CASE Expand
    BY <2>1, <2>2, ExpandBare DEF Expand, RouteInv
  <2>3. CASE CollectDirect
    BY <2>1, <2>3, CollectDirectRight DEF CollectDirect, RouteInv
  <2>4. CASE FollowPrev
    BY <2>1, <2>4, FollowPrevRight DEF FollowPrev, RouteInv
  <2>5. CASE NextRouter
    BY <2>1, <2>5, NextRouterRight DEF NextRouter, RouteInv
  <2>6. CASE AddRoutes
    <3>1. phase' # "restore"
      BY <2>6 DEF AddRoutes
    <3>2. QED
      BY <2>6, <3>1, AddRoutesRight DEF RouteInv
  <2>7. CASE UNCHANGED vars
    <3>1. UnreachedBare => UnreachedBare'
      BY <2>7 DEF vars, UnreachedBare, Reached
    <3>2. NextHopsRight => NextHopsRight'
      BY <2>7, DistancesUnchanged, LinksUnchanged
      DEF vars, NextHopsRight, UnreachedBare, Reached, Farther, OnTheWay
    <3>3. QED
      BY <2>1, <2>7, <3>1, <3>2 DEF vars, RouteInv
  <2>8. QED
    BY <2>2, <2>3, <2>4, <2>5, <2>6, <2>7 DEF Next
<1>3. QED
  BY <1>1, <1>2, SearchInvariant, PTL DEF Spec

\* The routes of all routers are the first steps of shortest paths to all that they can
\* reach, although the loop that restores next hops overwrites what it has yet to read
\* (lines 2152-2159).
THEOREM RoutesFollowShortestPaths ==
  ASSUME NEW W, SmallMetrics(W)
  PROVE  Spec => []RoutesShortest
<1>1. RouteInv(W) => RoutesShortest
  <2> SUFFICES ASSUME RouteInv(W), phase = "done", NEW u \in Router, NEW r \in Router
               PROVE  LET entries == {e \in routes[u] : e.adv = r}
                      IN  /\ entries # {} <=> Distance(u)[r] < Infinity
                          /\ u # r => \A e \in entries :
                                LET w == db.links[u][e.iface].nbr
                                IN  Metric(u, w) + Distance(w)[r] = Distance(u)[r]
    BY DEF RoutesShortest
  <2>1. RightRoutes(u)
    BY DEF RouteInv
  <2>2. QED
    BY <2>1 DEF RightRoutes
<1>2. QED
  BY <1>1, RouteInvariant, PTL

-----------------------------------------------------------------------------
(* Forwarding                                                               *)

\* No link is so fast that it costs nothing: on networks with such links the computation may
\* not even end, and equal distances may send a packet to and fro.
NoFreeLinks ==
    \A d \in Databases : \A u \in Router : \A i \in DOMAIN d.links[u] :
        CalcMetricForInterface(d.links[u][i]) > 0

\* Then no router pays nothing for a link.
LEMMA MetricPositive ==
  ASSUME NoFreeLinks, db \in Databases, NEW u \in Router, NEW v \in Linked(u)
  PROVE  Metric(u, v) \in Nat /\ Metric(u, v) > 0
<1>1. db \in Database
  BY DatabasesAssumption
<1>2. LastLink(u, v) \in DOMAIN RouterLSA(u)
  BY <1>1, LastLinkExists
<1>3. RouterLSA(u) = db.links[u]
  BY <1>2 DEF RouterLSA
<1>4. QED
  BY <1>1, <1>2, <1>3, MetricType DEF NoFreeLinks, Metric

\* What the routes of all routers are when the last one has finished.
LEMMA ForwardedOverLink ==
  ASSUME NEW W, RouteInv(W), phase = "done", NEW u \in Router, NEW A \in SUBSET Router,
         NEW e \in Lookup(u, A), e.adv # u
  PROVE  LET w == db.links[u][e.iface].nbr
         IN  /\ w \in Linked(u)
             /\ Metric(u, w) + Distance(w)[e.adv] = Distance(u)[e.adv]
             /\ Distance(u)[e.adv] < Infinity
<1>1. e \in routes[u] /\ e.adv \in Router
  BY DEF Lookup
<1>2. RightRoutes(u)
  BY DEF RouteInv
<1>3. QED
  BY <1>1, <1>2 DEF RightRoutes

\* Routers are numbers.
LEMMA RouterIsNat == Router \subseteq Nat
  BY NAssumption DEF Router

\* A router has an entry to choose when it reaches an advertiser, and the entry it chooses
\* is that of the smallest advertiser that it reaches.
LEMMA LookupFinds ==
  ASSUME NEW W, RouteInv(W), phase = "done", NEW u \in Router, NEW A \in SUBSET Router,
         NEW r \in A, Distance(u)[r] < Infinity
  PROVE  /\ Lookup(u, A) # {}
         /\ \A e \in Lookup(u, A) : e.adv <= r
<1> DEFINE S == {e.adv : e \in {e \in routes[u] : e.adv \in A}}
<1>1. RightRoutes(u)
  BY DEF RouteInv
<1>2. PICK f \in routes[u] : f.adv = r
  BY <1>1 DEF RightRoutes
<1>3. S \in SUBSET Nat /\ S # {}
  BY <1>2, RouterIsNat
<1>4. PICK m \in S : \A k \in S : m <= k
  <2> HIDE DEF S
  <2>1. QED
    BY <1>3, LeastElement
<1>5. PICK e \in routes[u] : e.adv \in A /\ e.adv = m
  BY <1>4
<1>6. e \in Lookup(u, A)
  BY <1>4, <1>5 DEF Lookup
<1>7. \A g \in Lookup(u, A) : g.adv <= r
  BY <1>2 DEF Lookup
<1>8. QED
  BY <1>6, <1>7

\* The next router has a route to the advertiser chosen here, and is nearer to it.
LEMMA NextRouterNearer ==
  ASSUME NEW W, SmallMetrics(W), NoFreeLinks, RouteInv(W), phase = "done",
         NEW u \in Router, NEW A \in SUBSET Router,
         NEW e \in Lookup(u, A), e.adv # u, NEW w, db.links[u][e.iface].nbr = w
  PROVE  /\ w \in Linked(u) /\ w \in Router
         /\ e.adv \in A
         /\ Distance(w)[e.adv] < Distance(u)[e.adv]
         /\ Distance(w)[e.adv] < Infinity
<1>1. db \in Databases /\ db \in Database
  BY DatabasesAssumption DEF RouteInv, SearchInv
<1>2. /\ w \in Linked(u)
      /\ Metric(u, w) + Distance(w)[e.adv] = Distance(u)[e.adv]
      /\ Distance(u)[e.adv] < Infinity
  BY ForwardedOverLink
<1>3. w \in Router /\ e.adv \in A /\ e.adv \in Router
  BY <1>1, <1>2, LastLinkExists DEF Lookup
<1>4. Metric(u, w) \in Nat /\ Metric(u, w) > 0
  BY <1>1, <1>2, MetricPositive
<1>5. Distance(w)[e.adv] \in Nat /\ Distance(u)[e.adv] \in Nat
  BY <1>1, <1>3, DistanceType
<1>6. QED
  BY <1>2, <1>3, <1>4, <1>5, InfinityValue

\* What a neighbour reaches, the router reaches as well.
LEMMA ReachedOverNeighbour ==
  ASSUME NEW W, SmallMetrics(W), db \in Databases,
         NEW u \in Router, NEW w \in Linked(u), NEW r \in Router, Distance(w)[r] < Infinity
  PROVE  Distance(u)[r] < Infinity
<1>1. db \in Database /\ w \in Router
  BY DatabasesAssumption, LastLinkExists
<1>2. /\ Distance(u)[u] = 0 /\ Distance(u)[w] \in Nat
      /\ Distance(u)[r] \in Nat /\ Distance(w)[r] \in Nat
  BY <1>1, DistanceType
<1>3. W \in Nat /\ Distance(w)[r] + W < Infinity
  BY <1>1, <1>2, DistanceBound, InfinityValue
<1>4. Distance(u)[w] <= Distance(u)[u] + Metric(u, w)
  BY <1>1, DistanceOverLink
<1>5. Metric(u, w) \in Nat /\ Metric(u, w) <= W
  BY MetricBound
<1>6. Distance(u)[r] <= Distance(u)[w] + Distance(w)[r]
  BY <1>1, DistanceTriangle
<1>7. QED
  BY <1>2, <1>3, <1>4, <1>5, <1>6, InfinityValue

\* The next router chooses the same advertiser: what it reaches is reached from here.
LEMMA SameAdvertiser ==
  ASSUME NEW W, SmallMetrics(W), NoFreeLinks, RouteInv(W), phase = "done",
         NEW u \in Router, NEW A \in SUBSET Router,
         NEW e \in Lookup(u, A), e.adv # u, NEW w, db.links[u][e.iface].nbr = w,
         NEW g \in Lookup(w, A)
  PROVE  g.adv = e.adv
<1>1. /\ w \in Linked(u) /\ w \in Router /\ e.adv \in A
      /\ Distance(w)[e.adv] < Infinity
  BY NextRouterNearer
<1>2. g.adv <= e.adv
  BY <1>1, LookupFinds
<1>3. g \in routes[w] /\ g.adv \in A /\ g.adv \in Router
  BY DEF Lookup
<1>4. Distance(w)[g.adv] < Infinity
  <2>1. RightRoutes(w)
    BY <1>1 DEF RouteInv
  <2>2. QED
    BY <1>3, <2>1 DEF RightRoutes
<1>5. db \in Databases
  BY DEF RouteInv, SearchInv
<1>6. Distance(u)[g.adv] < Infinity
  BY <1>1, <1>3, <1>4, <1>5, ReachedOverNeighbour
<1>7. e.adv <= g.adv
  BY <1>3, <1>6, LookupFinds
<1>8. e.adv \in Nat /\ g.adv \in Nat
  BY <1>1, <1>3, RouterIsNat
<1>9. QED
  BY <1>2, <1>7, <1>8

\* Routers that all forward among themselves would come ever nearer to an advertiser.
LEMMA NoCircle ==
  ASSUME NEW W, SmallMetrics(W), NoFreeLinks, RouteInv(W), phase = "done",
         NEW A \in SUBSET Router, NEW S \in SUBSET Router, S # {}
  PROVE  \E u \in S : \A w \in S : ~Forwards(u, w, A)
<1> SUFFICES ASSUME \A u \in S : \E w \in S : Forwards(u, w, A) PROVE FALSE
  OBVIOUS
<1> DEFINE Far == UNION {{Distance(u)[e.adv] : e \in Lookup(u, A)} : u \in S}
<1>1. \A u \in S : \A e \in Lookup(u, A) : e.adv \in Router
  BY DEF Lookup
<1>2. db \in Database
  BY DatabasesAssumption DEF RouteInv, SearchInv
<1>3. Far \in SUBSET Nat
  <2>1. ASSUME NEW u \in S, NEW e \in Lookup(u, A) PROVE Distance(u)[e.adv] \in Nat
    BY <1>1, <1>2, DistanceType
  <2>2. QED
    BY <2>1
<1>4. Far # {}
  <2>1. PICK u \in S : \E e \in Lookup(u, A) : TRUE
    BY DEF Forwards
  <2>2. PICK e \in Lookup(u, A) : TRUE
    BY <2>1
  <2>3. Distance(u)[e.adv] \in Far
    BY <2>2
  <2>4. QED
    BY <2>3
<1>5. PICK m \in Far : \A k \in Far : m <= k
  <2> HIDE DEF Far
  <2>1. QED
    BY <1>3, <1>4, LeastElement
<1>6. PICK u \in S : \E c \in Lookup(u, A) : m = Distance(u)[c.adv]
  BY <1>5
<1>7. PICK c \in Lookup(u, A) : m = Distance(u)[c.adv]
  BY <1>6
<1>8. PICK w \in S : Forwards(u, w, A)
  OBVIOUS
<1>9. PICK e \in Lookup(u, A) : e.adv # u /\ db.links[u][e.iface].nbr = w
  BY <1>8 DEF Forwards
<1>10. e.adv = c.adv
  <2>1. e.adv <= c.adv /\ c.adv <= e.adv
    BY <1>7, <1>9 DEF Lookup
  <2>2. e.adv \in Nat /\ c.adv \in Nat
    BY <1>1, RouterIsNat
  <2>3. QED
    BY <2>1, <2>2
<1>11. PICK g \in Lookup(w, A) : TRUE
  BY DEF Forwards
<1>12. g.adv = c.adv
  BY <1>9, <1>10, SameAdvertiser
<1>13. Distance(w)[c.adv] < Distance(u)[c.adv]
  BY <1>9, <1>10, NextRouterNearer
<1>14. Distance(w)[c.adv] \in Far
  BY <1>12
<1>15. Distance(w)[c.adv] \in Nat /\ Distance(u)[c.adv] \in Nat
  BY <1>1, <1>2, <1>7, DistanceType
<1>16. QED
  <2> HIDE DEF Far
  <2>1. QED
    BY <1>5, <1>7, <1>13, <1>14, <1>15

\* Every packet that a router forwards arrives at a router that advertises the prefix: the
\* routers choose for themselves among the advertisers and all choose the same one, to which
\* every hop leads nearer (RouteInput and LookupRoute, over what CalcRoutingTable entered).
THEOREM PacketsArriveAtAdvertisers ==
  ASSUME NEW W, SmallMetrics(W), NoFreeLinks
  PROVE  Spec => []ForwardingDelivers
<1>1. ASSUME RouteInv(W), phase = "done", NEW A \in SUBSET Router,
             NEW u \in Router, NEW w \in Router, Forwards(u, w, A)
      PROVE  Lookup(w, A) # {}
  <2>1. PICK e \in Lookup(u, A) : e.adv # u /\ db.links[u][e.iface].nbr = w
    BY <1>1 DEF Forwards
  <2>2. e.adv \in A /\ Distance(w)[e.adv] < Infinity
    BY <1>1, <2>1, NextRouterNearer
  <2>3. QED
    BY <1>1, <2>2, LookupFinds
<1>2. RouteInv(W) => ForwardingDelivers
  <2>1. ASSUME RouteInv(W), phase = "done", NEW A \in SUBSET Router,
               NEW S \in (SUBSET Router) \ {{}}
        PROVE  \E u \in S : \A w \in S : ~Forwards(u, w, A)
    <3>1. S \in SUBSET Router /\ S # {}
      OBVIOUS
    <3>2. QED
      BY <2>1, <3>1, NoCircle
  <2>2. QED
    BY <1>1, <2>1 DEF ForwardingDelivers
<1>3. QED
  BY <1>2, RouteInvariant, PTL

-----------------------------------------------------------------------------
(* The loop that restores next hops comes to its end                        *)

\* A predecessor is nearer to the router that computes, and that of its neighbours is
\* the router itself, until it is taken back to nothing.
PrevsDescend ==
    phase = "restore" =>
        /\ \A v \in Farther : prevs[v] \in Reached /\ costs[prevs[v]] < costs[v]
        /\ \A v \in direct : prevs[v] \in {self, 0}

\* The loop begins with predecessors that are nearer.
LEMMA PrevsDescendFirst ==
  ASSUME NEW W, RouteInv(W), NoFreeLinks, CollectDirect
  PROVE  PrevsDescend'
<1>1. Searched /\ PrevsLinked /\ SearchInv(W) /\ UNCHANGED <<costs, prevs, self>>
  BY DEF CollectDirect, Searched, RouteInv, SearchInv
<1>2. /\ Reached \subseteq Router /\ db \in Databases
      /\ \A v \in Router : costs[v] \in Nat
  BY <1>1, RestoreTypes
<1>3. ASSUME NEW v \in Reached \ {self} PROVE prevs[v] \in Reached /\ costs[prevs[v]] < costs[v]
  <2>1. /\ prevs[v] \in Reached /\ v \in Linked(prevs[v])
        /\ costs[prevs[v]] + Metric(prevs[v], v) <= costs[v]
    BY <1>1 DEF PrevsLinked
  <2>2. Metric(prevs[v], v) \in Nat /\ Metric(prevs[v], v) > 0
    BY <1>2, <2>1, MetricPositive
  <2>3. QED
    BY <1>2, <2>1, <2>2
<1>4. Reached' = Reached /\ Farther' \subseteq Reached \ {self}
  BY <1>1 DEF Reached, Farther
<1>5. \A v \in direct' : prevs[v] = self
  BY DEF CollectDirect
<1>6. QED
  BY <1>1, <1>3, <1>4, <1>5 DEF PrevsDescend

\* The predecessor of the predecessor is nearer still.
LEMMA FollowPrevDescends ==
  ASSUME NEW W, RouteInv(W), PrevsDescend, FollowPrev, NEW v \in Farther
  PROVE  /\ prevs'[v] \in Reached /\ costs[prevs'[v]] < costs[v]
         /\ v = at => costs[prevs'[at]] < costs[prevs[at]]
<1>1. /\ phase = "restore" /\ at \in Router /\ TooFar(at)
      /\ prevs' = [prevs EXCEPT ![at] = prevs[prevs[at]]]
  BY DEF FollowPrev
<1>2. /\ \A x \in Router : costs[x] \in Nat
      /\ Reached \subseteq Router /\ prevs \in [Router -> 0 .. N] /\ NextHopsRight
  BY <1>1, RestoreTypes DEF RouteInv, SearchInv, TypeOK
<1>3. CASE v # at
  BY <1>1, <1>2, <1>3 DEF PrevsDescend, Farther
<1>4. CASE v = at
  <2>1. prevs[at] \in Farther
    BY <1>1, <1>2, <1>4 DEF NextHopsRight, OnTheWay, TooFar, Farther
  <2>2. /\ prevs[at] \in Reached /\ costs[prevs[at]] < costs[at]
        /\ prevs[prevs[at]] \in Reached /\ costs[prevs[prevs[at]]] < costs[prevs[at]]
    BY <1>1, <1>4, <2>1 DEF PrevsDescend
  <2>3. prevs'[at] = prevs[prevs[at]]
    BY <1>1, <1>2
  <2>4. costs[at] \in Nat /\ costs[prevs[at]] \in Nat /\ costs[prevs[prevs[at]]] \in Nat
    BY <1>1, <1>2, <2>2
  <2>5. costs[prevs[prevs[at]]] < costs[at]
    BY <2>2, <2>4
  <2>6. QED
    BY <1>4, <2>2, <2>3, <2>5
<1>5. QED
  BY <1>3, <1>4

\* A neighbour that is reached over one link has no next hop to look for.
LEMMA FollowPrevDirect ==
  ASSUME NEW W, RouteInv(W), PrevsDescend, FollowPrev, NEW v \in direct
  PROVE  prevs'[v] \in {self, 0}
<1>1. /\ phase = "restore" /\ at \in Router /\ TooFar(at)
      /\ prevs' = [prevs EXCEPT ![at] = prevs[prevs[at]]]
  BY DEF FollowPrev
<1>2. NextHopsRight /\ prevs \in [Router -> 0 .. N] /\ direct \subseteq Router
  BY <1>1 DEF RouteInv, SearchInv, TypeOK
<1>3. prevs[v] \in {self, 0} /\ prevs[self] = 0
  BY <1>1, <1>2 DEF PrevsDescend, NextHopsRight
<1>4. CASE v = at
  BY <1>1, <1>2, <1>3, <1>4 DEF TooFar
<1>5. CASE v # at
  BY <1>1, <1>2, <1>3, <1>5
<1>6. QED
  BY <1>4, <1>5

\* Every turn of the inner while loop of lines 2152-2159 takes the entry that it works on
\* nearer to the router that computes, or ends the loop. A cost being a natural number the
\* loop has an end; with a link that costs nothing it need not have one.
THEOREM RestoreDescends ==
  ASSUME NEW W, SmallMetrics(W), NoFreeLinks
  PROVE  Spec => [][FollowPrev => \/ costs[prevs'[at]] < costs[prevs[at]]
                                  \/ ~TooFar(at)']_vars
<1> DEFINE Step == FollowPrev => \/ costs[prevs'[at]] < costs[prevs[at]]
                                 \/ ~TooFar(at)'
<1>1. Init => PrevsDescend
  BY DEF Init, PrevsDescend
<1>2. RouteInv(W) /\ PrevsDescend /\ [Next]_vars => PrevsDescend'
  <2> SUFFICES ASSUME RouteInv(W), PrevsDescend, [Next]_vars PROVE PrevsDescend'
    OBVIOUS
  <2>1. CASE CollectDirect
    BY <2>1, PrevsDescendFirst
  <2>2. CASE FollowPrev
    <3>1. UNCHANGED <<phase, costs, self, direct>> /\ Reached' = Reached /\ Farther' = Farther
      BY <2>2 DEF FollowPrev, Reached, Farther
    <3>2. \A v \in Farther : prevs'[v] \in Reached /\ costs[prevs'[v]] < costs[v]
      BY <2>2, FollowPrevDescends
    <3>3. \A v \in direct : prevs'[v] \in {self, 0}
      BY <2>2, FollowPrevDirect
    <3>4. QED
      BY <3>1, <3>2, <3>3 DEF PrevsDescend
  <2>3. CASE Expand
    BY <2>3 DEF Expand, PrevsDescend
  <2>4. CASE NextRouter \/ UNCHANGED vars
    BY <2>4 DEF NextRouter, vars, PrevsDescend, Farther, Reached
  <2>5. CASE AddRoutes
    BY <2>5 DEF AddRoutes, PrevsDescend
  <2>6. QED
    BY <2>1, <2>2, <2>3, <2>4, <2>5 DEF Next
<1>3. RouteInv(W) /\ PrevsDescend /\ [Next]_vars => [Step]_vars
  <2> SUFFICES ASSUME RouteInv(W), PrevsDescend, FollowPrev PROVE Step
    OBVIOUS
  <2>1. /\ at \in Router /\ at' = at /\ direct' = direct /\ TooFar(at) /\ phase = "restore"
        /\ prevs' = [prevs EXCEPT ![at] = prevs[prevs[at]]]
    BY DEF FollowPrev
  <2>2. NextHopsRight /\ prevs \in [Router -> 0 .. N] /\ direct \subseteq Router
    BY <2>1 DEF RouteInv, SearchInv, TypeOK
  <2>3. CASE at \in Farther
    BY <2>3, FollowPrevDescends
  <2>4. CASE at \in direct
    <3>1. at \in Router /\ prevs[at] # 0 /\ prevs[at] \in {self, 0} /\ prevs[self] = 0
      BY <2>1, <2>2, <2>4 DEF PrevsDescend, NextHopsRight, TooFar
    <3>2. prevs'[at] = 0
      BY <2>1, <2>2, <3>1
    <3>3. QED
      BY <2>1, <3>2 DEF TooFar
  <2>5. at \in Reached \ {self}
    BY <2>1, <2>2 DEF NextHopsRight, UnreachedBare, TooFar
  <2>6. QED
    BY <2>3, <2>4, <2>5 DEF Farther
<1>4. QED
  BY <1>1, <1>2, <1>3, RouteInvariant, PTL DEF Spec
=============================================================================
