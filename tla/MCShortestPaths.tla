--------------------------- MODULE MCShortestPaths ---------------------------
(****************************************************************************)
(* ShortestPaths for TLC: small networks.                                   *)
(****************************************************************************)
EXTENDS ShortestPaths, SequencesExt

\* Rates of the links: 1 Gbit/s costs 0, 100 Mbit/s 1, 50 Mbit/s 2 and
\* 25 Mbit/s 4.
Gigabit == 1000000000
Fast == 100000000
Half == 50000000
Slow == 25000000

Pairs == {p \in Router \X Router : p[1] < p[2]}

\* The interfaces of u when L says, of every pair, at which rates the two are
\* linked; the first rate is that of the router with the smaller id.
InterfacesOf(u, L) ==
    LET To(v) == IF u < v THEN [i \in DOMAIN L[<<u, v>>] |->
                                  [nbr |-> v, rate |-> L[<<u, v>>][i][1]]]
                 ELSE IF v < u THEN [i \in DOMAIN L[<<v, u>>] |->
                                  [nbr |-> v, rate |-> L[<<v, u>>][i][2]]]
                 ELSE <<>>
    IN  FlattenSeq([v \in Router |-> To(v)])

Network(L, K) == [links |-> [u \in Router |-> InterfacesOf(u, L)], known |-> K]

\* No link, or one that costs the same in both directions.
Symmetric == {<<>>, <<<<Fast, Fast>>>>, <<<<Half, Half>>>>}
\* A link dearer in one direction or in the other, and two links at once.
Uneven == {<<>>, <<<<Fast, Fast>>>>, <<<<Fast, Slow>>>>, <<<<Slow, Fast>>>>,
           <<<<Slow, Slow>>, <<Fast, Fast>>>>}

\* All networks with symmetric costs, complete or without one router-LSA.
SymmetricDatabases ==
    {Network(L, K) : L \in [Pairs -> Symmetric], K \in {Router, Router \ {2}}}
\* All networks with uneven costs between the routers below N, any of their
\* router-LSAs missing; N has no link.
UnevenDatabases ==
    {Network([p \in Pairs |-> IF p[2] = N THEN <<>> ELSE L[p]], K \cup {N}) :
       L \in [{p \in Pairs : p[2] < N} -> Uneven], K \in SUBSET (1 .. N - 1)}
\* The networks of either kind.
MixedDatabases == SymmetricDatabases \cup UnevenDatabases
\* Fast networks.
FastDatabases ==
    {Network(L, Router) : L \in [Pairs -> {<<>>, <<<<Fast, Fast>>>>,
                                           <<<<Gigabit, Gigabit>>>>}]}
=============================================================================
