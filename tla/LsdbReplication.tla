-------------------------- MODULE LsdbReplication --------------------------
(***************************************************************************)
(* What flooding promises of one LSA: its instances are numbered by their   *)
(* originator, every other router's copy moves forward only, one link at a  *)
(* time, and to an instance its neighbour has or had.  Nothing is said of   *)
(* packets, acknowledgments or lists.  LsaFlooding implements it, and so do *)
(* the databases of OspfAdjacency, for every LSA of the two routers.        *)
(***************************************************************************)
EXTENDS Naturals

CONSTANTS
  Router,   \* the routers of the area
  Origin,   \* the one whose LSA this is
  Link      \* pairs of routers that are adjacent, in both orders

VARIABLE copy   \* copy[r]: the number of the instance that r has, 0 if none

\* Nobody is ahead of the originator.
Init == copy \in [Router -> Nat] /\ \A r \in Router : copy[r] <= copy[Origin]

\* The originator makes new instances: one event may cause more than one.
Announce ==
  /\ copy'[Origin] > copy[Origin]
  /\ copy' = [copy EXCEPT ![Origin] = copy'[Origin]]

\* Router r learns an instance from its neighbour n, which may by now have a newer
\* one.
Learn(n, r) ==
  \E v \in copy[r] + 1 .. copy[n] : copy' = [copy EXCEPT ![r] = v]

Next == Announce \/ \E l \in Link : Learn(l[1], l[2])

Spec == Init /\ [][Next]_copy
=============================================================================
