--------------------------- MODULE MCLsaFlooding ---------------------------
(* Instances of LsaFlooding for TLC.                                        *)
EXTENDS LsaFlooding

CONSTANTS a, b, c

\* Three routers in a circle: every instance reaches each of them on two paths.
Both(p, q) == {<<p, q>>, <<q, p>>}
Triangle == Both(a, b) \cup Both(b, c) \cup Both(a, c)
=============================================================================
