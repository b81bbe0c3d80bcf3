--------------------------- MODULE MCOspfAdjacency ---------------------------
EXTENDS OspfAdjacency
CONSTANTS f1, l1
=============================================================================
