------------------------- MODULE MCOspfInterfaces -------------------------
(* OspfInterfaces for TLC: a router with two interfaces.                     *)
EXTENDS OspfInterfaces

TwoInterfaces == 1 .. 2
=============================================================================
