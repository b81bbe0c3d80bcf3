SPECIFICATION FairSpec
CONSTANTS
  Iface <- TwoInterfaces
  MaxPending = 2
INVARIANTS
  TypeOK
  HelloChains
  Advertised
  Watched
PROPERTIES
  SilenceNoticed
CHECK_DEADLOCK FALSE
