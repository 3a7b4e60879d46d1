SPECIFICATION FairSpec
CONSTANTS
  Window = 1
  Hops = 3
  Inners <- OnlyMdcapnp
  MaxUp = 1
  MaxDn = 1
  MaxSent = 2
  Abrupt <- Nobody
  MayLose = FALSE
  MayRefuse = FALSE
PROPERTY CloseFollowsCloseWrite
CHECK_DEADLOCK FALSE
