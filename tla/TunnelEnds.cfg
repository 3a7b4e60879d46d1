SPECIFICATION FairSpec
CONSTANTS
  Window = 1
  Hops = 3
  Inners <- AllKinds
  MaxUp = 1
  MaxDn = 1
  MaxSent = 2
  Abrupt <- Nobody
  MayLose = FALSE
  MayRefuse = FALSE
PROPERTY ShutEndsRelay
CHECK_DEADLOCK FALSE
