SPECIFICATION Spec
CONSTANTS
  Window = 1
  Hops = 3
  Inners <- AllKinds
  MaxUp = 1
  MaxDn = 1
  MaxSent = 1
  Abrupt <- Nobody
  MayLose = TRUE
  MayRefuse = TRUE
INVARIANT TypeOK
INVARIANT InFlight
PROPERTY ImplementsConduit
CHECK_DEADLOCK FALSE
