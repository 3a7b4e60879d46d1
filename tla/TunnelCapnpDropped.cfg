SPECIFICATION FairSpec
CONSTANTS
  Window = 1
  Hops = 3
  Inners <- OnlyCapnp
  MaxUp = 1
  MaxDn = 1
  MaxSent = 2
  Abrupt <- Nobody
  MayLose = TRUE
  MayRefuse = FALSE
PROPERTY LostStreamStopsReading
CHECK_DEADLOCK FALSE
