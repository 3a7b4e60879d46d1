SPECIFICATION CopySpec
CONSTANTS
  Window = 1
  Hops = 3
  Inners <- LossAware
  MaxUp = 1
  MaxDn = 0
  MaxSent = 1
  Abrupt <- Nobody
  MayLose = TRUE
  MayRefuse = FALSE
PROPERTY LostStreamStopsReading
CHECK_DEADLOCK FALSE
