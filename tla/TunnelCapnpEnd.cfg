SPECIFICATION Spec
CONSTANTS
  Window = 1
  Hops = 3
  Inners <- OnlyCapnp
  MaxUp = 1
  MaxDn = 1
  MaxSent = 2
  Abrupt <- ClientOnly
  MayLose = FALSE
  MayRefuse = FALSE
INVARIANT EndIsClean
CHECK_DEADLOCK FALSE
