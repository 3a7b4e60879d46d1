SPECIFICATION FairSpec
CONSTANTS
  Window = 1
  Hops = 3
  Inners <- ReadClosing
  MaxUp = 0
  MaxDn = 4
  MaxSent = 4
  Abrupt <- ClientOnly
  MayLose = FALSE
  MayRefuse = FALSE
INVARIANT InOrder
INVARIANT EofIsComplete
PROPERTY ClosedReadEndFreesWriter
CHECK_DEADLOCK FALSE
