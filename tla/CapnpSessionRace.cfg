SPECIFICATION Spec
CONSTANTS
  c1 = c1
  c2 = c2
  s1 = s1
  s2 = s2
  s3 = s3
  Nobody = Nobody
  Clients <- OneClient
  Streams <- TwoStreams
  Owner <- SameOwner
  MayFail = FALSE
  MaxCloses = 0
PROPERTY OpenStreamReturns
CHECK_DEADLOCK FALSE
