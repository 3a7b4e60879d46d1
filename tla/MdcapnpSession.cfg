SPECIFICATION Spec
CONSTANTS
  s1 = s1
  s2 = s2
  s3 = s3
  Nobody = Nobody
  Streams <- ThreeStreams
  MayFail = TRUE
  MayClose <- Sides
INVARIANT TypeOK
INVARIANT OneConnection
INVARIANT ProxyIsConnected
PROPERTY OpenStreamEnds
PROPERTY OpenedIsAccepted
PROPERTY CloseReturns
CHECK_DEADLOCK FALSE
