SPECIFICATION Spec
CONSTANTS
  c1 = c1
  c2 = c2
  s1 = s1
  s2 = s2
  s3 = s3
  Nobody = Nobody
  Clients <- TwoClients
  Streams <- ThreeStreams
  Owner <- Owners
  MayFail = TRUE
  MaxCloses = 1
INVARIANT TypeOK
INVARIANT OneConnection
INVARIANT OpenIsAccepted
INVARIANT OneConnectionServed
PROPERTY OfferIsTaken
PROPERTY BootstrapReturns
PROPERTY BrokenConnectionFails
CHECK_DEADLOCK FALSE
