SPECIFICATION Spec
CONSTANTS
  s1 = s1
  s2 = s2
  Streams <- TwoStreams
  MayFail = TRUE
  MaxLosses = 1
  MaxCloses = 2
  MaxStarts = 1
INVARIANT TypeOK
INVARIANT HeldWhileRelayed
INVARIANT ClosedOnce
PROPERTY ClosedIsReturned
PROPERTY OpenedIsAccepted
PROPERTY StopIsFatal
PROPERTY OpenStreamEnds
CHECK_DEADLOCK FALSE
