\* Nothing is lost; packet 9 is spoiled once, by packetError, and the digest differs.
SPECIFICATION Spec
CONSTANTS
  WindowSize = 5
  NumPackets = 10
  ErrorPeriod = 10
  ShortLast = FALSE
  Ordered = TRUE
  MaxFaults = 0
  OpenMayFail = FALSE
  Patient = TRUE
  MaxInFlight = 9
PROPERTIES
  NameOpensFile
CHECK_DEADLOCK FALSE
