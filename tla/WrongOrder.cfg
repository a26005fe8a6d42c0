\* Nothing is lost; packet 9 is spoiled once, by packetError.
SPECIFICATION Spec
CONSTANTS
  WindowSize = 5
  NumPackets = 13
  ErrorPeriod = 10
  ShortLast = FALSE
  Ordered = TRUE
  MaxFaults = 0
  OpenMayFail = FALSE
  Patient = TRUE
  MaxInFlight = 9
INVARIANTS
  WrittenInOrder
CHECK_DEADLOCK FALSE
