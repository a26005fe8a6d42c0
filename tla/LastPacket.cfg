\* One fault; the counterexample loses the last DATA packet.
SPECIFICATION FairSpec
CONSTANTS
  WindowSize = 5
  NumPackets = 4
  ErrorPeriod = 10
  ShortLast = FALSE
  Ordered = TRUE
  MaxFaults = 1
  OpenMayFail = FALSE
  Patient = TRUE
  MaxInFlight = 9
PROPERTIES
  LastPacketIsResent
CHECK_DEADLOCK FALSE
