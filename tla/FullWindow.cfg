\* Nothing is lost, and the file is longer than the window.
SPECIFICATION FairSpec
CONSTANTS
  WindowSize = 5
  NumPackets = 6
  ErrorPeriod = 10
  ShortLast = FALSE
  Ordered = TRUE
  MaxFaults = 0
  OpenMayFail = FALSE
  Patient = TRUE
  MaxInFlight = 9
PROPERTIES
  WindowGetsSpace
CHECK_DEADLOCK FALSE
