\* The second try of the sender starts with the window of the first.
SPECIFICATION Spec
CONSTANTS
  WindowSize = 5
  NumPackets = 4
  ErrorPeriod = 10
  ShortLast = FALSE
  Ordered = TRUE
  MaxFaults = 1
  OpenMayFail = FALSE
  Patient = FALSE
  MaxInFlight = 2
INVARIANTS
  BaseIsOldestUnacknowledged
CHECK_DEADLOCK FALSE
