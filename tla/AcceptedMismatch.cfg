\* One fault; the counterexample loses a DATA packet before the last one.
SPECIFICATION Spec
CONSTANTS
  WindowSize = 5
  NumPackets = 4
  ErrorPeriod = 10
  ShortLast = FALSE
  Ordered = TRUE
  MaxFaults = 1
  OpenMayFail = FALSE
  Patient = TRUE
  MaxInFlight = 9
INVARIANTS
  SuccessMeansMatch
CHECK_DEADLOCK FALSE
