\* The constants of the code, at most one fault of any kind, at any time, and timers
\* longer than the round trip.
\* The programs may end, and may wait for datagrams that never come: no deadlock check.
SPECIFICATION FairSpec
CONSTANTS
  WindowSize = 5
  NumPackets = 4
  ErrorPeriod = 10
  ShortLast = FALSE
  Ordered = TRUE
  MaxFaults = 1
  OpenMayFail = FALSE
  Patient = TRUE
  MaxInFlight = 9
PROPERTIES
  EventuallyConfirmed
  HandshakeEnds
  LossIsRepaired
  JoinEnds
CHECK_DEADLOCK FALSE
