\* An ordered network that loses and damages no packet, and may do anything else once;
\* the window of the code, a longer file, and timers that fire at any time.
\* The programs may end, and may wait for datagrams that never come: no deadlock check.
SPECIFICATION IntactSpec
CONSTANTS
  WindowSize = 5
  NumPackets = 6
  ErrorPeriod = 10
  ShortLast = FALSE
  Ordered = TRUE
  MaxFaults = 1
  OpenMayFail = TRUE
  Patient = FALSE
  MaxInFlight = 2
INVARIANTS
  NoLostWakeup
PROPERTIES
  KeepsPromise
CHECK_DEADLOCK FALSE
