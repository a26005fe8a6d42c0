\* Datagrams are lost, repeated and reordered at will; packet 2 is spoiled once.
\* The file fits the window.
\* The programs may end, and may wait for datagrams that never come: no deadlock check.
SPECIFICATION Spec
CONSTANTS
  WindowSize = 4
  NumPackets = 3
  ErrorPeriod = 3
  ShortLast = FALSE
  Ordered = FALSE
  MaxFaults = 0
  OpenMayFail = TRUE
  Patient = FALSE
  MaxInFlight = 0
INVARIANTS
  TypeOK
  AckedIsHeld
  FinalAfterLast
  SuccessAfterVerification
  VerdictIsRight
CHECK_DEADLOCK FALSE
