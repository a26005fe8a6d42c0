\* The functions of CRC.h over its check text; what CalculateBits appends is shorter
\* than a byte.
\* The text ends: no deadlock check.
SPECIFICATION Spec
CONSTANTS
  Choices <- Catalogue
  Text <- CheckText
  PieceSizes <- Sizes
  AppendSizes <- SizesBelowByte
  DamagedBytes = 2
INVARIANTS
  IsRemainder
  IsDocumented
  DamageIsDetected
CHECK_DEADLOCK FALSE
