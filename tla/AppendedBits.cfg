\* As Checksums, but CalculateBits also appends pieces of a byte and more.
SPECIFICATION Spec
CONSTANTS
  Choices <- Catalogue
  Text <- CheckText
  PieceSizes <- Sizes
  AppendSizes <- Sizes
  DamagedBytes = 0
PROPERTIES
  BitsAreAppended
CHECK_DEADLOCK FALSE
