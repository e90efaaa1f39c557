SPECIFICATION Spec
CONSTANTS
  MaxLength = 4
  Chars = {"a", "b"}
  NUL = "nul"
  ETX = "etx"
  Transmissions <- SafeTexts
  MaxSent = 3
INVARIANT FramingInv
PROPERTY ImplementsTransmission
CHECK_DEADLOCK FALSE
