SPECIFICATION Spec
CONSTANTS
  MaxLength = 4
  Chars = {"a", "b"}
  NUL = "nul"
  ETX = "etx"
  Transmissions <- FullBlock
  MaxSent = 2
INVARIANT NothingLost
CHECK_DEADLOCK FALSE
