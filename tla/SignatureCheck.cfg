SPECIFICATION Spec
CONSTANTS
  NULL = NULL
  Sources <- MCSources
  Breaks = {10}
  MaxBreaks = 1
INVARIANTS
  TypeOK
  BuffersFit
  RoundTrip
  EqualsIsEquality
CHECK_DEADLOCK FALSE
