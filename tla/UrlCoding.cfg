SPECIFICATION Spec
CONSTANTS
  Base = 3
  Unreserved = {1, 2, 3, 4}
  Percent = 5
  MaxLen = 4
INVARIANTS
  TypeOK
  StaysInBounds
  EscapedIsClean
  RoundTrip
CHECK_DEADLOCK FALSE
