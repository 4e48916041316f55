SPECIFICATION FairSpec
CONSTANTS
  SEP = SEP
  NUL = NUL
  MaxItems = 3
PROPERTIES
  Returns
CHECK_DEADLOCK FALSE
