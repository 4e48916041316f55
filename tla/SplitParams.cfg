SPECIFICATION FairSpec
CONSTANTS
  SEP = SEP
  NUL = NUL
  MaxItems = 5
INVARIANTS
  TypeOK
  AllParameters
  UrlIsNormalised
PROPERTIES
  ReturnsUnlessSignatureFirst
CHECK_DEADLOCK FALSE
