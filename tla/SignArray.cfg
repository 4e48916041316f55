SPECIFICATION Spec
CONSTANTS
  NULL = NULL
  Arrays <- MCArrays
  Forms = {"get", "post", "header"}
  Methods = {"HMAC", "PLAINTEXT"}
  Keys <- MCKeys
  Tokens <- MCTokens
  ArgMax = 7
  MaxSignings = 2
INVARIANTS
  TypeOK
  ServerVerifies
  ProtocolOnce
  QueryFits
  Separated
CHECK_DEADLOCK FALSE
