SPECIFICATION ClientSpec
CONSTANTS
  BlockLen = 5
  LengthLen = 2
  LowMod = 32
  HighMod = 3
  MaxFed = 12
  MaxChunk = 7
  Users = {"program", "hmac", "data", "file"}
  DigestLen = 2
  KeyLens = {0, 4, 5, 6, 7}
  InLens = {0, 1, 2, 6}
  FileLens = {0, 1, 2, 3, 4, 5, 8}
  ReadLen = 2
  MaxErrors = 1
INVARIANTS
  TypeOK
  ChunksAreTheMessage
  DigestOfPaddedMessage
  OverlongNeverDigested
  MacIsHmac
  BodyHashIsOfBody
PROPERTIES
  DigestStays
CHECK_DEADLOCK FALSE
