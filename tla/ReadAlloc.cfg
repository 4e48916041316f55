SPECIFICATION FairSpec
CONSTANTS
  AddSize = 3
  MaxStream = 9
INVARIANTS
  TypeOK
  RecvStaysInBlock
  RoomForTerminator
PROPERTIES
  EndsWithThePeer
  ImplementsReadAll
CHECK_DEADLOCK FALSE
