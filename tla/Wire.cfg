SPECIFICATION Spec
CHECK_DEADLOCK FALSE
CONSTANTS
  Byte = 4
  Xor <- MCXor
  OperationKey = 1
  Transformer <- MCTransformer
  CookieSize = 2
  bufferLen = 3
  RecvLength = 18
  ServerBuffer = 20
  DefaultBufferSize = 4
  Expanded = 8
  versionNum = 5
  Hellos <- MCHellos
  Cookies <- MCCookies
  Tails <- MCTails
  Flags = {9}
  MaxHeartbeats = 2
  MaxFlags = 1
INVARIANTS
  TypeOK
  ReadAsSaid
  NobodyThrown
PROPERTIES
  BeatsInTurn
