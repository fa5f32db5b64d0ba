SPECIFICATION Spec
CONSTANTS
  Window = 2
  MaxWindow = 9
  MaxPacket = 1
  Grants = {1}
  DataSize = {1, 2}
  ChunkSize = {1, 2}
  MaxGranted = 2
  MaxSent = 3
  MaxChunks = 2
  MaxInbox = 1
INVARIANTS
  TypeOK
  CloseLast
  ReleasedWhenDead
  ReceiveCredit
  SendCredit

  
CHECK_DEADLOCK FALSE
